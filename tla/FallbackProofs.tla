----------------------------- MODULE FallbackProofs -----------------------------
(***************************************************************************)
(* Without an LLM every plain text becomes a configuration that critic and *)
(* sandbox pass, for every alphabet, number of mentions and query clause.  *)
(* A scenario finds the endpoint of its mention because splitting reads a  *)
(* path and its sample alike; it finds no other because mentions do not    *)
(* overlap; and it is answered by that endpoint's default response because *)
(* the rules of the configuration ask for a query the scenario lacks.      *)
(***************************************************************************)
EXTENDS FallbackTexts, PipelineProofs

--------------------------------------------------------------------------------
\* A path and its sample.

\* The positions with a "?", and the last position that is read.
Marked(path) == {i \in DOMAIN path : BeforeQuery[path[i]] # path[i]}

LastRead(path) ==
  IF Marked(path) = {} THEN Len(path)
  ELSE CHOOSE i \in Marked(path) : \A j \in Marked(path) : i <= j

\* What is left without the query, position by position.
LEMMA CutByPosition ==
  ASSUME NEW path \in Paths
  PROVE  LET cut == PathWithoutQuery(path)
         IN  /\ LastRead(path) \in 0 .. Len(path)
             /\ DOMAIN cut = 1 .. LastRead(path)
             /\ \A i \in DOMAIN cut : cut[i] = BeforeQuery[path[i]]
<1> DEFINE cut == PathWithoutQuery(path)
           last == LastRead(path)
<1>1. /\ DOMAIN path = 1 .. Len(path) /\ Len(path) \in Nat
      /\ \A i \in 1 .. Len(path) : path[i] \in RawSegments
  BY LenProperties, ElementOfSeq DEF Paths
<1>2. CASE Marked(path) = {}
  <2>1. cut = path /\ last = Len(path)
    BY <1>2 DEF PathWithoutQuery, Marked, LastRead
  <2>2. \A i \in DOMAIN path : path[i] = BeforeQuery[path[i]]
    BY <1>2 DEF Marked
  <2> QED
    BY <1>1, <2>1, <2>2
<1>3. CASE Marked(path) # {}
  <2>1. last \in Marked(path) /\ \A j \in Marked(path) : last <= j
    <3>1. Marked(path) \in SUBSET Nat
      BY <1>1 DEF Marked
    <3>2. \E i \in Marked(path) : \A j \in Marked(path) : i <= j
      BY <1>3, <3>1, LeastExists
    <3> QED
      BY <1>3, <3>2 DEF LastRead
  <2>2. cut = Append(SubSeq(path, 1, last - 1), BeforeQuery[path[last]])
    <3> DEFINE marked == {i \in DOMAIN path : BeforeQuery[path[i]] # path[i]}
               first  == CHOOSE i \in marked : \A j \in marked : i <= j
    <3>1. cut = Append(SubSeq(path, 1, first - 1), BeforeQuery[path[first]])
      BY <1>3 DEF PathWithoutQuery, Marked
    <3>2. last = first
      BY <1>3 DEF LastRead, Marked
    <3> HIDE DEF first, last, cut
    <3> QED
      BY <3>1, <3>2
  <2> HIDE DEF last, cut
  <2>3. last \in 1 .. Len(path)
    BY <1>1, <2>1 DEF Marked
  <2> DEFINE front == SubSeq(path, 1, last - 1)
  <2>4. /\ front \in Seq(RawSegments) /\ Len(front) = last - 1
        /\ \A i \in 1 .. last - 1 : front[i] = path[i]
    BY <1>1, <2>3, SubSeqProperties DEF Paths
  <2> HIDE DEF front
  <2>5. BeforeQuery[path[last]] \in RawSegments
    BY <1>1, <2>3, SegmentAssumption
  <2>6. /\ Len(cut) = last /\ DOMAIN cut = 1 .. last
        /\ \A i \in 1 .. last - 1 : cut[i] = path[i]
        /\ cut[last] = BeforeQuery[path[last]]
    BY <2>2, <2>3, <2>4, <2>5, AppendProperties, LenProperties DEF front
  <2>7. \A i \in 1 .. last - 1 : path[i] = BeforeQuery[path[i]]
    BY <1>1, <2>1, <2>3 DEF Marked
  <2>8. \A i \in 1 .. last : i \in 1 .. last - 1 \/ i = last
    BY <2>3
  <2>9. last \in 0 .. Len(path)
    BY <2>3
  <2> QED
    BY <2>6, <2>7, <2>8, <2>9 DEF last, cut
<1> QED
  BY <1>2, <1>3

SampleOf(path) == [i \in DOMAIN path |-> Sample[path[i]]]

LEMMA SampleOfPath ==
  ASSUME NEW path \in Paths
  PROVE  SampleOf(path) \in Paths /\ Len(SampleOf(path)) = Len(path)
<1>1. /\ DOMAIN path = 1 .. Len(path) /\ Len(path) \in Nat
      /\ \A i \in 1 .. Len(path) : path[i] \in RawSegments
  BY LenProperties, ElementOfSeq DEF Paths
<1>2. SampleOf(path) \in [1 .. Len(path) -> RawSegments]
  BY <1>1, AgentsAssumption DEF SampleOf
<1> QED
  BY <1>1, <1>2, SeqDef, LenProperties, EqualIntervals DEF Paths

\* The matcher reads a legible path and its sample at the same positions.
LEMMA SampleReadAlike ==
  ASSUME NEW path \in Paths, \A k \in DOMAIN path : Legible(path[k])
  PROVE  LET cut  == PathWithoutQuery(path)
             mine == PathWithoutQuery(SampleOf(path))
             kept(s) == {i \in DOMAIN s : s[i] # Empty}
         IN  /\ kept(mine) = kept(cut)
             /\ \A i \in DOMAIN cut : /\ cut[i] = BeforeQuery[path[i]] /\ i \in DOMAIN path
                                      /\ mine[i] = Sample[cut[i]]
<1> DEFINE sample == SampleOf(path)
           cut  == PathWithoutQuery(path)
           mine == PathWithoutQuery(sample)
<1>1. DOMAIN path = 1 .. Len(path) /\ Len(path) \in Nat
  BY LenProperties DEF Paths
<1>2. /\ sample \in Paths /\ Len(sample) = Len(path) /\ DOMAIN sample = DOMAIN path
      /\ \A i \in DOMAIN path : sample[i] = Sample[path[i]]
  BY SampleOfPath DEF SampleOf
<1> HIDE DEF sample
<1>3. \A i \in DOMAIN path : BeforeQuery[sample[i]] = Sample[BeforeQuery[path[i]]]
  BY <1>2 DEF Legible
<1>4. Marked(sample) = Marked(path)
  <2>1. \A i \in DOMAIN path : BeforeQuery[sample[i]] = sample[i] <=> BeforeQuery[path[i]] = path[i]
    BY <1>2, <1>3 DEF Legible
  <2> QED
    BY <1>2, <2>1 DEF Marked
<1>5. LastRead(sample) = LastRead(path)
  BY <1>2, <1>4 DEF LastRead
<1>6. /\ LastRead(path) \in 0 .. Len(path) /\ DOMAIN cut = 1 .. LastRead(path)
      /\ \A i \in DOMAIN cut : cut[i] = BeforeQuery[path[i]]
  BY CutByPosition
<1>7. /\ DOMAIN mine = 1 .. LastRead(path)
      /\ \A i \in DOMAIN mine : mine[i] = BeforeQuery[sample[i]]
  BY <1>2, <1>5, CutByPosition
<1> HIDE DEF cut, mine
<1>8. \A i \in DOMAIN cut : i \in DOMAIN path
  BY <1>1, <1>6
<1>9. \A i \in DOMAIN cut : mine[i] = Sample[cut[i]]
  BY <1>3, <1>6, <1>7, <1>8
<1>10. \A i \in DOMAIN cut : cut[i] = Empty <=> mine[i] = Empty
  BY <1>6, <1>8, <1>9 DEF Legible
<1>11. {i \in DOMAIN mine : mine[i] # Empty} = {i \in DOMAIN cut : cut[i] # Empty}
  BY <1>6, <1>7, <1>10
<1> QED
  BY <1>6, <1>8, <1>9, <1>11 DEF cut, mine, sample

\* A legible template fits its own sample.
LEMMA SampleFits ==
  ASSUME NEW path \in Paths, \A k \in DOMAIN path : Legible(path[k])
  PROVE  MatchSegments(SplitPath(path), SplitPath(SampleOf(path)))
<1> DEFINE cut  == PathWithoutQuery(path)
           mine == PathWithoutQuery(SampleOf(path))
           kept  == {i \in DOMAIN cut : cut[i] # Empty}
           kept2 == {i \in DOMAIN mine : mine[i] # Empty}
           kth(k)  == CHOOSE i \in kept : Cardinality({j \in kept : j <= i}) = k
           kth2(k) == CHOOSE i \in kept2 : Cardinality({j \in kept2 : j <= i}) = k
           n == Cardinality(kept)
<1>1. /\ kept2 = kept
      /\ \A i \in DOMAIN cut : /\ cut[i] = BeforeQuery[path[i]] /\ i \in DOMAIN path
                               /\ mine[i] = Sample[cut[i]]
  BY SampleReadAlike
<1>2. kept \in SUBSET (1 .. Len(cut)) /\ Len(cut) \in Nat
  BY WithoutQueryIsPath, LenProperties DEF Paths
<1>3. n \in Nat /\ \A k \in 1 .. n : kth(k) \in kept
  <2> HIDE DEF kept
  <2> QED
    BY <1>2, KthPosition
<1>4. SplitPath(path) = [k \in 1 .. n |-> Unquote[cut[kth(k)]]]
  BY DEF SplitPath
<1>5. SplitPath(SampleOf(path)) = [k \in 1 .. n |-> Unquote[mine[kth(k)]]]
  <2>1. SplitPath(SampleOf(path))
          = [k \in 1 .. Cardinality(kept2) |-> Unquote[mine[kth2(k)]]]
    BY DEF SplitPath
  <2> HIDE DEF kept2, kept
  <2> QED
    BY <1>1, <2>1
<1>6. \A k \in 1 .. n : kth(k) \in DOMAIN cut
  <2>1. kept \subseteq DOMAIN cut
    OBVIOUS
  <2> HIDE DEF kept
  <2> QED
    BY <1>3, <2>1
<1> HIDE DEF kth, kth2, kept2, cut, mine, n
<1>7. \A k \in 1 .. n :
        IF IsParam(Unquote[cut[kth(k)]]) THEN ParamName[Unquote[cut[kth(k)]]] # NoName
        ELSE Unquote[cut[kth(k)]] = Unquote[mine[kth(k)]]
  <2> SUFFICES ASSUME NEW k \in 1 .. n
               PROVE  IF IsParam(Unquote[cut[kth(k)]]) THEN ParamName[Unquote[cut[kth(k)]]] # NoName
                      ELSE Unquote[cut[kth(k)]] = Unquote[mine[kth(k)]]
    OBVIOUS
  <2>1. /\ cut[kth(k)] = BeforeQuery[path[kth(k)]] /\ kth(k) \in DOMAIN path
        /\ mine[kth(k)] = Sample[cut[kth(k)]]
    BY <1>1, <1>6
  <2> QED
    BY <2>1 DEF Legible
<1> QED
  BY <1>3, <1>4, <1>5, <1>7 DEF MatchSegments

--------------------------------------------------------------------------------
\* What else the sandbox builds: beside the endpoints, which Simulated is about,
\* their flags and default responses, and no rule but those of the configuration.

HasDefault(r, endpoint_id, status_code) ==
  \E k \in DOMAIN r.responses :
    /\ r.responses[k].endpoint_id = endpoint_id
    /\ r.responses[k].is_default
    /\ r.responses[k].status_code = status_code

SameTest(rule, request) ==
  /\ rule.condition_type = request.condition_type
  /\ rule.field = request.field
  /\ rule.operator = request.operator
  /\ rule.value = request.value

Mirrored(c, b, n) ==
  /\ \A i \in Seen(c, n) :
       /\ b.repo.endpoints[i].is_active = c.endpoints[i].endpoint.is_active
       /\ HasDefault(b.repo, b.repo.endpoints[i].id, c.endpoints[i].endpoint.status_code)
  /\ \A k \in DOMAIN b.repo.rules :
       \E l \in DOMAIN c.rules : SameTest(b.repo.rules[k], c.rules[l].rule)

\* More responses take no default away.
LEMMA DefaultStays ==
  ASSUME NEW r, NEW t, NEW e, Extends(t.responses, r.responses, e)
  PROVE  \A id, status : HasDefault(r, id, status) => HasDefault(t, id, status)
BY DEF Extends, HasDefault

LEMMA EndpointRoundMirrored ==
  ASSUME NEW c, TypedConfig(c), NEW project \in Projects, NEW b,
         NEW n \in 1 .. Rounds(c), n <= Len(c.endpoints),
         Simulated(c, project, b, n - 1), Mirrored(c, b, n - 1)
  PROVE  Mirrored(c, SandboxRound(b, project, c, n), n)
<1> DEFINE d == SandboxRound(b, project, c, n)
           g == c.endpoints[n]
           default == TRUE
           endpoint == [id |-> b.fresh, project_id |-> project, path |-> g.endpoint.path,
                        method |-> g.endpoint.method, is_active |-> g.endpoint.is_active]
           response == [id |-> b.fresh + 1, endpoint_id |-> b.fresh,
                        status_code |-> g.endpoint.status_code, is_default |-> default,
                        echo |-> g.endpoint.echo]
           t == CreateEndpoint(b.repo, project, g.endpoint, b.fresh, b.fresh + 1)
<1>1. /\ b.repo.endpoints \in Seq(Endpoint) /\ b.repo.responses \in Seq(Response)
      /\ DOMAIN b.repo.endpoints = Seen(c, n - 1)
  BY DEF Simulated, Sound, RepositoryType
<1>2. Seen(c, n - 1) = 1 .. n - 1 /\ Seen(c, n) = 1 .. n
  BY RoundOfEndpoint
<1>3. d.repo = t
  BY DEF SandboxRound, AddEndpoint, Build
<1>4. Extends(t.endpoints, b.repo.endpoints, endpoint)
  BY <1>1, AppendExtends DEF CreateEndpoint
<1>5. Extends(t.responses, b.repo.responses, response)
  BY <1>1, AppendExtends DEF CreateEndpoint
<1>6. t.rules = b.repo.rules
  BY DEF CreateEndpoint
<1>7. /\ endpoint.id = b.fresh /\ endpoint.is_active = g.endpoint.is_active
      /\ response.endpoint_id = b.fresh /\ response.status_code = g.endpoint.status_code
      /\ response.is_default
  OBVIOUS
<1> HIDE DEF t, endpoint, response, d
<1>8. Len(b.repo.endpoints) = n - 1
  <2>1. /\ 1 .. Len(b.repo.endpoints) = 1 .. n - 1 /\ Len(b.repo.endpoints) \in Nat
        /\ n - 1 \in Nat
    BY <1>1, <1>2, LenProperties
  <2> QED
    BY <2>1, EqualIntervals
<1>9. t.endpoints[n] = endpoint
  <2>1. (n - 1) + 1 = n
    OBVIOUS
  <2> QED
    BY <1>4, <1>8, <2>1 DEF Extends
<1>10. HasDefault(t, b.fresh, g.endpoint.status_code)
  BY <1>5, <1>7 DEF Extends, HasDefault
<1>11. \A i \in 1 .. n - 1 :
         /\ t.endpoints[i].is_active = c.endpoints[i].endpoint.is_active
         /\ HasDefault(t, t.endpoints[i].id, c.endpoints[i].endpoint.status_code)
  <2>1. \A i \in 1 .. n - 1 : t.endpoints[i] = b.repo.endpoints[i]
    BY <1>1, <1>2, <1>4 DEF Extends
  <2> QED
    BY <1>2, <1>5, <2>1, DefaultStays DEF Mirrored
<1>12. \A i \in 1 .. n :
         /\ t.endpoints[i].is_active = c.endpoints[i].endpoint.is_active
         /\ HasDefault(t, t.endpoints[i].id, c.endpoints[i].endpoint.status_code)
  <2>1. \A i \in 1 .. n : i \in 1 .. n - 1 \/ i = n
    OBVIOUS
  <2> QED
    BY <1>7, <1>9, <1>10, <1>11, <2>1
<1>13. \A k \in DOMAIN t.rules :
         \E l \in DOMAIN c.rules : SameTest(t.rules[k], c.rules[l].rule)
  BY <1>6 DEF Mirrored
<1>14. Mirrored(c, d, n)
  BY <1>2, <1>3, <1>12, <1>13 DEF Mirrored
<1> QED
  BY <1>14 DEF d

LEMMA RuleRoundMirrored ==
  ASSUME NEW c, TypedConfig(c), KeysKnown(c), NEW project \in Projects, NEW b,
         NEW n \in 1 .. Rounds(c), ~ (n <= Len(c.endpoints)),
         Simulated(c, project, b, n - 1), Mirrored(c, b, n - 1)
  PROVE  Mirrored(c, SandboxRound(b, project, c, n), n)
<1> DEFINE d == SandboxRound(b, project, c, n)
           l == n - Len(c.endpoints)
           g == c.rules[l]
           id == b.ids[g.endpoint_key]
           default == FALSE
           response == [id |-> b.fresh, endpoint_id |-> id, status_code |-> g.rule.status_code,
                        is_default |-> default, echo |-> g.rule.echo]
           rule == [endpoint_id |-> id, condition_type |-> g.rule.condition_type,
                    field |-> g.rule.field, operator |-> g.rule.operator,
                    value |-> g.rule.value, action |-> b.fresh]
           t == CreateRule(b.repo, id, g.rule, b.fresh)
<1>1. b.repo.responses \in Seq(Response) /\ b.repo.rules \in Seq(Rule)
  BY DEF Simulated, Sound, RepositoryType
<1>2. l \in DOMAIN c.rules /\ Seen(c, n) = Seen(c, n - 1)
  BY RoundOfRule
<1>3. d.repo = t
  BY DEF SandboxRound, AddRule, Build
<1>4. t.endpoints = b.repo.endpoints
  BY DEF CreateRule
<1>5. Extends(t.responses, b.repo.responses, response)
  BY <1>1, AppendExtends DEF CreateRule
<1>6. Extends(t.rules, b.repo.rules, rule)
  BY <1>1, AppendExtends DEF CreateRule
<1>7. SameTest(rule, g.rule)
  BY DEF SameTest
<1> HIDE DEF t, response, rule, d, g, l
<1>8. \A i \in Seen(c, n) :
        /\ t.endpoints[i].is_active = c.endpoints[i].endpoint.is_active
        /\ HasDefault(t, t.endpoints[i].id, c.endpoints[i].endpoint.status_code)
  BY <1>2, <1>4, <1>5, DefaultStays DEF Mirrored
<1>9. \A k \in DOMAIN t.rules :
        \E m \in DOMAIN c.rules : SameTest(t.rules[k], c.rules[m].rule)
  BY <1>2, <1>6, <1>7 DEF Mirrored, Extends, g
<1>10. Mirrored(c, d, n)
  BY <1>3, <1>8, <1>9 DEF Mirrored
<1> QED
  BY <1>10 DEF d

\* The sandbox ends with a repository that holds the configuration and nothing else.
LEMMA SandboxHolds ==
  ASSUME NEW c, TypedConfig(c), KeysKnown(c), NEW project \in Projects
  PROVE  \E b : /\ b.repo = SandboxRepository(project, c)
                /\ Simulated(c, project, b, Rounds(c))
                /\ Mirrored(c, b, Rounds(c))
<1> DEFINE N == Rounds(c)
<1>1. N \in Nat
  BY RoundsNat
<1>2. PICK f : /\ SandboxRepository(project, c) = f[N].repo
               /\ f[0] = Build(EmptyRepository, 1, << >>)
               /\ \A n \in 1 .. N : f[n] = SandboxRound(f[n - 1], project, c, n)
  BY <1>1, SandboxRuns
<1> DEFINE holds(n) == Simulated(c, project, f[n], n) /\ Mirrored(c, f[n], n)
           bad == {n \in 0 .. N : ~ holds(n)}
<1>3. holds(0)
  <2>1. Seen(c, 0) = {} /\ DOMAIN f[0].repo.rules = {}
    BY <1>2, Pieces DEF Seen, Build, EmptyRepository
  <2> QED
    BY <1>2, <2>1, SimulatedFirst DEF Mirrored
<1>4. \A n \in 1 .. N : holds(n - 1) => holds(n)
  <2> SUFFICES ASSUME NEW n \in 1 .. N, holds(n - 1) PROVE holds(n)
    OBVIOUS
  <2>1. f[n] = SandboxRound(f[n - 1], project, c, n)
    BY <1>2
  <2> DEFINE b == f[n - 1]
  <2>2. Simulated(c, project, b, n - 1) /\ Mirrored(c, b, n - 1)
    OBVIOUS
  <2> HIDE DEF b
  <2>3. Simulated(c, project, SandboxRound(b, project, c, n), n)
    BY <2>2, SandboxRoundSimulated
  <2>4. Mirrored(c, SandboxRound(b, project, c, n), n)
    BY <2>2, EndpointRoundMirrored, RuleRoundMirrored
  <2> QED
    BY <2>1, <2>3, <2>4 DEF b
<1>5. bad = {}
  <2> SUFFICES ASSUME bad # {} PROVE FALSE
    OBVIOUS
  <2>1. bad \in SUBSET Nat
    BY <1>1
  <2> HIDE DEF bad
  <2>2. PICK n \in bad : \A m \in bad : n <= m
    BY <2>1, LeastExists
  <2>3. n \in 0 .. N /\ ~ holds(n)
    BY <2>2 DEF bad
  <2> HIDE DEF holds
  <2>4. n \in 1 .. N /\ n - 1 \in 0 .. N /\ ~ (n <= n - 1)
    BY <1>1, <1>3, <2>3
  <2>5. holds(n - 1)
    BY <2>2, <2>4 DEF bad
  <2> QED
    BY <1>4, <2>3, <2>4, <2>5
<1>6. holds(N)
  <2> HIDE DEF holds
  <2> QED
    BY <1>1, <1>5
<1> QED
  BY <1>2, <1>6

--------------------------------------------------------------------------------
\* What planner and code generation make of plain mentions.

PlainList(m) ==
  /\ Len(m) \in Nat \ {0} /\ DOMAIN m = 1 .. Len(m) /\ DOMAIN m \subseteq DOMAIN KeyOf
  /\ \A i \in DOMAIN m :
       /\ m[i].path \in Paths /\ m[i].method \in Methods /\ m[i].delay \in Nat
       /\ ValidStatus(PlannedStatus(m[i]))
       /\ \A k \in DOMAIN m[i].path : Legible(m[i].path[k])
  /\ \A i, j \in DOMAIN m : i # j => ~ Overlap(m[i], m[j])

MadeOf(c, m) ==
  /\ c.endpoints = [i \in DOMAIN m |-> EndpointConfigOf(PlannedEndpoint(KeyOf[i], m[i]))]
  /\ c.scenarios = [i \in DOMAIN m |-> ScenarioOf(m[i])]
  /\ \/ c.rules = << >>
     \/ \E value \in Values \ {None} :
          c.rules = <<RuleConfigOf(PlannedRule(KeyOf[1], value))>>

\* The fields that later steps read.
LEMMA MadeFields ==
  ASSUME NEW c, NEW m, PlainList(m), MadeOf(c, m)
  PROVE  /\ DOMAIN c.endpoints = DOMAIN m
         /\ \A i \in DOMAIN m :
              LET e == c.endpoints[i]
              IN  /\ e.key = KeyOf[i]
                  /\ e.endpoint.path = m[i].path /\ e.endpoint.method = m[i].method
                  /\ e.endpoint.is_active
                  /\ e.endpoint.status_code = PlannedStatus(m[i])
                  /\ e.endpoint.delay_mode \in DelayModes
                  /\ e \in GeneratedEndpointConfig
         /\ \A l \in DOMAIN c.rules :
              LET g == c.rules[l]
              IN  /\ g.endpoint_key = KeyOf[1]
                  /\ g.rule.condition_type = "query" /\ g.rule.field = "status"
                  /\ g.rule.operator = "equals" /\ g.rule.value # None
                  /\ g \in GeneratedRuleConfig
         /\ c.rules \in Seq(GeneratedRuleConfig)
<1>1. DOMAIN c.endpoints = DOMAIN m
  BY DEF MadeOf
<1>2. ASSUME NEW i \in DOMAIN m
      PROVE  LET e == c.endpoints[i]
             IN  /\ e.key = KeyOf[i]
                 /\ e.endpoint.path = m[i].path /\ e.endpoint.method = m[i].method
                 /\ e.endpoint.is_active
                 /\ e.endpoint.status_code = PlannedStatus(m[i])
                 /\ e.endpoint.delay_mode \in DelayModes
                 /\ e \in GeneratedEndpointConfig
  <2> DEFINE status == PlannedStatus(m[i])
             e == c.endpoints[i]
  <2>1. /\ m[i].path \in Paths /\ m[i].method \in Methods /\ m[i].delay \in Nat
        /\ status \in Statuses /\ KeyOf[i] \in Keys /\ "fixed" \in DelayModes
    BY AgentsAssumption DEF PlainList, ValidStatus
  <2> HIDE DEF status
  <2>2. e = [key |-> KeyOf[i],
             endpoint |-> [path |-> m[i].path, method |-> m[i].method, is_active |-> TRUE,
                           status_code |-> status, echo |-> FALSE,
                           delay_ms |-> m[i].delay, delay_mode |-> "fixed"]]
    BY DEF MadeOf, EndpointConfigOf, PlannedEndpoint, status
  <2> HIDE DEF e
  <2>3. e.endpoint \in EndpointCreateRequest /\ e.key \in Keys
    BY <2>1, <2>2 DEF EndpointCreateRequest
  <2>4. e \in GeneratedEndpointConfig
    BY <2>1, <2>2 DEF GeneratedEndpointConfig, EndpointCreateRequest
  <2> QED
    BY <2>1, <2>2, <2>4 DEF e, status
<1>3. CASE c.rules = << >>
  BY <1>1, <1>2, <1>3
<1>4. ASSUME NEW value \in Values \ {None},
             c.rules = <<RuleConfigOf(PlannedRule(KeyOf[1], value))>>
      PROVE  /\ \A l \in DOMAIN c.rules :
                  LET g == c.rules[l]
                  IN  /\ g.endpoint_key = KeyOf[1]
                      /\ g.rule.condition_type = "query" /\ g.rule.field = "status"
                      /\ g.rule.operator = "equals" /\ g.rule.value # None
                      /\ g \in GeneratedRuleConfig
             /\ c.rules \in Seq(GeneratedRuleConfig)
  <2> DEFINE g == RuleConfigOf(PlannedRule(KeyOf[1], value))
  <2>1. g = [endpoint_key |-> KeyOf[1],
             rule |-> [condition_type |-> "query", field |-> "status", operator |-> "equals",
                       value |-> value, status_code |-> 409, echo |-> FALSE]]
    BY DEF RuleConfigOf, PlannedRule
  <2>2. KeyOf[1] \in Keys /\ 409 \in Statuses
    <3>1. 1 \in DOMAIN KeyOf
      BY DEF PlainList
    <3>2. 409 \in 100 .. 599
      OBVIOUS
    <3> QED
      BY <3>1, <3>2, AgentsAssumption
  <2>3. c.rules = <<g>>
    BY <1>4
  <2> HIDE DEF g
  <2>4. g \in GeneratedRuleConfig
    <3> DEFINE echo == FALSE
               rule == [condition_type |-> "query", field |-> "status", operator |-> "equals",
                        value |-> value, status_code |-> 409, echo |-> echo]
    <3>1. "query" \in STRING /\ "status" \in STRING /\ "equals" \in STRING
      BY LiteralAssumption
    <3>2. value \in Values /\ echo \in BOOLEAN
      OBVIOUS
    <3>3. g = [endpoint_key |-> KeyOf[1], rule |-> rule]
      BY <2>1
    <3> HIDE DEF echo
    <3>4. rule \in RuleCreateRequest
      BY <2>2, <3>1, <3>2 DEF RuleCreateRequest
    <3> HIDE DEF rule
    <3> QED
      BY <2>2, <3>3, <3>4 DEF GeneratedRuleConfig
  <2>5. \A l \in DOMAIN c.rules : c.rules[l] = g
    BY <2>3
  <2>6. c.rules \in Seq(GeneratedRuleConfig)
    BY <2>3, <2>4
  <2> QED
    BY <2>1, <2>4, <2>5, <2>6
<1> QED
  BY <1>1, <1>2, <1>3, <1>4 DEF MadeOf

LEMMA MadeTyped ==
  ASSUME NEW c, NEW m, PlainList(m), MadeOf(c, m)
  PROVE  TypedConfig(c) /\ KeysKnown(c)
<1>1. c.endpoints \in Seq(GeneratedEndpointConfig)
  <2>1. DOMAIN m = 1 .. Len(m) /\ Len(m) \in Nat
    BY DEF PlainList
  <2>2. c.endpoints = [i \in 1 .. Len(m) |-> c.endpoints[i]]
    BY <2>1 DEF MadeOf
  <2>3. \A i \in 1 .. Len(m) : c.endpoints[i] \in GeneratedEndpointConfig
    BY <2>1, MadeFields
  <2> QED
    BY <2>1, <2>2, <2>3, SeqDef
<1>2. 1 \in DOMAIN m
  BY DEF PlainList
<1>3. c.endpoints[1].key = KeyOf[1] /\ 1 \in DOMAIN c.endpoints
  BY <1>2, MadeFields
<1>4. KeysKnown(c)
  BY <1>3, MadeFields DEF KeysKnown, EndpointKeys
<1> QED
  BY <1>1, <1>4, MadeFields DEF TypedConfig

\* The scenario of a mention fits the mention's own endpoint.
LEMMA OverlapsItself ==
  ASSUME NEW m, PlainList(m), NEW i \in DOMAIN m
  PROVE  Overlap(m[i], m[i])
<1>1. m[i].path \in Paths /\ \A k \in DOMAIN m[i].path : Legible(m[i].path[k])
  BY DEF PlainList
<1>2. ScenarioOf(m[i]).path = SampleOf(m[i].path)
  BY DEF ScenarioOf, SampleOf
<1> QED
  BY <1>1, <1>2, SampleFits DEF Overlap

\* The critic has nothing to say: mentions with one method and path would overlap.
LEMMA MadeWithoutIssues ==
  ASSUME NEW c, NEW m, PlainList(m), MadeOf(c, m)
  PROVE  ~ HasIssues(c)
<1>1. \A i, j \in DOMAIN m :
        m[i].method = m[j].method /\ m[i].path = m[j].path => Overlap(m[i], m[j])
  BY OverlapsItself DEF Overlap
<1>2. \A i, j \in DOMAIN c.endpoints :
        SameRawSignature(c.endpoints[i], c.endpoints[j]) => i = j
  BY <1>1, MadeFields DEF SameRawSignature, PlainList
<1>3. \A i \in DOMAIN c.endpoints : c.endpoints[i].endpoint.delay_mode \in DelayModes
  BY MadeFields
<1>4. \A l \in DOMAIN c.rules : c.rules[l].rule.operator \in OPERATOR_REGISTRY
  BY MadeFields DEF OPERATOR_REGISTRY
<1>5. \A l \in DOMAIN c.rules : c.rules[l].endpoint_key \in EndpointKeys(c)
  BY MadeTyped DEF KeysKnown
<1> QED
  BY <1>2, <1>3, <1>4, <1>5 DEF HasIssues

--------------------------------------------------------------------------------
\* The sandbox run of such a configuration.

\* The scenario of mention j is routed to endpoint j.
LEMMA RoutedToOwn ==
  ASSUME NEW c, NEW m, PlainList(m), MadeOf(c, m), NEW project \in Projects,
         NEW b, Simulated(c, project, b, Rounds(c)), Mirrored(c, b, Rounds(c)),
         NEW j \in DOMAIN m
  PROVE  /\ Match(b.repo.endpoints, GetActiveEndpoints(b.repo, project),
                  m[j].method, SampleOf(m[j].path)) = j
         /\ j # NoMatch /\ j \in DOMAIN b.repo.endpoints
         /\ HasDefault(b.repo, b.repo.endpoints[j].id, PlannedStatus(m[j]))
<1> DEFINE endpoints == b.repo.endpoints
           active == GetActiveEndpoints(b.repo, project)
           path   == SampleOf(m[j].path)
           found  == Candidates(endpoints, active, m[j].method, path)
<1>1. DOMAIN c.endpoints = DOMAIN m /\ DOMAIN m = 1 .. Len(m) /\ Len(m) \in Nat
  BY MadeFields DEF PlainList
<1>2. Seen(c, Rounds(c)) = DOMAIN m
  <2>1. TypedConfig(c)
    BY MadeTyped
  <2>2. /\ Len(c.endpoints) \in Nat /\ Len(c.rules) \in Nat
        /\ DOMAIN c.endpoints = 1 .. Len(c.endpoints)
    BY <2>1, Pieces
  <2>3. \A x, y \in Nat : \A i \in 1 .. x : i <= x + y
    OBVIOUS
  <2>4. \A i \in DOMAIN c.endpoints : i <= Rounds(c)
    BY <2>2, <2>3 DEF Rounds
  <2> QED
    BY <1>1, <2>4 DEF Seen
<1>3. DOMAIN endpoints = DOMAIN m /\ endpoints \in Seq(Endpoint)
  BY <1>2 DEF Simulated, Sound, RepositoryType
<1>4. \A i \in DOMAIN m :
        /\ endpoints[i].project_id = project /\ endpoints[i].method = m[i].method
        /\ endpoints[i].path = m[i].path /\ endpoints[i].is_active
        /\ HasDefault(b.repo, endpoints[i].id, PlannedStatus(m[i]))
  BY <1>2, MadeFields DEF Simulated, Mirrored
<1>5. active = DOMAIN m
  BY <1>3, <1>4 DEF GetActiveEndpoints
<1>6. \A i \in DOMAIN m : m[i].path \in Paths
  BY DEF PlainList
<1>7. path \in Paths
  BY <1>6, SampleOfPath
<1>8. ScenarioOf(m[j]).path = path
  BY DEF ScenarioOf, SampleOf
<1> HIDE DEF endpoints, active, path
<1>9. found = {j}
  <2>1. \A i \in DOMAIN m : i \in found <=> Overlap(m[i], m[j])
    BY <1>4, <1>5, <1>8 DEF Candidates, Overlap
  <2>2. \A i \in DOMAIN m : Overlap(m[i], m[j]) <=> i = j
    BY OverlapsItself DEF PlainList
  <2> QED
    BY <1>5, <2>1, <2>2 DEF Candidates
<1> HIDE DEF found
<1>10. /\ \A i \in DOMAIN endpoints : endpoints[i].path \in Paths
       /\ active \in SUBSET Nat /\ active \subseteq DOMAIN endpoints /\ 0 \notin active
  BY <1>1, <1>3, <1>4, <1>5, <1>6
<1>11. Match(endpoints, active, m[j].method, path) = j
  BY <1>7, <1>9, <1>10, MatchIsPreferred DEF found
<1>12. j # NoMatch
  BY <1>1 DEF NoMatch
<1> QED
  BY <1>3, <1>4, <1>11, <1>12 DEF endpoints, active, path

\* No rule of the configuration asks for anything a scenario has.
LEMMA NoRuleApplies ==
  ASSUME NEW c, NEW m, PlainList(m), MadeOf(c, m), NEW b, NEW n, Mirrored(c, b, n),
         NEW id, NEW ctx, ctx.fields = << >>, NEW params
  PROVE  /\ ~ Raises(b.repo.rules, GetRules(b.repo, id), ctx, params)
         /\ RuleAction(b.repo, id, ctx, params) = NoId
<1> DEFINE rules == b.repo.rules
           mine  == GetRules(b.repo, id)
<1>1. \A k \in DOMAIN rules : /\ rules[k].condition_type = "query"
                              /\ rules[k].operator = "equals" /\ rules[k].value # None
  BY MadeFields DEF Mirrored, SameTest
<1>2. mine \subseteq DOMAIN rules
  BY DEF GetRules
<1> HIDE DEF rules, mine
<1>3. \A k \in mine : Outcome(rules[k], ctx, params) = "no"
  <2> SUFFICES ASSUME NEW k \in mine PROVE Outcome(rules[k], ctx, params) = "no"
    OBVIOUS
  <2> DEFINE rule == rules[k]
  <2>1. rule.condition_type = "query" /\ rule.operator = "equals" /\ rule.value # None
    BY <1>1, <1>2
  <2> HIDE DEF rule
  <2>2. ExtractValue(rule, ctx, params) = None
    BY <2>1 DEF ExtractValue
  <2>3. Outcome(rule, ctx, params) = Equals(None, rule.value)
    BY <2>1, <2>2 DEF Outcome, Apply
  <2>4. Equals(None, rule.value) = "no"
    BY <2>1 DEF Equals, YesNo
  <2> QED
    BY <2>3, <2>4 DEF rule
<1>4. FirstDecisive(rules, mine, ctx, params) = NoRule
  BY <1>3 DEF FirstDecisive
<1> QED
  BY <1>4 DEF Raises, RuleAction, rules, mine

\* Without a rule the default response is selected.
LEMMA DefaultSelected ==
  ASSUME NEW r, Integral(r), r \in RepositoryType,
         \A k \in DOMAIN r.responses : r.responses[k].id # NoId,
         NEW i \in DOMAIN r.endpoints, NEW status,
         HasDefault(r, r.endpoints[i].id, status)
  PROVE  Select(r, r.endpoints[i].id, NoId).status_code = status
<1> DEFINE id == r.endpoints[i].id
           own == GetResponses(r, id)
           named == {k \in own : r.responses[k].id = NoId}
           defaults == {k \in own : r.responses[k].is_default}
<1>1. named = {}
  BY DEF GetResponses
<1>2. PICK k \in DOMAIN r.responses :
        /\ r.responses[k].endpoint_id = id /\ r.responses[k].is_default
        /\ r.responses[k].status_code = status
  BY DEF HasDefault
<1>3. HasOneDefault(r, id)
  BY DEF Integral
<1>4. defaults = {k}
  BY <1>2, <1>3 DEF HasOneDefault, GetResponses
<1>5. k \in Nat
  <2>1. r.responses \in Seq(Response)
    BY DEF RepositoryType
  <2> QED
    BY <2>1, LenProperties
<1>6. LeastOf({k}) = k
  BY <1>5 DEF LeastOf
<1>7. Select(r, id, NoId) = Selected(r.responses[k].status_code, r.responses[k].echo)
  <2> HIDE DEF id
  <2>1. Select(r, id, NoId)
          = Selected(r.responses[LeastOf(defaults)].status_code,
                     r.responses[LeastOf(defaults)].echo)
    BY <1>1, <1>4 DEF Select
  <2> QED
    BY <1>4, <1>6, <2>1
<1> QED
  BY <1>2, <1>7 DEF Selected

\* Delays are of a known mode, so that none raises.
LEMMA DelayNeverRaises ==
  ASSUME NEW r, r \in RepositoryType, NEW id
  PROVE  DelayStep(r, id) # "raise"
<1> DEFINE own == {k \in DOMAIN r.delays : r.delays[k].endpoint_id = id}
           i   == CHOOSE k \in own : \A j \in own : k <= j
<1>1. r.delays \in Seq(Delay)
  BY DEF RepositoryType
<1>2. CASE own = {}
  <2>1. GetDelay(r, id) = NoDelay
    BY <1>2 DEF GetDelay
  <2> QED
    BY <2>1 DEF DelayStep
<1>3. CASE own # {}
  <2>1. own \in SUBSET Nat
    BY <1>1, LenProperties
  <2>2. \E k \in own : \A j \in own : k <= j
    <3> HIDE DEF own
    <3> QED
      BY <1>3, <2>1, LeastExists
  <2>3. i \in own
    BY <2>2
  <2>4. i \in DOMAIN r.delays
    BY <2>3
  <2>5. r.delays[i] \in Delay
    <3> HIDE DEF i
    <3> QED
      BY <1>1, <2>4, Elements
  <2>6. r.delays[i].mode \in DelayModes
    <3> HIDE DEF i
    <3> QED
      BY <2>5 DEF Delay
  <2>7. GetDelay(r, id) = i
    BY <1>3 DEF GetDelay
  <2> HIDE DEF i
  <2> QED
    BY <2>6, <2>7 DEF DelayStep
<1> QED
  BY <1>2, <1>3

\* What the scenario of mention j is answered with.
LEMMA ScenarioAnswered ==
  ASSUME NEW c, NEW m, PlainList(m), MadeOf(c, m), NEW project \in Projects,
         NEW b, Simulated(c, project, b, Rounds(c)), Mirrored(c, b, Rounds(c)),
         NEW j \in DOMAIN m
  PROVE  LET answer == Answer(b.repo, project, c.scenarios[j])
         IN  /\ answer.step # "raise"
             /\ answer.selected.status_code = PlannedStatus(m[j])
<1> DEFINE r == b.repo
           scenario == ScenarioOf(m[j])
           ctx == ScenarioContext(scenario)
           e == r.endpoints[j]
           status == PlannedStatus(m[j])
           params == PathParams(SplitPath(e.path), SplitPath(ctx.path))
           chosen == Select(r, e.id, NoId)
           delay  == DelayStep(r, e.id)
           step   == IF delay = "none" THEN "render" ELSE delay
<1>1. c.scenarios[j] = scenario
  BY DEF MadeOf
<1>2. ctx.method = m[j].method /\ ctx.path = SampleOf(m[j].path) /\ ctx.fields = << >>
  BY DEF ScenarioContext, ScenarioOf, SampleOf
<1>3. /\ r \in RepositoryType /\ Integral(r)
      /\ \A k \in DOMAIN r.responses : r.responses[k].id # NoId
  BY DEF Simulated, Sound
<1>4. /\ Match(r.endpoints, GetActiveEndpoints(r, project), m[j].method, SampleOf(m[j].path)) = j
      /\ j # NoMatch /\ j \in DOMAIN r.endpoints
      /\ HasDefault(r, e.id, status)
  BY RoutedToOwn
<1> HIDE DEF ctx, scenario
<1>5. ~ Raises(r.rules, GetRules(r, e.id), ctx, params) /\ RuleAction(r, e.id, ctx, params) = NoId
  BY <1>2, NoRuleApplies
<1>6. chosen.status_code = status
  <2> HIDE DEF r, status
  <2> QED
    BY <1>3, <1>4, DefaultSelected
<1>7. step # "raise"
  <2> HIDE DEF r
  <2> QED
    BY <1>3, DelayNeverRaises
<1>8. Answer(r, project, scenario) = ResolveMatched(r, e, ctx)
  BY <1>2, <1>4 DEF Answer, Resolve, ctx
<1>9. ResolveMatched(r, e, ctx) = Resolution(step, e.id, chosen)
  BY <1>5 DEF ResolveMatched
<1> HIDE DEF step, chosen, e, r, status
<1>10. /\ Answer(r, project, scenario).step # "raise"
       /\ Answer(r, project, scenario).selected.status_code = status
  BY <1>6, <1>7, <1>8, <1>9, ResolutionFields
<1> QED
  BY <1>1, <1>10 DEF r, status

LEMMA MadePasses ==
  ASSUME NEW c, NEW m, PlainList(m), MadeOf(c, m), NEW project \in Projects
  PROVE  SandboxResult(project, c) = "passed"
<1>1. TypedConfig(c) /\ KeysKnown(c)
  BY MadeTyped
<1>2. PICK b : /\ b.repo = SandboxRepository(project, c)
               /\ Simulated(c, project, b, Rounds(c))
               /\ Mirrored(c, b, Rounds(c))
  BY <1>1, SandboxHolds
<1>3. /\ DOMAIN c.scenarios = DOMAIN m
      /\ \A j \in DOMAIN m : /\ c.scenarios[j].expected_status_code = PlannedStatus(m[j])
                             /\ c.scenarios[j].fragments_in = 100 .. 599
  BY DEF MadeOf, ScenarioOf
<1>4. ASSUME NEW j \in DOMAIN m
      PROVE  /\ Answer(b.repo, project, c.scenarios[j]).step # "raise"
             /\ CasePassed(b.repo, project, c.scenarios[j])
  <2>1. /\ Answer(b.repo, project, c.scenarios[j]).step # "raise"
        /\ Answer(b.repo, project, c.scenarios[j]).selected.status_code = PlannedStatus(m[j])
    BY <1>2, ScenarioAnswered
  <2>2. PlannedStatus(m[j]) \in 100 .. 599
    BY DEF PlainList, ValidStatus
  <2> QED
    BY <1>3, <2>1, <2>2 DEF CasePassed
<1> QED
  BY <1>1, <1>2, <1>3, <1>4 DEF SandboxResult, KeysKnown

--------------------------------------------------------------------------------
\* The texts of the state machine.

TextTyped ==
  /\ text.mentions \in Seq(Mentions)
  /\ Len(text.mentions) <= MaxMentions
  /\ text.query \in Queries

LEMMA TextTypedInit == Init => TextTyped
<1> SUFFICES ASSUME Init
             PROVE  TextTyped
  OBVIOUS
<1>1. PICK query \in Queries : text = Text(<< >>, query)
  BY DEF Init
<1>2. text.mentions = << >> /\ text.query = query
  BY <1>1 DEF Text
<1>3. << >> \in Seq(Mentions) /\ Len(<< >>) = 0
  OBVIOUS
<1>4. 0 <= MaxMentions
  BY TextsAssumption
<1> QED
  BY <1>2, <1>3, <1>4 DEF TextTyped

LEMMA TextTypedStep == TextTyped /\ [Next]_text => TextTyped'
<1> SUFFICES ASSUME TextTyped, [Next]_text
             PROVE  TextTyped'
  OBVIOUS
<1>1. ASSUME NEW mention \in Mentions, Mentioned(mention)
      PROVE  TextTyped'
  <2>1. /\ text'.mentions = Append(text.mentions, mention) /\ text'.query = text.query
        /\ Len(text.mentions) < MaxMentions
    BY <1>1 DEF Mentioned, Text
  <2>2. /\ Append(text.mentions, mention) \in Seq(Mentions)
        /\ Len(Append(text.mentions, mention)) = Len(text.mentions) + 1
        /\ Len(text.mentions) \in Nat
    BY AppendProperties, LenProperties DEF TextTyped
  <2>3. Len(text.mentions) + 1 <= MaxMentions
    BY <2>1, <2>2, TextsAssumption
  <2> QED
    BY <2>1, <2>2, <2>3 DEF TextTyped
<1>2. CASE UNCHANGED text
  BY <1>2 DEF TextTyped
<1> QED
  BY <1>1, <1>2 DEF Next

THEOREM TextTypedHolds == Spec => []TextTyped
BY TextTypedInit, TextTypedStep, PTL DEF Spec

\* The health endpoint, which stands for a text without mentions, is plain.
LEMMA HealthPlain == PlainList(<<HealthMention>>)
<1> DEFINE m == <<HealthMention>>
<1>1. /\ HealthMention.path = <<"generated-health">> /\ HealthMention.method = "GET"
      /\ HealthMention.delay = 0 /\ HealthMention.status = Unstated
  BY DEF HealthMention
<1>2. <<"generated-health">> \in Paths
  BY AgentsAssumption DEF Paths
<1>3. \A k \in DOMAIN HealthMention.path : Legible(HealthMention.path[k])
  BY <1>1, HealthAssumption
<1>4. PlannedStatus(HealthMention) = 200
  BY <1>1 DEF PlannedStatus
<1> HIDE DEF HealthMention
<1>5. Len(m) = 1 /\ DOMAIN m = {1} /\ m[1] = HealthMention /\ 1 .. 1 = {1}
  OBVIOUS
<1>6. DOMAIN m \subseteq DOMAIN KeyOf
  BY <1>5, TextsAssumption
<1> HIDE DEF m
<1>7. ValidStatus(200)
  BY DEF ValidStatus
<1>8. PlainList(m)
  BY <1>1, <1>2, <1>3, <1>4, <1>5, <1>6, <1>7, AgentsAssumption DEF PlainList
<1> QED
  BY <1>8 DEF m

LEMMA PlainPlanned ==
  ASSUME TextTyped, Plain
  PROVE  PlainList(PlannedMentions(text))
<1> DEFINE m == text.mentions
<1>1. CASE m = << >>
  BY <1>1, HealthPlain DEF PlannedMentions
<1>2. CASE m # << >>
  <2>1. m \in Seq(Mentions) /\ Len(m) <= MaxMentions
    BY DEF TextTyped
  <2>2. Len(m) \in Nat \ {0} /\ DOMAIN m = 1 .. Len(m)
    BY <1>2, <2>1, EmptySeq, LenProperties
  <2>3. DOMAIN m \subseteq DOMAIN KeyOf
    <3>1. DOMAIN m \subseteq 1 .. MaxMentions
      BY <2>1, <2>2, TextsAssumption
    <3> QED
      BY <3>1, TextsAssumption
  <2>4. \A i \in DOMAIN m : m[i] \in Mentions
    BY <2>1, Elements
  <2>5. PlainList(m)
    BY <2>2, <2>3, <2>4, TextsAssumption DEF PlainList, Plain
  <2> QED
    BY <1>2, <2>5 DEF PlannedMentions
<1> QED
  BY <1>1, <1>2

\* Nothing raises on the way from a plain text to its configuration.
LEMMA PlainMade ==
  ASSUME TextTyped, Plain
  PROVE  /\ ~ PlanRaises(text)
         /\ Convertible(FallbackPlanOf(text))
         /\ MadeOf(FallbackCodegen(FallbackPlanOf(text)), PlannedMentions(text))
<1> DEFINE m == PlannedMentions(text)
           ruled == text.mentions # << >> /\ text.query # None
           rule  == PlannedRule(KeyOf[1], text.query)
           plan  == FallbackPlanOf(text)
           c     == FallbackCodegen(plan)
<1>1. PlainList(m)
  BY PlainPlanned
<1>2. ~ PlanRaises(text)
  BY <1>1 DEF PlanRaises, PlainList
<1>3. /\ plan.endpoints = [i \in DOMAIN m |-> PlannedEndpoint(KeyOf[i], m[i])]
      /\ plan.rules = IF ruled THEN <<rule>> ELSE << >>
      /\ plan.scenarios = [i \in DOMAIN m |-> ScenarioOf(m[i])]
  BY DEF FallbackPlanOf
<1>4. text.query \in Values
  BY TextsAssumption DEF TextTyped
<1>5. rule.condition_type = "query" /\ rule.operator = "equals"
  BY DEF PlannedRule
<1> HIDE DEF plan, m, rule
<1>6. Convertible(plan)
  <2>1. \A i \in DOMAIN plan.endpoints : /\ plan.endpoints[i].method \in Methods
                                         /\ plan.endpoints[i].delay_mode \in DelayModes
    <3> SUFFICES ASSUME NEW i \in DOMAIN m
                 PROVE  /\ plan.endpoints[i].method \in Methods
                        /\ plan.endpoints[i].delay_mode \in DelayModes
      BY <1>3
    <3>1. plan.endpoints[i] = PlannedEndpoint(KeyOf[i], m[i])
      BY <1>3
    <3>2. /\ PlannedEndpoint(KeyOf[i], m[i]).method = m[i].method
          /\ PlannedEndpoint(KeyOf[i], m[i]).delay_mode = "fixed"
      BY DEF PlannedEndpoint
    <3>3. m[i].method \in Methods
      BY <1>1 DEF PlainList
    <3> QED
      BY <3>1, <3>2, <3>3, AgentsAssumption
  <2>2. \A i \in DOMAIN plan.rules : plan.rules[i] = rule
    BY <1>3
  <2> QED
    BY <1>5, <2>1, <2>2 DEF Convertible, ConditionTypes, OPERATOR_REGISTRY
<1>7. MadeOf(c, m)
  <2>1. c.endpoints = [i \in DOMAIN plan.endpoints |-> EndpointConfigOf(plan.endpoints[i])]
    BY DEF FallbackCodegen
  <2>2. c.rules = [i \in DOMAIN plan.rules |-> RuleConfigOf(plan.rules[i])]
    BY DEF FallbackCodegen
  <2>3. c.scenarios = plan.scenarios
    BY DEF FallbackCodegen
  <2> HIDE DEF c
  <2>4. c.endpoints = [i \in DOMAIN m |-> EndpointConfigOf(PlannedEndpoint(KeyOf[i], m[i]))]
    BY <1>3, <2>1
  <2>5. \/ c.rules = << >>
        \/ \E value \in Values \ {None} :
             c.rules = <<RuleConfigOf(PlannedRule(KeyOf[1], value))>>
    <3>1. CASE ruled
      <4>1. c.rules = <<RuleConfigOf(rule)>>
        BY <1>3, <2>2, <3>1
      <4> QED
        BY <1>4, <3>1, <4>1 DEF rule
    <3>2. CASE ~ ruled
      BY <1>3, <2>2, <3>2
    <3> QED
      BY <3>1, <3>2
  <2> QED
    BY <1>3, <2>3, <2>4, <2>5 DEF MadeOf
<1> QED
  BY <1>2, <1>6, <1>7 DEF plan, m

\* Without an LLM the workflow makes a configuration that critic and sandbox pass, of
\* every text in range whose mentions are legible and do not overlap.
THEOREM FallbackUsableHolds == Spec => []FallbackUsable
<1>1. ASSUME TextTyped
      PROVE  FallbackUsable
  <2> SUFFICES ASSUME Plain
               PROVE  OfflineResult(Project, text) = "passed"
    BY DEF FallbackUsable
  <2> DEFINE m == PlannedMentions(text)
             c == FallbackCodegen(FallbackPlanOf(text))
  <2>1. PlainList(m) /\ MadeOf(c, m)
    BY <1>1, PlainPlanned, PlainMade
  <2>2. ~ PlanRaises(text) /\ Convertible(FallbackPlanOf(text))
    BY <1>1, PlainMade
  <2> HIDE DEF m, c
  <2>3. ~ HasIssues(c) /\ SandboxResult(Project, c) = "passed"
    BY <2>1, TextsAssumption, MadeWithoutIssues, MadePasses
  <2> QED
    BY <2>2, <2>3 DEF OfflineResult, c
<1> QED
  BY <1>1, TextTypedHolds, PTL
================================================================================
