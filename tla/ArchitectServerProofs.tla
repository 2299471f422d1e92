-------------------------- MODULE ArchitectServerProofs --------------------------
(***************************************************************************)
(* The process with its architect routes, for all tasks, results and       *)
(* instances of MockServer: the properties of the runtime hold over        *)
(* commits, and a commit does what it says, and to nothing else.           *)
(***************************************************************************)
EXTENDS ArchitectServer, MockServerProofs

\* The signatures of the endpoints the first loop is past are taken.
EndpointsTaken ==
  \A i \in DOMAIN commit.config.endpoints :
    i < commit.endpoint => LET e == commit.config.endpoints[i].endpoint
             IN  \E j \in DOMAIN repo.endpoints :
                   SameSignature(repo.endpoints[j], commit.project_id, e.method, e.path)

\* Of the rules the second loop is past those are there whose endpoint was created.
RulesCreated ==
  \A i \in DOMAIN commit.config.rules :
    LET r == commit.config.rules[i]
    IN  i < commit.rule /\ r.endpoint_key \in DOMAIN commit.ids =>
          \E new \in NewRules :
            /\ new.endpoint_id = commit.ids[r.endpoint_key]
            /\ new.operator = r.rule.operator /\ new.value = r.rule.value

\* endpoint_id_by_key holds endpoints this commit has created.
IdsAreNew ==
  \A key \in DOMAIN commit.ids : \E e \in NewEndpoints : e.id = commit.ids[key]

\* The locals of a commit that is under way.
CommitLocals ==
  /\ commit.config \in Results
  /\ commit.project_id \in Projects
  /\ commit.endpoint \in Nat \ {0} /\ commit.rule \in Nat \ {0}
  /\ commit.endpoint <= Len(commit.config.endpoints) => commit.rule = 1
  /\ commit.sizes.endpoints \in Nat /\ commit.sizes.endpoints <= Len(repo.endpoints)
  /\ commit.sizes.rules \in Nat /\ commit.sizes.rules <= Len(repo.rules)

CommitInv ==
  /\ result \in [Tasks -> Results \cup {NoResult}]
  /\ commit.open =>
       /\ CommitLocals
       /\ IdsAreNew
       /\ CommitTouchesOwn
       /\ EndpointsTaken
       /\ RulesCreated

--------------------------------------------------------------------------------
\* The rounds of the loops.

LEMMA ResultTyped ==
  ASSUME NEW config \in Results
  PROVE  /\ config.endpoints \in Seq(GeneratedEndpointConfig)
         /\ config.rules \in Seq(GeneratedRuleConfig)
         /\ \A i \in DOMAIN config.endpoints :
              config.endpoints[i].endpoint \in EndpointCreateRequest
         /\ \A i \in DOMAIN config.rules :
              config.rules[i].rule \in RuleCreateRequest
<1>1. /\ config.endpoints \in Seq(GeneratedEndpointConfig)
      /\ config.rules \in Seq(GeneratedRuleConfig)
  BY ResultAssumption
<1>2. /\ \A i \in DOMAIN config.endpoints : config.endpoints[i] \in GeneratedEndpointConfig
      /\ \A i \in DOMAIN config.rules : config.rules[i] \in GeneratedRuleConfig
  BY <1>1, Elements
<1> QED
  BY <1>1, <1>2 DEF GeneratedEndpointConfig, GeneratedRuleConfig

\* What is new in a list after a record was put at its end.
LEMMA SinceAppend ==
  ASSUME NEW S, NEW s \in Seq(S), NEW e, NEW n \in Nat, n <= Len(s)
  PROVE  /\ Since(Append(s, e), n) = Since(s, n) \cup {e}
         /\ Len(Append(s, e)) = Len(s) + 1
<1>1. /\ Len(s) \in Nat /\ Len(Append(s, e)) = Len(s) + 1
      /\ \A i \in 1 .. Len(s) : Append(s, e)[i] = s[i]
      /\ Append(s, e)[Len(s) + 1] = e
  BY AppendProperties, LenProperties
<1>2. ASSUME NEW x \in Since(Append(s, e), n)
      PROVE  x \in Since(s, n) \cup {e}
  BY <1>1, <1>2 DEF Since
<1>3. ASSUME NEW x \in Since(s, n)
      PROVE  x \in Since(Append(s, e), n)
  BY <1>1, <1>3 DEF Since
<1>4. e \in Since(Append(s, e), n)
  BY <1>1 DEF Since
<1> QED
  BY <1>1, <1>2, <1>3, <1>4

LEMMA NothingSince ==
  ASSUME NEW S, NEW s \in Seq(S)
  PROVE  Since(s, Len(s)) = {}
<1>1. Len(s) \in Nat
  BY LenProperties
<1> QED
  BY <1>1 DEF Since

\* A round of the first loop finds the signature taken, or creates the endpoint
\* and enters its identifier.
LEMMA EndpointRound ==
  ASSUME CommitInv, CommitNextEndpoint
  PROVE  LET e == commit.config.endpoints[commit.endpoint].endpoint
         IN  /\ CommitLocals
             /\ commit.endpoint \in DOMAIN commit.config.endpoints
             /\ e \in EndpointCreateRequest
             /\ \E ids :
                  /\ commit' = CommitCall(commit.config, commit.project_id, ids,
                                          commit.endpoint + 1, commit.rule, commit.sizes)
                  /\ \/ /\ EndpointSignatureExists(repo, commit.project_id, e.method, e.path)
                        /\ repo' = repo /\ fresh' = fresh /\ ids = commit.ids
                     \/ /\ ~ EndpointSignatureExists(repo, commit.project_id, e.method, e.path)
                        /\ repo' = CreateEndpoint(repo, commit.project_id, e, fresh, fresh + 1)
                        /\ fresh' = fresh + 2
                        /\ \E key : ids = WithId(commit.ids, key, fresh)
             /\ UNCHANGED <<request_logs, call, clock, restarts, seen, result>>
<1> DEFINE g == commit.config.endpoints[commit.endpoint]
           b == CommitEndpoint(Build(repo, fresh, commit.ids), commit.project_id, g)
<1>1. CommitLocals /\ ~ EndpointsDone
  BY DEF CommitInv, CommitNextEndpoint
<1>2. Builds(b, commit.endpoint + 1, commit.rule)
  BY DEF CommitNextEndpoint
<1>3. commit.endpoint \in DOMAIN commit.config.endpoints
  <2>1. commit.config.endpoints \in Seq(GeneratedEndpointConfig)
    BY <1>1, ResultTyped DEF CommitLocals
  <2>2. /\ DOMAIN commit.config.endpoints = 1 .. Len(commit.config.endpoints)
        /\ Len(commit.config.endpoints) \in Nat
    BY <2>1, LenProperties
  <2> QED
    BY <1>1, <2>2 DEF CommitLocals, EndpointsDone
<1>4. g.endpoint \in EndpointCreateRequest
  BY <1>1, <1>3, ResultTyped DEF CommitLocals
<1>5. commit' = CommitCall(commit.config, commit.project_id, b.ids,
                           commit.endpoint + 1, commit.rule, commit.sizes)
  <2> HIDE DEF b
  <2> QED
    BY <1>2 DEF Builds
<1>6. /\ repo' = b.repo /\ fresh' = b.fresh
      /\ UNCHANGED <<request_logs, call, clock, restarts, seen, result>>
  <2> HIDE DEF b
  <2> QED
    BY <1>2 DEF Builds
<1> HIDE DEF g
<1>7. CASE EndpointSignatureExists(repo, commit.project_id, g.endpoint.method, g.endpoint.path)
  <2>1. b = Build(repo, fresh, commit.ids)
    BY <1>7 DEF CommitEndpoint, Build
  <2>2. b.repo = repo /\ b.fresh = fresh /\ b.ids = commit.ids
    BY <2>1 DEF Build
  <2> HIDE DEF b
  <2> QED
    BY <1>1, <1>3, <1>4, <1>5, <1>6, <1>7, <2>2 DEF g
<1>8. CASE ~ EndpointSignatureExists(repo, commit.project_id, g.endpoint.method, g.endpoint.path)
  <2>1. b = AddEndpoint(Build(repo, fresh, commit.ids), commit.project_id, g)
    BY <1>8 DEF CommitEndpoint, Build
  <2>2. /\ b.repo = CreateEndpoint(repo, commit.project_id, g.endpoint, fresh, fresh + 1)
        /\ b.fresh = fresh + 2
        /\ b.ids = WithId(commit.ids, g.key, fresh)
    <3> HIDE DEF b
    <3> QED
      BY <2>1 DEF AddEndpoint, Build
  <2> HIDE DEF b
  <2> QED
    BY <1>1, <1>3, <1>4, <1>5, <1>6, <1>8, <2>2 DEF g
<1> QED
  BY <1>7, <1>8

\* A round of the second loop creates the rule for the endpoint its key stands
\* for, or leaves it out.
LEMMA RuleRound ==
  ASSUME CommitInv, CommitNextRule
  PROVE  LET g == commit.config.rules[commit.rule]
         IN  /\ CommitLocals /\ EndpointsDone
             /\ commit.rule \in DOMAIN commit.config.rules
             /\ g.rule \in RuleCreateRequest
             /\ commit' = CommitCall(commit.config, commit.project_id, commit.ids,
                                     commit.endpoint, commit.rule + 1, commit.sizes)
             /\ \/ /\ g.endpoint_key \in DOMAIN commit.ids
                   /\ repo' = CreateRule(repo, commit.ids[g.endpoint_key], g.rule, fresh)
                   /\ fresh' = fresh + 1
                \/ /\ g.endpoint_key \notin DOMAIN commit.ids
                   /\ repo' = repo /\ fresh' = fresh
             /\ UNCHANGED <<request_logs, call, clock, restarts, seen, result>>
<1> DEFINE g == commit.config.rules[commit.rule]
           b == CommitRule(Build(repo, fresh, commit.ids), g)
<1>1. CommitLocals /\ EndpointsDone /\ ~ RulesDone
  BY DEF CommitInv, CommitNextRule
<1>2. Builds(b, commit.endpoint, commit.rule + 1)
  BY DEF CommitNextRule
<1>3. commit.rule \in DOMAIN commit.config.rules
  <2>1. commit.config.rules \in Seq(GeneratedRuleConfig)
    BY <1>1, ResultTyped DEF CommitLocals
  <2>2. /\ DOMAIN commit.config.rules = 1 .. Len(commit.config.rules)
        /\ Len(commit.config.rules) \in Nat
    BY <2>1, LenProperties
  <2> QED
    BY <1>1, <2>2 DEF CommitLocals, RulesDone
<1>4. g.rule \in RuleCreateRequest
  BY <1>1, <1>3, ResultTyped DEF CommitLocals
<1>5. commit' = CommitCall(commit.config, commit.project_id, b.ids,
                           commit.endpoint, commit.rule + 1, commit.sizes)
  <2> HIDE DEF b
  <2> QED
    BY <1>2 DEF Builds
<1>6. /\ repo' = b.repo /\ fresh' = b.fresh
      /\ UNCHANGED <<request_logs, call, clock, restarts, seen, result>>
  <2> HIDE DEF b
  <2> QED
    BY <1>2 DEF Builds
<1> HIDE DEF g
<1>7. CASE g.endpoint_key \in DOMAIN commit.ids
  <2>1. b = AddRule(Build(repo, fresh, commit.ids), g)
    BY <1>7 DEF CommitRule, Build
  <2>2. /\ b.repo = CreateRule(repo, commit.ids[g.endpoint_key], g.rule, fresh)
        /\ b.fresh = fresh + 1 /\ b.ids = commit.ids
    <3> HIDE DEF b
    <3> QED
      BY <2>1 DEF AddRule, Build
  <2> HIDE DEF b
  <2> QED
    BY <1>1, <1>3, <1>4, <1>5, <1>6, <1>7, <2>2 DEF g
<1>8. CASE g.endpoint_key \notin DOMAIN commit.ids
  <2>1. b = Build(repo, fresh, commit.ids)
    BY <1>8 DEF CommitRule, Build
  <2>2. b.repo = repo /\ b.fresh = fresh /\ b.ids = commit.ids
    BY <2>1 DEF Build
  <2> HIDE DEF b
  <2> QED
    BY <1>1, <1>3, <1>4, <1>5, <1>6, <1>8, <2>2 DEF g
<1> QED
  BY <1>7, <1>8

\* What the process does is a step of the runtime, a stutter of it, or a round of
\* commit.
LEMMA StepKinds ==
  [ProcessNext]_process_vars => [Next]_vars \/ CommitNextEndpoint \/ CommitNextRule
BY DEF ProcessNext, process_vars, FreeStep, Succeed, StartCommit, ReturnCommit,
       RestartProcess, Next, vars

\* What endpoint_id_by_key holds exists in the project of the commit.
LEMMA IdsExist ==
  ASSUME CommitLocals, IdsAreNew, CommitTouchesOwn, commit.open,
         repo.endpoints \in Seq(Endpoint), NEW key \in DOMAIN commit.ids
  PROVE  EndpointExists(repo, commit.project_id, commit.ids[key])
<1>1. PICK e \in NewEndpoints : e.id = commit.ids[key]
  BY DEF IdsAreNew
<1>2. e.project_id = commit.project_id
  BY DEF CommitTouchesOwn
<1>3. PICK i \in commit.sizes.endpoints + 1 .. Len(repo.endpoints) : e = repo.endpoints[i]
  BY DEF NewEndpoints, Since
<1>4. i \in DOMAIN repo.endpoints
  <2>1. DOMAIN repo.endpoints = 1 .. Len(repo.endpoints) /\ Len(repo.endpoints) \in Nat
    BY LenProperties
  <2> QED
    BY <2>1 DEF CommitLocals
<1> QED
  BY <1>1, <1>2, <1>3, <1>4 DEF EndpointExists

LEMMA ProcessConfigInvStep ==
  ConfigInv /\ CommitInv /\ [ProcessNext]_process_vars => ConfigInv'
<1> SUFFICES ASSUME ConfigInv, CommitInv, [ProcessNext]_process_vars
             PROVE  ConfigInv'
  OBVIOUS
<1>0. /\ fresh \in Nat /\ SeedIds <= fresh /\ SeedIds \in Nat
      /\ Sound(repo, fresh) /\ UniqueSignatures(repo)
  BY SeedSound DEF ConfigInv
<1>1. CASE [Next]_vars
  BY <1>1, ConfigInvStep
<1>2. CASE CommitNextEndpoint
  <2> DEFINE e == commit.config.endpoints[commit.endpoint].endpoint
             p == commit.project_id
  <2>1. /\ e \in EndpointCreateRequest /\ p \in Projects
        /\ \/ repo' = repo /\ fresh' = fresh
           \/ /\ ~ EndpointSignatureExists(repo, p, e.method, e.path)
              /\ repo' = CreateEndpoint(repo, p, e, fresh, fresh + 1)
              /\ fresh' = fresh + 2
    BY <1>2, EndpointRound DEF CommitLocals
  <2> HIDE DEF e, p
  <2>2. CASE repo' = repo /\ fresh' = fresh
    BY <1>0, <2>2 DEF ConfigInv
  <2>3. CASE /\ ~ EndpointSignatureExists(repo, p, e.method, e.path)
             /\ repo' = CreateEndpoint(repo, p, e, fresh, fresh + 1)
             /\ fresh' = fresh + 2
    <3>1. Sound(repo', fresh')
      BY <1>0, <2>1, <2>3, CreateEndpointSound
    <3>2. UniqueSignatures(repo')
      BY <1>0, <2>3, SignaturesStayUnique DEF Sound, RepositoryType
    <3> QED
      BY <1>0, <2>3, <3>1, <3>2 DEF ConfigInv
  <2> QED
    BY <2>1, <2>2, <2>3
<1>3. CASE CommitNextRule
  <2> DEFINE g == commit.config.rules[commit.rule]
  <2>1. /\ commit.open /\ CommitLocals /\ IdsAreNew /\ CommitTouchesOwn
        /\ g.rule \in RuleCreateRequest
        /\ \/ repo' = repo /\ fresh' = fresh
           \/ /\ g.endpoint_key \in DOMAIN commit.ids
              /\ repo' = CreateRule(repo, commit.ids[g.endpoint_key], g.rule, fresh)
              /\ fresh' = fresh + 1
    BY <1>3, RuleRound DEF CommitInv, CommitNextRule
  <2> HIDE DEF g
  <2>2. CASE repo' = repo /\ fresh' = fresh
    BY <1>0, <2>2 DEF ConfigInv
  <2>3. CASE /\ g.endpoint_key \in DOMAIN commit.ids
             /\ repo' = CreateRule(repo, commit.ids[g.endpoint_key], g.rule, fresh)
             /\ fresh' = fresh + 1
    <3>1. EndpointExists(repo, commit.project_id, commit.ids[g.endpoint_key])
      BY <1>0, <2>1, <2>3, IdsExist DEF Sound, RepositoryType
    <3>2. Sound(repo', fresh')
      BY <1>0, <2>1, <2>3, <3>1, CreateRuleSound
    <3>3. UniqueSignatures(repo')
      BY <1>0, <2>3 DEF CreateRule, UniqueSignatures
    <3> QED
      BY <1>0, <2>3, <3>2, <3>3 DEF ConfigInv
  <2> QED
    BY <2>1, <2>2, <2>3
<1> QED
  BY <1>1, <1>2, <1>3, StepKinds

--------------------------------------------------------------------------------
\* What a commit has done so far.

LEMMA CommitInvStep ==
  ConfigInv /\ CommitInv /\ [ProcessNext]_process_vars => CommitInv'
<1> SUFFICES ASSUME ConfigInv, CommitInv, [ProcessNext]_process_vars
             PROVE  CommitInv'
  OBVIOUS
<1>0. /\ repo.endpoints \in Seq(Endpoint) /\ repo.rules \in Seq(Rule)
      /\ Len(repo.endpoints) \in Nat /\ Len(repo.rules) \in Nat
      /\ result \in [Tasks -> Results \cup {NoResult}]
  BY LenProperties DEF ConfigInv, Sound, RepositoryType, CommitInv
<1>1. ASSUME result' \in [Tasks -> Results \cup {NoResult}], ~ commit'.open
      PROVE  CommitInv'
  BY <1>1 DEF CommitInv
<1>2. CASE Step /\ UNCHANGED architect_vars /\ ~ commit.open
  BY <1>0, <1>1, <1>2 DEF architect_vars
<1>3. ASSUME NEW t \in Tasks, NEW config \in Results, Succeed(t, config), ~ commit.open
      PROVE  CommitInv'
  BY <1>0, <1>1, <1>3 DEF Succeed
<1>4. ASSUME NEW t \in Tasks, NEW project \in Projects, StartCommit(t, project)
      PROVE  CommitInv'
  <2>1. /\ commit' = CommitCall(result[t], project, << >>, 1, 1, SizesOf(repo))
        /\ result[t] \in Results /\ UNCHANGED <<vars, result>>
    BY <1>0, <1>4 DEF StartCommit
  <2>2. /\ commit'.config = result[t] /\ commit'.project_id = project
        /\ commit'.ids = << >> /\ commit'.endpoint = 1 /\ commit'.rule = 1
        /\ commit'.sizes = SizesOf(repo)
    BY <2>1 DEF CommitCall
  <2>3. repo' = repo
    BY <2>1 DEF vars
  <2>4. /\ commit'.sizes.endpoints = Len(repo.endpoints)
        /\ commit'.sizes.rules = Len(repo.rules)
    BY <2>2 DEF SizesOf
  <2>5. CommitLocals'
    BY <1>0, <2>1, <2>2, <2>3, <2>4 DEF CommitLocals
  <2>6. IdsAreNew'
    BY <2>2 DEF IdsAreNew
  <2>7. CommitTouchesOwn'
    BY <1>0, <2>3, <2>4, NothingSince DEF CommitTouchesOwn, NewEndpoints, NewRules
  <2>8. /\ result[t].endpoints \in Seq(GeneratedEndpointConfig)
        /\ result[t].rules \in Seq(GeneratedRuleConfig)
    BY <2>1, ResultTyped
  <2>9. /\ \A i \in DOMAIN result[t].endpoints : ~ (i < 1)
        /\ \A i \in DOMAIN result[t].rules : ~ (i < 1)
    BY <2>8, LenProperties
  <2>10. EndpointsTaken' /\ RulesCreated'
    BY <2>2, <2>9 DEF EndpointsTaken, RulesCreated
  <2> QED
    BY <1>0, <2>1, <2>2, <2>5, <2>6, <2>7, <2>10 DEF CommitInv
<1>5. CASE CommitNextEndpoint
  <2> DEFINE e == commit.config.endpoints[commit.endpoint].endpoint
             p == commit.project_id
             n == commit.endpoint
  <2>1. /\ CommitLocals /\ IdsAreNew /\ CommitTouchesOwn /\ EndpointsTaken
        /\ ~ EndpointsDone
    BY <1>5 DEF CommitInv, CommitNextEndpoint
  <2>2. PICK ids :
          /\ commit' = CommitCall(commit.config, p, ids, n + 1, commit.rule, commit.sizes)
          /\ \/ /\ EndpointSignatureExists(repo, p, e.method, e.path)
                /\ repo' = repo /\ ids = commit.ids
             \/ /\ repo' = CreateEndpoint(repo, p, e, fresh, fresh + 1)
                /\ \E key : ids = WithId(commit.ids, key, fresh)
          /\ n \in DOMAIN commit.config.endpoints
          /\ result' = result
    BY <1>5, EndpointRound
  <2>3. /\ commit'.config = commit.config /\ commit'.project_id = p
        /\ commit'.ids = ids /\ commit'.endpoint = n + 1 /\ commit'.rule = commit.rule
        /\ commit'.sizes = commit.sizes /\ commit'.open = TRUE
    BY <2>2 DEF CommitCall
  <2>4. /\ n \in Nat /\ n <= Len(commit.config.endpoints) /\ commit.rule = 1
        /\ Len(commit.config.endpoints) \in Nat
    <3>1. commit.config.endpoints \in Seq(GeneratedEndpointConfig)
      BY <2>1, ResultTyped DEF CommitLocals
    <3>2. /\ Len(commit.config.endpoints) \in Nat
          /\ DOMAIN commit.config.endpoints = 1 .. Len(commit.config.endpoints)
      BY <3>1, LenProperties
    <3> QED
      BY <2>1, <2>2, <3>2 DEF CommitLocals
  <2>5. RulesCreated'
    <3>1. commit.config.rules \in Seq(GeneratedRuleConfig)
      BY <2>1, ResultTyped DEF CommitLocals
    <3>2. \A i \in DOMAIN commit.config.rules : ~ (i < 1)
      BY <3>1, LenProperties
    <3> QED
      BY <2>3, <2>4, <3>2 DEF RulesCreated
  <2>6. ASSUME Len(repo'.endpoints) \in Nat, Len(repo.endpoints) <= Len(repo'.endpoints),
               repo'.rules = repo.rules
        PROVE  CommitLocals'
    BY <1>0, <2>1, <2>3, <2>4, <2>6 DEF CommitLocals
  <2>7. ASSUME \A j \in DOMAIN repo.endpoints :
                 j \in DOMAIN repo'.endpoints /\ repo'.endpoints[j] = repo.endpoints[j],
               \E j \in DOMAIN repo'.endpoints :
                 SameSignature(repo'.endpoints[j], p, e.method, e.path)
        PROVE  EndpointsTaken'
    <3> SUFFICES ASSUME NEW i \in DOMAIN commit.config.endpoints, i < n + 1
                 PROVE  \E j \in DOMAIN repo'.endpoints :
                          SameSignature(repo'.endpoints[j], p,
                                        commit.config.endpoints[i].endpoint.method,
                                        commit.config.endpoints[i].endpoint.path)
      BY <2>3 DEF EndpointsTaken
    <3>1. i \in Nat
      <4>1. commit.config.endpoints \in Seq(GeneratedEndpointConfig)
        BY <2>1, ResultTyped DEF CommitLocals
      <4> QED
        BY <4>1, LenProperties
    <3>2. CASE i < n
      BY <2>1, <2>7, <3>2 DEF EndpointsTaken
    <3>3. CASE i = n
      BY <2>7, <3>3
    <3> QED
      BY <2>4, <3>1, <3>2, <3>3
  <2> HIDE DEF e
  <2>8. CASE EndpointSignatureExists(repo, p, e.method, e.path) /\ repo' = repo
               /\ ids = commit.ids
    <3>1. CommitLocals' /\ EndpointsTaken'
      BY <1>0, <2>6, <2>7, <2>8 DEF EndpointSignatureExists
    <3>2. IdsAreNew' /\ CommitTouchesOwn'
      BY <2>1, <2>3, <2>8, <1>5
         DEF IdsAreNew, CommitTouchesOwn, NewEndpoints, NewRules, CommitNextEndpoint
    <3> QED
      BY <1>0, <2>2, <2>3, <2>5, <3>1, <3>2 DEF CommitInv
  <2>9. CASE /\ repo' = CreateEndpoint(repo, p, e, fresh, fresh + 1)
             /\ \E key : ids = WithId(commit.ids, key, fresh)
    <3> DEFINE endpoint == [id |-> fresh, project_id |-> p, path |-> e.path,
                            method |-> e.method, is_active |-> e.is_active]
    <3>1. repo'.endpoints = Append(repo.endpoints, endpoint) /\ repo'.rules = repo.rules
      BY <2>9 DEF CreateEndpoint
    <3>2. /\ endpoint.id = fresh /\ endpoint.project_id = p
          /\ SameSignature(endpoint, p, e.method, e.path)
      BY DEF SameSignature
    <3> HIDE DEF endpoint
    <3>3. /\ NewEndpoints' = NewEndpoints \cup {endpoint}
          /\ Len(repo'.endpoints) = Len(repo.endpoints) + 1
          /\ NewRules' = NewRules
      BY <1>0, <2>1, <2>3, <3>1, SinceAppend DEF CommitLocals, NewEndpoints, NewRules
    <3>4. Extends(repo'.endpoints, repo.endpoints, endpoint)
      BY <1>0, <3>1, AppendExtends
    <3>5. CommitLocals'
      BY <1>0, <2>6, <3>1, <3>3
    <3>6. EndpointsTaken'
      BY <2>7, <3>2, <3>4 DEF Extends
    <3>7. IdsAreNew'
      <4>1. PICK key : ids = WithId(commit.ids, key, fresh)
        BY <2>9
      <4>2. ASSUME NEW k \in DOMAIN ids
            PROVE  \E new \in NewEndpoints' : new.id = ids[k]
        <5>1. CASE k = key
          BY <3>2, <3>3, <4>1, <4>2, <5>1 DEF WithId
        <5>2. CASE k # key
          <6>1. k \in DOMAIN commit.ids /\ ids[k] = commit.ids[k]
            BY <4>1, <4>2, <5>2 DEF WithId
          <6> QED
            BY <2>1, <3>3, <6>1 DEF IdsAreNew
        <5> QED
          BY <5>1, <5>2
      <4> QED
        BY <2>3, <4>2 DEF IdsAreNew
    <3>8. CommitTouchesOwn'
      <4>1. commit.open
        BY <1>5 DEF CommitNextEndpoint
      <4> QED
        BY <2>1, <2>3, <3>2, <3>3, <4>1 DEF CommitTouchesOwn
    <3> QED
      BY <1>0, <2>2, <2>3, <2>5, <3>5, <3>6, <3>7, <3>8 DEF CommitInv
  <2> QED
    BY <2>2, <2>8, <2>9 DEF e
<1>6. CASE CommitNextRule
  <2> DEFINE g == commit.config.rules[commit.rule]
             n == commit.rule
  <2>1. /\ CommitLocals /\ IdsAreNew /\ CommitTouchesOwn /\ EndpointsTaken
        /\ RulesCreated /\ commit.open
    BY <1>6 DEF CommitInv, CommitNextRule
  <2>2. /\ commit' = CommitCall(commit.config, commit.project_id, commit.ids,
                                commit.endpoint, n + 1, commit.sizes)
        /\ \/ /\ g.endpoint_key \in DOMAIN commit.ids
              /\ repo' = CreateRule(repo, commit.ids[g.endpoint_key], g.rule, fresh)
           \/ g.endpoint_key \notin DOMAIN commit.ids /\ repo' = repo
        /\ EndpointsDone /\ n \in DOMAIN commit.config.rules
        /\ result' = result
    BY <1>6, RuleRound
  <2>3. /\ commit'.config = commit.config /\ commit'.project_id = commit.project_id
        /\ commit'.ids = commit.ids /\ commit'.endpoint = commit.endpoint
        /\ commit'.rule = n + 1 /\ commit'.sizes = commit.sizes /\ commit'.open = TRUE
    BY <2>2 DEF CommitCall
  <2>4. repo'.endpoints = repo.endpoints
    BY <2>2 DEF CreateRule
  <2>5. ~ (commit.endpoint <= Len(commit.config.endpoints))
    <3>1. commit.config.endpoints \in Seq(GeneratedEndpointConfig)
      BY <2>1, ResultTyped DEF CommitLocals
    <3>2. Len(commit.config.endpoints) \in Nat
      BY <3>1, LenProperties
    <3> QED
      BY <2>1, <2>2, <3>2 DEF EndpointsDone, CommitLocals
  <2>6. ASSUME Len(repo'.rules) \in Nat, Len(repo.rules) <= Len(repo'.rules)
        PROVE  CommitLocals'
    BY <1>0, <2>1, <2>3, <2>4, <2>5, <2>6 DEF CommitLocals
  <2>7. IdsAreNew' /\ EndpointsTaken' /\ NewEndpoints' = NewEndpoints
    BY <2>1, <2>3, <2>4 DEF IdsAreNew, EndpointsTaken, NewEndpoints
  <2>8. ASSUME NewRules \subseteq NewRules',
               g.endpoint_key \in DOMAIN commit.ids =>
                 \E new \in NewRules' :
                   /\ new.endpoint_id = commit.ids[g.endpoint_key]
                   /\ new.operator = g.rule.operator /\ new.value = g.rule.value
        PROVE  RulesCreated'
    <3> SUFFICES ASSUME NEW i \in DOMAIN commit.config.rules, i < n + 1,
                        commit.config.rules[i].endpoint_key \in DOMAIN commit.ids
                 PROVE  \E new \in NewRules' :
                          /\ new.endpoint_id = commit.ids[commit.config.rules[i].endpoint_key]
                          /\ new.operator = commit.config.rules[i].rule.operator
                          /\ new.value = commit.config.rules[i].rule.value
      BY <2>3 DEF RulesCreated
    <3>1. i \in Nat /\ n \in Nat
      <4>1. commit.config.rules \in Seq(GeneratedRuleConfig)
        BY <2>1, ResultTyped DEF CommitLocals
      <4> QED
        BY <2>1, <4>1, LenProperties DEF CommitLocals
    <3>2. CASE i < n
      BY <2>1, <2>8, <3>2 DEF RulesCreated
    <3>3. CASE i = n
      BY <2>8, <3>3
    <3> QED
      BY <3>1, <3>2, <3>3
  <2> HIDE DEF g
  <2>9. CASE g.endpoint_key \notin DOMAIN commit.ids /\ repo' = repo
    <3>1. NewRules' = NewRules
      BY <2>3, <2>9 DEF NewRules
    <3>2. CommitLocals' /\ RulesCreated'
      BY <1>0, <2>6, <2>8, <2>9, <3>1
    <3>3. CommitTouchesOwn'
      BY <2>1, <2>3, <2>7, <3>1 DEF CommitTouchesOwn
    <3> QED
      BY <1>0, <2>2, <2>7, <3>2, <3>3 DEF CommitInv
  <2>10. CASE /\ g.endpoint_key \in DOMAIN commit.ids
              /\ repo' = CreateRule(repo, commit.ids[g.endpoint_key], g.rule, fresh)
    <3> DEFINE id   == commit.ids[g.endpoint_key]
               rule == [endpoint_id |-> id, condition_type |-> g.rule.condition_type,
                        field |-> g.rule.field, operator |-> g.rule.operator,
                        value |-> g.rule.value, action |-> fresh]
    <3>1. repo'.rules = Append(repo.rules, rule)
      BY <2>10 DEF CreateRule
    <3>2. /\ rule.endpoint_id = id /\ rule.operator = g.rule.operator
          /\ rule.value = g.rule.value
      OBVIOUS
    <3> HIDE DEF rule
    <3>3. /\ NewRules' = NewRules \cup {rule}
          /\ Len(repo'.rules) = Len(repo.rules) + 1
      BY <1>0, <2>1, <2>3, <3>1, SinceAppend DEF CommitLocals, NewRules
    <3>4. CommitLocals'
      BY <1>0, <2>6, <3>3
    <3>5. RulesCreated'
      BY <2>8, <3>2, <3>3
    <3>6. \E new \in NewEndpoints : new.id = rule.endpoint_id
      BY <2>1, <2>10, <3>2 DEF IdsAreNew
    <3>7. CommitTouchesOwn'
      BY <2>1, <2>3, <2>7, <3>3, <3>6 DEF CommitTouchesOwn
    <3> QED
      BY <1>0, <2>2, <2>7, <3>4, <3>5, <3>7 DEF CommitInv
  <2> QED
    BY <2>2, <2>9, <2>10 DEF g
<1>7. CASE ReturnCommit \/ RestartProcess
  <2>1. commit' = NoCommit
    BY <1>7 DEF ReturnCommit, RestartProcess
  <2>2. result' \in [Tasks -> Results \cup {NoResult}]
    BY <1>0, <1>7 DEF ReturnCommit, RestartProcess
  <2> QED
    BY <1>1, <2>1, <2>2 DEF NoCommit
<1>8. CASE UNCHANGED process_vars
  <2>1. UNCHANGED <<repo, result, commit>>
    BY <1>8 DEF process_vars
  <2> QED
    BY <2>1 DEF CommitInv, CommitLocals, IdsAreNew, CommitTouchesOwn, EndpointsTaken,
                RulesCreated, NewEndpoints, NewRules
<1> QED
  BY <1>2, <1>3, <1>4, <1>5, <1>6, <1>7, <1>8 DEF ProcessNext, FreeStep

LEMMA ProcessInitInv == ProcessInit => ConfigInv /\ TypeOK /\ CommitInv
<1> SUFFICES ASSUME ProcessInit
             PROVE  ConfigInv /\ TypeOK /\ CommitInv
  OBVIOUS
<1>1. ConfigInv /\ TypeOK
  BY ConfigInvInit, TypeOKInit DEF ProcessInit
<1>2. ~ commit.open /\ result \in [Tasks -> Results \cup {NoResult}]
  BY DEF ProcessInit, NoCommit
<1> QED
  BY <1>1, <1>2 DEF CommitInv

THEOREM ProcessInvHolds == ProcessSpec => [](ConfigInv /\ CommitInv)
<1>1. ProcessInit => ConfigInv /\ CommitInv
  BY ProcessInitInv
<1>2. ConfigInv /\ CommitInv /\ [ProcessNext]_process_vars => (ConfigInv /\ CommitInv)'
  BY ProcessConfigInvStep, CommitInvStep
<1> QED
  BY <1>1, <1>2, PTL DEF ProcessSpec

\* The repository keeps its relational shape over commits as well.
THEOREM ProcessConfigIntegrity == ProcessSpec => []ConfigIntegrity
<1>1. ConfigInv => ConfigIntegrity
  BY DEF ConfigInv, Sound, ConfigIntegrity
<1> QED
  BY <1>1, ProcessInvHolds, PTL

\* Signatures stay unique, whatever commits and creations meet in the repository
\* and although the critic lets configurations pass that repeat one.
THEOREM ProcessUniqueSignature == ProcessSpec => []UniqueSignature
<1>1. ConfigInv => UniqueSignature
  BY DEF ConfigInv, UniqueSignature
<1> QED
  BY <1>1, ProcessInvHolds, PTL

\* A commit creates endpoints of its own project only, and rules only for them.
THEOREM CommitTouchesOwnHolds == ProcessSpec => []CommitTouchesOwn
<1>1. CommitInv => CommitTouchesOwn
  BY DEF CommitInv, CommitTouchesOwn
<1> QED
  BY <1>1, ProcessInvHolds, PTL

\* A commit that is about to return has an endpoint for every signature of its
\* configuration, and every rule whose endpoint it has created.
THEOREM CommitCompleteHolds == ProcessSpec => []CommitComplete
<1>1. ASSUME CommitInv
      PROVE  CommitComplete
  <2> SUFFICES ASSUME commit.open, EndpointsDone, RulesDone
               PROVE  CommitComplete
    BY DEF CommitComplete
  <2>1. CommitLocals /\ EndpointsTaken /\ RulesCreated
    BY <1>1 DEF CommitInv
  <2>2. /\ commit.config.endpoints \in Seq(GeneratedEndpointConfig)
        /\ commit.config.rules \in Seq(GeneratedRuleConfig)
    BY <2>1, ResultTyped DEF CommitLocals
  <2>3. /\ \A i \in DOMAIN commit.config.endpoints : i < commit.endpoint
        /\ \A i \in DOMAIN commit.config.rules : i < commit.rule
    <3>1. /\ DOMAIN commit.config.endpoints = 1 .. Len(commit.config.endpoints)
          /\ Len(commit.config.endpoints) \in Nat
          /\ DOMAIN commit.config.rules = 1 .. Len(commit.config.rules)
          /\ Len(commit.config.rules) \in Nat
      BY <2>2, LenProperties
    <3> QED
      BY <2>1, <3>1 DEF EndpointsDone, RulesDone, CommitLocals
  <2> QED
    BY <2>1, <2>3 DEF CommitComplete, EndpointsTaken, RulesCreated
<1> QED
  BY <1>1, ProcessInvHolds, PTL

--------------------------------------------------------------------------------
\* The properties of the runtime, over commits.

\* Neither round touches anything but configuration, counter and the commit.
LEMMA RoundFrame ==
  CommitInv /\ (CommitNextEndpoint \/ CommitNextRule) =>
    UNCHANGED <<request_logs, call, clock, restarts, seen>>
BY EndpointRound, RuleRound

LEMMA ProcessTypeOKStep ==
  TypeOK /\ ConfigInv' /\ CommitInv /\ [ProcessNext]_process_vars => TypeOK'
<1>1. ASSUME TypeOK, ConfigInv', CommitInv, CommitNextEndpoint \/ CommitNextRule
      PROVE  TypeOK'
  <2>1. UNCHANGED <<request_logs, call, clock, restarts, seen>>
    BY <1>1, RoundFrame
  <2>2. repo' \in RepositoryType /\ fresh' \in Nat
    BY <1>1 DEF ConfigInv, Sound
  <2> QED
    BY <1>1, <2>1, <2>2 DEF TypeOK
<1> QED
  BY <1>1, StepKinds, TypeOKStep

THEOREM ProcessTypeOK == ProcessSpec => []TypeOK
<1>1. ProcessInit => TypeOK
  BY ProcessInitInv
<1> QED
  BY <1>1, ProcessTypeOKStep, ProcessInvHolds, PTL DEF ProcessSpec

\* A signature that exists and does not resolve is explained, during commits too.
THEOREM ProcessCheckExplained == ProcessSpec => []CheckExplained
<1>1. TypeOK => CheckExplained
  BY TypedExplained DEF TypeOK
<1> QED
  BY <1>1, ProcessTypeOK, PTL

\* A round of commit puts records at the end of the lists, or none.
LEMMA RoundGrows ==
  ASSUME CommitInv, ConfigInv, CommitNextEndpoint \/ CommitNextRule
  PROVE  Grows(repo, repo')
<1>1. repo \in RepositoryType
  BY DEF ConfigInv, Sound
<1>2. Grows(repo, repo)
  BY DEF Grows
<1>3. CASE CommitNextEndpoint
  BY <1>1, <1>2, <1>3, EndpointRound, CreateEndpointGrows
<1>4. CASE CommitNextRule
  BY <1>1, <1>2, <1>4, RuleRound, CreateRuleGrows
<1> QED
  BY <1>3, <1>4

LEMMA ProcessServedStep ==
  TypeOK /\ ConfigInv /\ CommitInv /\ ServedByOwnEndpoint /\ [ProcessNext]_process_vars
    => ServedByOwnEndpoint'
<1>1. ASSUME ConfigInv, CommitInv, ServedByOwnEndpoint, CommitNextEndpoint \/ CommitNextRule
      PROVE  ServedByOwnEndpoint'
  <2>1. Grows(repo, repo') /\ call' = call
    BY <1>1, RoundGrows, RoundFrame
  <2>2. \A q \in Requests : Served(repo, call[q])
    BY <1>1 DEF ServedByOwnEndpoint, Served
  <2>3. \A q \in Requests : Served(repo', call'[q])
    BY <2>1, <2>2, ServedGrows
  <2> QED
    BY <2>3 DEF ServedByOwnEndpoint, Served
<1> QED
  BY <1>1, StepKinds, ServedStep

\* A call that was routed to an endpoint is answered with a response of an active
\* endpoint of its own project and method, also while commits go on.
THEOREM ProcessServedByOwnEndpoint == ProcessSpec => []ServedByOwnEndpoint
<1>1. ProcessInit => ServedByOwnEndpoint
  BY DEF ProcessInit, Init, ServedByOwnEndpoint, IdleCall, Answered
<1> QED
  BY <1>1, ProcessServedStep, ProcessTypeOK, ProcessInvHolds, PTL DEF ProcessSpec

LEMMA ProcessRoutingStableStep ==
  TypeOK /\ ConfigInv' /\ CommitInv /\ [ProcessNext]_process_vars =>
    [Configured => TakesOverOnlyIfMoreStatic]_vars
<1>1. ASSUME TypeOK, ConfigInv', CommitInv, CommitNextEndpoint \/ CommitNextRule
      PROVE  TakesOverOnlyIfMoreStatic
  <2>1. repo \in RepositoryType /\ repo' \in RepositoryType
    BY <1>1 DEF TypeOK, ConfigInv, Sound
  <2>2. \/ repo'.endpoints = repo.endpoints
        \/ \E e : repo'.endpoints = Append(repo.endpoints, e)
    <3>1. CASE CommitNextEndpoint
      <4>1. CASE repo' = repo
        BY <4>1
      <4>2. ASSUME NEW p, NEW e, repo' = CreateEndpoint(repo, p, e, fresh, fresh + 1)
            PROVE  repo'.endpoints = Append(repo.endpoints,
                     [id |-> fresh, project_id |-> p, path |-> e.path, method |-> e.method,
                      is_active |-> e.is_active])
        BY <4>2 DEF CreateEndpoint
      <4> QED
        BY <1>1, <3>1, <4>1, <4>2, EndpointRound
    <3>2. CASE CommitNextRule
      <4>1. CASE repo' = repo
        BY <4>1
      <4>2. ASSUME NEW id, NEW r, repo' = CreateRule(repo, id, r, fresh)
            PROVE  repo'.endpoints = repo.endpoints
        BY <4>2 DEF CreateRule
      <4> QED
        BY <1>1, <3>2, <4>1, <4>2, RuleRound
    <3> QED
      BY <1>1, <3>1, <3>2
  <2>3. CASE repo'.endpoints = repo.endpoints
    <3>1. \A ctx : RouteOf(repo', ctx) = RouteOf(repo, ctx)
      BY <2>3 DEF RouteOf, GetActiveEndpoints
    <3> QED
      BY <3>1 DEF TakesOverOnlyIfMoreStatic
  <2>4. CASE \E e : repo'.endpoints = Append(repo.endpoints, e)
    <3>1. \A ctx \in Contexts : ctx.path \in Paths
      BY ContextAssumption
    <3> QED
      BY <2>1, <2>4, <3>1, NewcomerTakesOver DEF TakesOverOnlyIfMoreStatic
  <2> QED
    BY <2>2, <2>3, <2>4
<1> QED
  BY <1>1, StepKinds, RoutingStableStep

\* A commit, like a creation, takes a request over only with a template that is
\* strictly more static.
THEOREM ProcessRoutingStable == ProcessSpec => RoutingStable
BY ProcessRoutingStableStep, ProcessTypeOK, ProcessInvHolds, PTL
   DEF ProcessSpec, RoutingStable

LEMMA RoundAllGrow ==
  ASSUME CommitInv, ConfigInv, CommitNextEndpoint \/ CommitNextRule
  PROVE  AllGrow(repo, repo')
<1>1. repo \in RepositoryType
  BY DEF ConfigInv, Sound
<1>2. AllGrow(repo, repo)
  BY DEF AllGrow, ListGrows
<1>3. CASE CommitNextEndpoint
  BY <1>1, <1>2, <1>3, EndpointRound, CreationsGrow
<1>4. CASE CommitNextRule
  BY <1>1, <1>2, <1>4, RuleRound, CreationsGrow
<1> QED
  BY <1>3, <1>4

LEMMA ProcessSeenInvStep ==
  TypeOK /\ ConfigInv /\ ConfigInv' /\ CommitInv /\ SeenInv /\ [ProcessNext]_process_vars
    => SeenInv'
<1>1. ASSUME ConfigInv, ConfigInv', CommitInv, SeenInv, CommitNextEndpoint \/ CommitNextRule
      PROVE  SeenInv'
  <2>1. AllGrow(repo, repo') /\ UNCHANGED <<call, seen>>
    BY <1>1, RoundAllGrow, RoundFrame
  <2>2. repo \in RepositoryType /\ repo' \in RepositoryType
    BY <1>1 DEF ConfigInv, Sound
  <2>3. \A q \in Requests : AsSeen(repo, call[q], seen[q])
    BY <1>1 DEF SeenInv
  <2>4. \A q \in Requests : AsSeen(repo', call'[q], seen'[q])
    BY <2>1, <2>2, <2>3, AsSeenGrown
  <2> QED
    BY <2>4 DEF SeenInv
<1> QED
  BY <1>1, StepKinds, SeenInvStep

\* A call is answered as the configuration said when its body was read, whatever a
\* commit creates while it sleeps.
THEOREM ProcessAnsweredAsOfBodyRead == ProcessSpec => []AnsweredAsOfBodyRead
<1>1. ProcessInit => SeenInv
  BY SeenInvInit DEF ProcessInit
<1>2. ProcessSpec => []SeenInv
  BY <1>1, ProcessSeenInvStep, ProcessTypeOK, ProcessInvHolds, PTL DEF ProcessSpec
<1> QED
  BY <1>2, SeenInvMeans, PTL

LEMMA ProcessRulesStableStep ==
  TypeOK /\ ConfigInv /\ ConfigInv' /\ CommitInv /\ [ProcessNext]_process_vars =>
    [Configured => EarlierRulesKeepTheirRequests]_vars
<1>1. ASSUME ConfigInv, ConfigInv', CommitInv, CommitNextEndpoint \/ CommitNextRule
      PROVE  EarlierRulesKeepTheirRequests
  <2>1. repo \in RepositoryType /\ repo' \in RepositoryType
    BY <1>1 DEF ConfigInv, Sound
  <2>2. AllGrow(repo, repo')
    BY <1>1, RoundAllGrow
  <2> QED
    BY <2>1, <2>2, GrownRulesStable
<1> QED
  BY <1>1, StepKinds, RulesStableStep

\* The rules a commit creates take no request from an earlier rule either.
THEOREM ProcessRulesStable == ProcessSpec => RulesStable
BY ProcessRulesStableStep, ProcessTypeOK, ProcessInvHolds, PTL
   DEF ProcessSpec, RulesStable

\* To its callers and the reader of its log the whole process is a MockService.
THEOREM ProcessImplementsSafeService == ProcessSpec => Service!SafeSpec
<1>1. ASSUME CommitInv, CommitNextEndpoint \/ CommitNextRule
      PROVE  UNCHANGED <<MappedState, MappedAnswer, MappedLog>>
  <2>1. UNCHANGED <<call, request_logs>>
    BY <1>1, RoundFrame
  <2> QED
    BY <2>1 DEF MappedState, MappedAnswer, MappedLog
<1>2. TypeOK /\ CommitInv /\ [ProcessNext]_process_vars
        => [Service!Next]_(Service!service_vars)
  BY <1>1, StepKinds, ServiceStep
     DEF Service!service_vars, MappedState, MappedAnswer, MappedLog
<1>3. ProcessInit => Service!Init
  BY ServiceInit DEF ProcessInit
<1> QED
  BY <1>2, <1>3, ProcessTypeOK, ProcessInvHolds, PTL DEF ProcessSpec, Service!SafeSpec
================================================================================
