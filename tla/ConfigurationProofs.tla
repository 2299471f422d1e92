--------------------------- MODULE ConfigurationProofs ---------------------------
(***************************************************************************)
(* What critic, sandbox and commit do with a generated configuration, for  *)
(* every configuration and every sound repository.  That a configuration   *)
(* is typed is the inductive part of the state machine; what a build is    *)
(* after so many rounds is proved by the least round that would violate    *)
(* it.                                                                     *)
(***************************************************************************)
EXTENDS Configurations, PipelineProofs

ConfigTyped ==
  /\ config.endpoints \in Seq(GeneratedEndpointConfig)
  /\ config.rules \in Seq(GeneratedRuleConfig)
  /\ config.scenarios \in Seq(Scenarios)
  /\ config = [endpoints |-> config.endpoints, rules |-> config.rules,
               scenarios |-> config.scenarios]

LEMMA ConfigTypedInit == Init => ConfigTyped
BY DEF Init, EmptyConfig, ConfigTyped

LEMMA ConfigTypedStep == ConfigTyped /\ [Next]_config => ConfigTyped'
<1> SUFFICES ASSUME ConfigTyped, [Next]_config
             PROVE  ConfigTyped'
  OBVIOUS
<1>0. /\ config.endpoints \in Seq(GeneratedEndpointConfig)
      /\ config.rules \in Seq(GeneratedRuleConfig)
      /\ config.scenarios \in Seq(Scenarios)
      /\ config = [endpoints |-> config.endpoints, rules |-> config.rules,
                   scenarios |-> config.scenarios]
  BY DEF ConfigTyped
<1>1. ASSUME NEW key \in Keys, NEW request \in EndpointRequests, AddEndpointConfig(key, request)
      PROVE  ConfigTyped'
  <2> DEFINE e == [key |-> key, endpoint |-> request]
  <2>1. e \in GeneratedEndpointConfig
    BY PiecesAssumption DEF GeneratedEndpointConfig
  <2>2. config' = [endpoints |-> Append(config.endpoints, e), rules |-> config.rules,
                   scenarios |-> config.scenarios]
    BY <1>0, <1>1 DEF AddEndpointConfig
  <2>3. Append(config.endpoints, e) \in Seq(GeneratedEndpointConfig)
    BY <1>0, <2>1, AppendProperties
  <2> QED
    BY <1>0, <2>2, <2>3 DEF ConfigTyped
<1>2. ASSUME NEW key \in Keys, NEW request \in RuleRequests, AddRuleConfig(key, request)
      PROVE  ConfigTyped'
  <2> DEFINE r == [endpoint_key |-> key, rule |-> request]
  <2>1. r \in GeneratedRuleConfig
    BY PiecesAssumption DEF GeneratedRuleConfig
  <2>2. config' = [endpoints |-> config.endpoints, rules |-> Append(config.rules, r),
                   scenarios |-> config.scenarios]
    BY <1>0, <1>2 DEF AddRuleConfig
  <2>3. Append(config.rules, r) \in Seq(GeneratedRuleConfig)
    BY <1>0, <2>1, AppendProperties
  <2> QED
    BY <1>0, <2>2, <2>3 DEF ConfigTyped
<1>3. ASSUME NEW scenario \in Scenarios, AddScenario(scenario)
      PROVE  ConfigTyped'
  <2>1. config' = [endpoints |-> config.endpoints, rules |-> config.rules,
                   scenarios |-> <<scenario>>]
    BY <1>0, <1>3 DEF AddScenario
  <2>2. <<scenario>> \in Seq(Scenarios)
    OBVIOUS
  <2> QED
    BY <1>0, <2>1, <2>2 DEF ConfigTyped
<1>4. CASE UNCHANGED config
  BY <1>0, <1>4 DEF ConfigTyped
<1> QED
  BY <1>1, <1>2, <1>3, <1>4 DEF Next

THEOREM ConfigTypedHolds == Spec => []ConfigTyped
BY ConfigTypedInit, ConfigTypedStep, PTL DEF Spec

LEMMA TypedHere ==
  ASSUME ConfigTyped
  PROVE  TypedConfig(config)
BY DEF ConfigTyped, TypedConfig

\* A build holds a sound repository, and its identifiers are those of endpoints.
BuildSound(b) ==
  /\ b.fresh \in Nat \ {NoId}
  /\ Sound(b.repo, b.fresh)
  /\ UniqueSignatures(b.repo)
  /\ \A key \in DOMAIN b.ids : EndpointExists(b.repo, Live, b.ids[key])

\* A round of the first loop.
LEMMA CommitEndpointSound ==
  ASSUME NEW b, BuildSound(b), NEW g, g.endpoint \in EndpointCreateRequest
  PROVE  LET d == CommitEndpoint(b, Live, g)
         IN  /\ BuildSound(d)
             /\ KeepsEndpoints(b.repo, d.repo)
             /\ EndpointSignatureExists(d.repo, Live, g.endpoint.method, g.endpoint.path)
<1> DEFINE d == CommitEndpoint(b, Live, g)
           t == CreateEndpoint(b.repo, Live, g.endpoint, b.fresh, b.fresh + 1)
<1>1. /\ b.fresh \in Nat /\ b.fresh # NoId /\ Sound(b.repo, b.fresh)
      /\ UniqueSignatures(b.repo) /\ Live \in Projects
      /\ \A key \in DOMAIN b.ids : EndpointExists(b.repo, Live, b.ids[key])
  BY LivesAssumption DEF BuildSound
<1>2. CASE EndpointSignatureExists(b.repo, Live, g.endpoint.method, g.endpoint.path)
  <2>1. d = b
    BY <1>2 DEF CommitEndpoint
  <2> HIDE DEF d
  <2> QED
    BY <1>2, <2>1 DEF KeepsEndpoints, d
<1>3. CASE ~ EndpointSignatureExists(b.repo, Live, g.endpoint.method, g.endpoint.path)
  <2>1. d = Build(t, b.fresh + 2, WithId(b.ids, g.key, b.fresh))
    BY <1>3 DEF CommitEndpoint, AddEndpoint
  <2>2. d.repo = t /\ d.fresh = b.fresh + 2 /\ d.ids = WithId(b.ids, g.key, b.fresh)
    <3> HIDE DEF d, t
    <3> QED
      BY <2>1 DEF Build
  <2> HIDE DEF d
  <2>3. Sound(t, b.fresh + 2)
    BY <1>1, CreateEndpointSound
  <2>4. UniqueSignatures(t)
    BY <1>1, <1>3, SignaturesStayUnique DEF Sound, RepositoryType
  <2>5. /\ KeepsEndpoints(b.repo, t)
        /\ EndpointExists(t, Live, b.fresh)
        /\ EndpointSignatureExists(t, Live, g.endpoint.method, g.endpoint.path)
    BY <1>1, EndpointCreated
  <2> HIDE DEF t
  <2>6. \A key \in DOMAIN d.ids : EndpointExists(t, Live, d.ids[key])
    BY <1>1, <2>2, <2>5, KeepsFound DEF WithId
  <2>7. b.fresh + 2 \in Nat \ {NoId}
    BY <1>1 DEF NoId
  <2> QED
    BY <2>2, <2>3, <2>4, <2>5, <2>6, <2>7 DEF BuildSound, d
<1> QED
  BY <1>2, <1>3

\* A round of the second loop.
LEMMA CommitRuleSound ==
  ASSUME NEW b, BuildSound(b), NEW g, g.rule \in RuleCreateRequest
  PROVE  LET d == CommitRule(b, g)
         IN  BuildSound(d) /\ KeepsEndpoints(b.repo, d.repo)
<1> DEFINE d == CommitRule(b, g)
           id == b.ids[g.endpoint_key]
           t  == CreateRule(b.repo, id, g.rule, b.fresh)
<1>1. /\ b.fresh \in Nat /\ b.fresh # NoId /\ Sound(b.repo, b.fresh)
      /\ UniqueSignatures(b.repo)
      /\ \A key \in DOMAIN b.ids : EndpointExists(b.repo, Live, b.ids[key])
  BY DEF BuildSound
<1>2. CASE g.endpoint_key \notin DOMAIN b.ids
  <2>1. d = b
    BY <1>2 DEF CommitRule
  <2> HIDE DEF d
  <2> QED
    BY <2>1 DEF KeepsEndpoints, d
<1>3. CASE g.endpoint_key \in DOMAIN b.ids
  <2>1. d = Build(t, b.fresh + 1, b.ids)
    BY <1>3 DEF CommitRule, AddRule
  <2>2. d.repo = t /\ d.fresh = b.fresh + 1 /\ d.ids = b.ids
    <3> HIDE DEF d, t
    <3> QED
      BY <2>1 DEF Build
  <2> HIDE DEF d
  <2>3. Sound(t, b.fresh + 1)
    BY <1>1, <1>3, CreateRuleSound
  <2>4. t.endpoints = b.repo.endpoints
    BY DEF CreateRule
  <2> HIDE DEF t
  <2>5. UniqueSignatures(t) /\ KeepsEndpoints(b.repo, t)
    BY <1>1, <2>4 DEF UniqueSignatures, KeepsEndpoints
  <2>6. \A key \in DOMAIN d.ids : EndpointExists(t, Live, d.ids[key])
    BY <1>1, <2>2, <2>4 DEF EndpointExists
  <2>7. b.fresh + 1 \in Nat \ {NoId}
    BY <1>1 DEF NoId
  <2> QED
    BY <2>2, <2>3, <2>5, <2>6, <2>7 DEF BuildSound, d
<1> QED
  BY <1>2, <1>3

\* After n rounds a commit has built soundly, and the first n signatures are taken.
Taken(b, n) ==
  \A i \in DOMAIN config.endpoints :
    i <= n => EndpointSignatureExists(b.repo, Live, config.endpoints[i].endpoint.method,
                                      config.endpoints[i].endpoint.path)

LEMMA CommitRoundSound ==
  ASSUME ConfigTyped, NEW b, NEW n \in 1 .. Rounds(config), BuildSound(b), Taken(b, n - 1)
  PROVE  LET d == CommitRound(b, Live, config, n) IN BuildSound(d) /\ Taken(d, n)
<1> DEFINE d == CommitRound(b, Live, config, n)
           m == Len(config.endpoints)
<1>1. /\ m \in Nat /\ Len(config.rules) \in Nat /\ n \in 1 .. m + Len(config.rules)
      /\ DOMAIN config.endpoints = 1 .. m /\ DOMAIN config.rules = 1 .. Len(config.rules)
  BY TypedHere, Pieces DEF Rounds
<1>2. CASE n <= m
  <2>1. n \in DOMAIN config.endpoints
    BY <1>1, <1>2
  <2>2. d = CommitEndpoint(b, Live, config.endpoints[n])
    BY <1>2 DEF CommitRound
  <2> HIDE DEF d
  <2>3. /\ BuildSound(d) /\ KeepsEndpoints(b.repo, d.repo)
        /\ EndpointSignatureExists(d.repo, Live, config.endpoints[n].endpoint.method,
                                   config.endpoints[n].endpoint.path)
    BY <2>1, <2>2, TypedHere, Pieces, CommitEndpointSound
  <2>4. \A i \in DOMAIN config.endpoints : i <= n => i <= n - 1 \/ i = n
    BY <1>1
  <2>5. Taken(d, n)
    BY <2>3, <2>4, KeepsFound DEF Taken
  <2> QED
    BY <2>3, <2>5 DEF d
<1>3. CASE ~ (n <= m)
  <2>1. n - m \in DOMAIN config.rules
    <3>1. \A x, y \in Nat : \A z \in 1 .. x + y : ~ (z <= x) => z - x \in 1 .. y
      OBVIOUS
    <3> HIDE DEF m
    <3> QED
      BY <1>1, <1>3, <3>1
  <2>2. d = CommitRule(b, config.rules[n - m])
    BY <1>3 DEF CommitRound
  <2> HIDE DEF d
  <2>3. BuildSound(d) /\ KeepsEndpoints(b.repo, d.repo)
    BY <2>1, <2>2, TypedHere, Pieces, CommitRuleSound
  <2>4. \A i \in DOMAIN config.endpoints : i <= n => i <= n - 1
    BY <1>1, <1>3
  <2>5. Taken(d, n)
    BY <2>3, <2>4, KeepsFound DEF Taken
  <2> QED
    BY <2>3, <2>5 DEF d
<1> QED
  BY <1>2, <1>3

\* A commit ends with a sound build in which every signature is taken.
LEMMA CommitEndsSound ==
  ASSUME ConfigTyped, NEW r, NEW fresh, BuildSound(Build(r, fresh, << >>))
  PROVE  LET done == Commit(r, fresh, Live, config)
         IN  BuildSound(done) /\ Taken(done, Rounds(config))
<1>1. Rounds(config) \in Nat
  BY TypedHere, RoundsNat
<1>2. PICK f : /\ Commit(r, fresh, Live, config) = f[Rounds(config)]
               /\ f[0] = Build(r, fresh, << >>)
               /\ \A n \in 1 .. Rounds(config) : f[n] = CommitRound(f[n - 1], Live, config, n)
  BY <1>1, CommitRuns
<1> DEFINE Good(n) == BuildSound(f[n]) /\ Taken(f[n], n)
           bad == {n \in 0 .. Rounds(config) : ~ Good(n)}
<1>3. bad = {}
  <2> SUFFICES ASSUME bad # {}
               PROVE  FALSE
    OBVIOUS
  <2>1. PICK n \in bad : \A k \in bad : n <= k
    <3>1. bad \in SUBSET Nat
      BY <1>1
    <3> HIDE DEF bad
    <3> QED
      BY <3>1, LeastExists
  <2>2. n \in 0 .. Rounds(config) /\ ~ Good(n)
    OBVIOUS
  <2>3. Good(0)
    <3>1. Taken(f[0], 0)
      BY TypedHere, Pieces DEF Taken
    <3> QED
      BY <1>2, <3>1
  <2>4. n \in 1 .. Rounds(config) /\ n - 1 \in 0 .. Rounds(config) /\ ~ (n <= n - 1)
    <3> HIDE DEF Good
    <3> QED
      BY <1>1, <2>2, <2>3
  <2>5. Good(n - 1)
    BY <2>1, <2>4
  <2>6. Good(n)
    BY <1>2, <2>4, <2>5, CommitRoundSound
  <2> QED
    BY <2>2, <2>6
<1>4. Good(Rounds(config))
  BY <1>1, <1>3
<1> QED
  BY <1>2, <1>4

LEMMA LivesSound ==
  ASSUME NEW live \in Lives
  PROVE  BuildSound(Build(live.repo, live.fresh, << >>))
BY LivesAssumption DEF BuildSound, Build, Sound

\* Whatever a configuration repeats and whatever the project has, commit keeps the
\* repository sound.
THEOREM CommitSoundHolds == Spec => []CommitSound
<1>1. ASSUME ConfigTyped
      PROVE  CommitSound
  <2>1. ASSUME NEW live \in Lives
        PROVE  BuildSound(Committed(live))
    BY <1>1, LivesSound, CommitEndsSound DEF Committed
  <2> QED
    BY <2>1 DEF CommitSound, BuildSound, Sound
<1> QED
  BY <1>1, ConfigTypedHolds, PTL

\* Where every signature is taken, and no key is bound, no round changes the build.
LEMMA CommitRoundIdle ==
  ASSUME ConfigTyped, NEW r, NEW fresh, NEW n \in 1 .. Rounds(config),
         \A i \in DOMAIN config.endpoints :
           EndpointSignatureExists(r, Live, config.endpoints[i].endpoint.method,
                                   config.endpoints[i].endpoint.path)
  PROVE  CommitRound(Build(r, fresh, << >>), Live, config, n) = Build(r, fresh, << >>)
<1> DEFINE b == Build(r, fresh, << >>)
           m == Len(config.endpoints)
<1>1. b.repo = r /\ b.ids = << >>
  BY DEF Build
<1>2. m \in Nat /\ DOMAIN config.endpoints = 1 .. m /\ n \in 1 .. m + Len(config.rules)
  BY TypedHere, Pieces DEF Rounds
<1> HIDE DEF b
<1>3. CASE n <= m
  <2>1. n \in DOMAIN config.endpoints
    BY <1>2, <1>3
  <2> QED
    BY <1>1, <1>3, <2>1 DEF CommitRound, CommitEndpoint, b
<1>4. CASE ~ (n <= m)
  <2>1. config.rules[n - m].endpoint_key \notin DOMAIN b.ids
    BY <1>1
  <2> QED
    BY <1>4, <2>1 DEF CommitRound, CommitRule, b
<1> QED
  BY <1>3, <1>4

\* A second commit finds every signature taken, so it binds no key and adds no rule.
THEOREM CommitIdempotentHolds == Spec => []CommitIdempotent
<1>1. ASSUME ConfigTyped
      PROVE  CommitIdempotent
  <2> SUFFICES ASSUME NEW live \in Lives
               PROVE  Commit(Committed(live).repo, Committed(live).fresh, Live, config).repo
                        = Committed(live).repo
    BY DEF CommitIdempotent
  <2> DEFINE r == Committed(live).repo
             fresh == Committed(live).fresh
             b == Build(r, fresh, << >>)
  <2>1. Taken(Committed(live), Rounds(config))
    BY <1>1, LivesSound, CommitEndsSound DEF Committed
  <2>2. Rounds(config) \in Nat
    BY <1>1, TypedHere, RoundsNat
  <2>3. ASSUME NEW i \in DOMAIN config.endpoints
        PROVE  EndpointSignatureExists(r, Live, config.endpoints[i].endpoint.method,
                                       config.endpoints[i].endpoint.path)
    <3>1. \A x, y \in Nat : \A z \in 1 .. x : z <= x + y
      OBVIOUS
    <3>2. i <= Rounds(config)
      BY <1>1, <3>1, TypedHere, Pieces DEF Rounds
    <3> QED
      BY <2>1, <3>2 DEF Taken
  <2> HIDE DEF r, fresh
  <2>4. PICK f : /\ Commit(r, fresh, Live, config) = f[Rounds(config)]
                 /\ f[0] = b
                 /\ \A n \in 1 .. Rounds(config) : f[n] = CommitRound(f[n - 1], Live, config, n)
    BY <2>2, CommitRuns
  <2> DEFINE moved == {n \in 0 .. Rounds(config) : f[n] # b}
  <2>5. \A n \in 1 .. Rounds(config) : CommitRound(b, Live, config, n) = b
    BY <1>1, <2>3, CommitRoundIdle
  <2> HIDE DEF b
  <2>6. moved = {}
    <3> SUFFICES ASSUME moved # {}
                 PROVE  FALSE
      OBVIOUS
    <3>1. PICK n \in moved : \A k \in moved : n <= k
      <4>1. moved \in SUBSET Nat
        BY <2>2
      <4> HIDE DEF moved
      <4> QED
        BY <4>1, LeastExists
    <3>2. n \in 0 .. Rounds(config) /\ f[n] # b
      OBVIOUS
    <3>3. n \in 1 .. Rounds(config) /\ n - 1 \in 0 .. Rounds(config) /\ ~ (n <= n - 1)
      BY <2>2, <2>4, <3>2
    <3>4. f[n - 1] = b
      BY <3>1, <3>3
    <3> QED
      BY <2>4, <2>5, <3>2, <3>3, <3>4
  <2>7. f[Rounds(config)] = b
    BY <2>2, <2>6
  <2>8. b.repo = r
    BY DEF b, Build
  <2> QED
    BY <2>4, <2>7, <2>8 DEF r, fresh
<1> QED
  BY <1>1, ConfigTypedHolds, PTL

--------------------------------------------------------------------------------
\* The live project as the sandbox with higher identifiers: commit into a project
\* without endpoints builds what the sandbox builds, above what is there.

\* A record whose identifiers are d higher.
Moved(record, d) ==
  [name \in DOMAIN record |->
     IF name \in {"id", "endpoint_id", "action"} THEN record[name] + d ELSE record[name]]

\* The list s, moved, behind the list b.
Raised(d, b, s) ==
  [i \in 1 .. Len(b) + Len(s) |-> IF i <= Len(b) THEN b[i] ELSE Moved(s[i - Len(b)], d)]

RaisedRepository(d, b, s) ==
  [endpoints |-> Raised(d, b.endpoints, s.endpoints),
   responses |-> Raised(d, b.responses, s.responses),
   rules     |-> Raised(d, b.rules, s.rules),
   delays    |-> Raised(d, b.delays, s.delays)]

RaisedBuild(d, b, s) ==
  Build(RaisedRepository(d, b, s.repo), s.fresh + d, [key \in DOMAIN s.ids |-> s.ids[key] + d])

\* A function on 1 .. n is a sequence.
LEMMA FunctionIsSeq ==
  ASSUME NEW n \in Nat, NEW f, f = [i \in 1 .. n |-> f[i]]
  PROVE  \E S : f \in Seq(S) /\ Len(f) = n
<1> DEFINE S == {f[i] : i \in 1 .. n}
<1>1. f \in [1 .. n -> S]
  OBVIOUS
<1> HIDE DEF S
<1>2. f \in Seq(S)
  BY <1>1, SeqDef
<1>3. Len(f) = n
  BY <1>1, <1>2, LenProperties, EqualIntervals
<1> QED
  BY <1>2, <1>3

\* Raised lists, position by position.
LEMMA RaisedList ==
  ASSUME NEW B, NEW b \in Seq(B), NEW S, NEW s \in Seq(S), NEW d
  PROVE  /\ DOMAIN Raised(d, b, s) = 1 .. Len(b) + Len(s)
         /\ \E T : Raised(d, b, s) \in Seq(T) /\ Len(Raised(d, b, s)) = Len(b) + Len(s)
         /\ \A i \in DOMAIN b : i \in DOMAIN Raised(d, b, s) /\ Raised(d, b, s)[i] = b[i]
         /\ \A i \in DOMAIN s : /\ Len(b) + i \in DOMAIN Raised(d, b, s)
                               /\ Raised(d, b, s)[Len(b) + i] = Moved(s[i], d)
         /\ \A i \in DOMAIN Raised(d, b, s) :
              i \in DOMAIN b \/ \E j \in DOMAIN s : i = Len(b) + j
<1>1. /\ Len(b) \in Nat /\ DOMAIN b = 1 .. Len(b) /\ Len(s) \in Nat /\ DOMAIN s = 1 .. Len(s)
  BY LenProperties
<1> DEFINE x == Len(b)
           y == Len(s)
           t == Raised(d, b, s)
<1> HIDE DEF x, y
<1>2. x \in Nat /\ DOMAIN b = 1 .. x /\ y \in Nat /\ DOMAIN s = 1 .. y
  BY <1>1 DEF x, y
<1>3. t = [i \in 1 .. x + y |-> IF i <= x THEN b[i] ELSE Moved(s[i - x], d)]
  BY DEF Raised, x, y
<1> HIDE DEF t
<1>4. DOMAIN t = 1 .. x + y
  BY <1>3
<1>5. \E T : t \in Seq(T) /\ Len(t) = x + y
  <2>1. t = [i \in 1 .. x + y |-> t[i]]
    BY <1>3
  <2>2. x + y \in Nat
    BY <1>2
  <2> QED
    BY <2>1, <2>2, FunctionIsSeq
<1>6. \A i \in DOMAIN b : i \in DOMAIN t /\ t[i] = b[i]
  BY <1>2, <1>3
<1>7. ASSUME NEW i \in DOMAIN s
      PROVE  x + i \in DOMAIN t /\ t[x + i] = Moved(s[i], d)
  <2>1. x + i \in 1 .. x + y /\ ~ (x + i <= x) /\ (x + i) - x = i
    BY <1>2
  <2> QED
    BY <1>3, <2>1
<1>8. ASSUME NEW i \in DOMAIN t, i \notin DOMAIN b
      PROVE  \E j \in DOMAIN s : i = x + j
  <2>1. i - x \in DOMAIN s /\ i = x + (i - x)
    BY <1>2, <1>4, <1>8
  <2> QED
    BY <2>1
<1> QED
  BY <1>4, <1>5, <1>6, <1>7, <1>8 DEF t, x, y

Behind(t, b, s, d) ==
  /\ \A i \in DOMAIN b : i \in DOMAIN t /\ t[i] = b[i]
  /\ \A i \in DOMAIN s : Len(b) + i \in DOMAIN t /\ t[Len(b) + i] = Moved(s[i], d)
  /\ \A i \in DOMAIN t : i \in DOMAIN b \/ \E j \in DOMAIN s : i = Len(b) + j

LEMMA RaisedBehind ==
  ASSUME NEW B, NEW b \in Seq(B), NEW S, NEW s \in Seq(S), NEW d
  PROVE  Behind(Raised(d, b, s), b, s, d)
BY RaisedList DEF Behind

\* What is appended to a list is appended, moved, to the raised list.
LEMMA RaisedAppend ==
  ASSUME NEW B, NEW b \in Seq(B), NEW S, NEW s \in Seq(S), NEW e, NEW d
  PROVE  Raised(d, b, Append(s, e)) = Append(Raised(d, b, s), Moved(e, d))
<1> DEFINE u == Append(s, e)
           t == Raised(d, b, s)
           v == Append(t, Moved(e, d))
           w == Raised(d, b, u)
           n == Len(b) + Len(s)
<1>1. Len(b) \in Nat /\ Len(s) \in Nat /\ DOMAIN s = 1 .. Len(s) /\ DOMAIN b = 1 .. Len(b)
  BY LenProperties
<1>2. u \in Seq(S \cup {e}) /\ Len(u) = Len(s) + 1
  <2>1. s \in Seq(S \cup {e})
    BY SeqMonotonic
  <2> QED
    BY <2>1, AppendProperties
<1>3. Extends(u, s, e)
  BY AppendExtends
<1>4. PICK T : t \in Seq(T) /\ Len(t) = n
  BY RaisedList
<1>5. Extends(v, t, Moved(e, d)) /\ v \in Seq(T \cup {Moved(e, d)}) /\ Len(v) = n + 1
  <2>1. t \in Seq(T \cup {Moved(e, d)})
    BY <1>4, SeqMonotonic
  <2> QED
    BY <1>4, <2>1, AppendExtends, AppendProperties
<1> HIDE DEF u
<1>6. /\ DOMAIN w = 1 .. Len(b) + Len(u)
      /\ \E W : w \in Seq(W) /\ Len(w) = Len(b) + Len(u)
      /\ \A i \in DOMAIN b : w[i] = b[i]
      /\ \A i \in DOMAIN u : w[Len(b) + i] = Moved(u[i], d)
  BY <1>2, RaisedList
<1>7. /\ \A i \in DOMAIN b : i \in DOMAIN t /\ t[i] = b[i]
      /\ \A i \in DOMAIN s : Len(b) + i \in DOMAIN t /\ t[Len(b) + i] = Moved(s[i], d)
      /\ DOMAIN t = 1 .. n
      /\ \A i \in DOMAIN t : i \in DOMAIN b \/ \E j \in DOMAIN s : i = Len(b) + j
  BY RaisedList
<1> HIDE DEF t, v, w
<1>8. Len(b) + Len(u) = n + 1 /\ n \in Nat /\ Len(b) + (Len(s) + 1) = n + 1
  BY <1>1, <1>2
<1> HIDE DEF n
<1>9. ASSUME NEW i \in 1 .. n + 1
      PROVE  w[i] = v[i]
  <2>1. CASE i = n + 1
    BY <1>3, <1>4, <1>5, <1>6, <1>8, <2>1 DEF Extends
  <2>2. CASE i # n + 1
    <3>0. i \in 1 .. n
      BY <1>8, <2>2
    <3>1. i \in DOMAIN t /\ v[i] = t[i]
      BY <1>5, <1>7, <3>0 DEF Extends
    <3>2. CASE i \in DOMAIN b
      BY <1>6, <1>7, <3>1, <3>2
    <3>3. CASE i \notin DOMAIN b
      <4>1. PICK j \in DOMAIN s : i = Len(b) + j
        BY <1>7, <3>1, <3>3
      <4> QED
        BY <1>3, <1>6, <1>7, <3>1, <4>1 DEF Extends
    <3> QED
      BY <3>2, <3>3
  <2> QED
    BY <2>1, <2>2
<1>10. PICK W : w \in Seq(W) /\ Len(w) = n + 1
  BY <1>6, <1>8
<1>11. w = v
  <2> DEFINE U == W \cup T \cup {Moved(e, d)}
  <2>1. w \in Seq(U)
    BY <1>10, SeqMonotonic
  <2>2. v \in Seq(U)
    <3>1. T \cup {Moved(e, d)} \subseteq U
      OBVIOUS
    <3> HIDE DEF U
    <3> QED
      BY <1>5, <3>1, SeqMonotonic
  <2> HIDE DEF U
  <2> QED
    BY <1>5, <1>9, <1>10, <2>1, <2>2, SeqEqual
<1> QED
  BY <1>11 DEF u, v, w, t

IsList(s) == \E S : s \in Seq(S)

LEMMA RaisedAppends ==
  \A b, s : IsList(b) /\ IsList(s) =>
    \A d, e : Raised(d, b, Append(s, e)) = Append(Raised(d, b, s), Moved(e, d))
BY RaisedAppend DEF IsList

\* What moving does to each kind of record.
LEMMA MovedRecords ==
  ASSUME NEW d
  PROVE  /\ \A a, b, x, y, z :
              Moved([id |-> a, project_id |-> b, path |-> x, method |-> y, is_active |-> z], d)
                = [id |-> a + d, project_id |-> b, path |-> x, method |-> y, is_active |-> z]
         /\ \A a, b, x, y, z :
              Moved([id |-> a, endpoint_id |-> b, status_code |-> x, is_default |-> y,
                     echo |-> z], d)
                = [id |-> a + d, endpoint_id |-> b + d, status_code |-> x, is_default |-> y,
                   echo |-> z]
         /\ \A a, b, x, y, z, u :
              Moved([endpoint_id |-> a, condition_type |-> b, field |-> x, operator |-> y,
                     value |-> z, action |-> u], d)
                = [endpoint_id |-> a + d, condition_type |-> b, field |-> x, operator |-> y,
                   value |-> z, action |-> u + d]
         /\ \A a, x, y :
              Moved([endpoint_id |-> a, delay_ms |-> x, mode |-> y], d)
                = [endpoint_id |-> a + d, delay_ms |-> x, mode |-> y]
BY DEF Moved

\* create_endpoint and create_rule do the same to a raised repository.
LEMMA RaisedCreateEndpoint ==
  ASSUME NEW b \in RepositoryType, NEW s \in RepositoryType, NEW d, NEW project, NEW request,
         NEW n, NEW m
  PROVE  RaisedRepository(d, b, CreateEndpoint(s, project, request, n, m))
           = CreateEndpoint(RaisedRepository(d, b, s), project, request, n + d, m + d)
<1> DEFINE default == TRUE
           endpoint(k) == [id |-> k, project_id |-> project, path |-> request.path,
                           method |-> request.method, is_active |-> request.is_active]
           response(k, l) == [id |-> l, endpoint_id |-> k, status_code |-> request.status_code,
                              is_default |-> default, echo |-> request.echo]
           delay(k) == [endpoint_id |-> k, delay_ms |-> request.delay_ms,
                        mode |-> request.delay_mode]
           t == CreateEndpoint(s, project, request, n, m)
           r == RaisedRepository(d, b, s)
<1> HIDE DEF default
<1>1. /\ Moved(endpoint(n), d) = endpoint(n + d)
      /\ Moved(response(n, m), d) = response(n + d, m + d)
      /\ Moved(delay(n), d) = delay(n + d)
  <2>1. Moved(endpoint(n), d) = endpoint(n + d)
    BY MovedRecords
  <2>2. Moved(response(n, m), d) = response(n + d, m + d)
    BY MovedRecords
  <2>3. Moved(delay(n), d) = delay(n + d)
    BY MovedRecords
  <2> QED
    BY <2>1, <2>2, <2>3
<1>2. /\ t.endpoints = Append(s.endpoints, endpoint(n))
      /\ t.responses = Append(s.responses, response(n, m))
      /\ t.rules = s.rules
      /\ t.delays = IF request.delay_ms = 0 THEN s.delays ELSE Append(s.delays, delay(n))
  BY DEF CreateEndpoint, default
<1>3. CreateEndpoint(r, project, request, n + d, m + d)
        = [endpoints |-> Append(r.endpoints, endpoint(n + d)),
           responses |-> Append(r.responses, response(n + d, m + d)),
           rules     |-> r.rules,
           delays    |-> IF request.delay_ms = 0 THEN r.delays
                         ELSE Append(r.delays, delay(n + d))]
  BY DEF CreateEndpoint, default
<1> HIDE DEF endpoint, response, delay, t
<1>4. /\ IsList(b.endpoints) /\ IsList(s.endpoints)
      /\ IsList(b.responses) /\ IsList(s.responses)
      /\ IsList(b.delays) /\ IsList(s.delays)
  BY DEF RepositoryType, IsList
<1>5. /\ Raised(d, b.endpoints, t.endpoints)
           = Append(Raised(d, b.endpoints, s.endpoints), endpoint(n + d))
      /\ Raised(d, b.responses, t.responses)
           = Append(Raised(d, b.responses, s.responses), response(n + d, m + d))
      /\ Raised(d, b.delays, t.delays)
           = IF request.delay_ms = 0 THEN Raised(d, b.delays, s.delays)
             ELSE Append(Raised(d, b.delays, s.delays), delay(n + d))
  <2>1. \A e : Raised(d, b.endpoints, Append(s.endpoints, e))
                = Append(Raised(d, b.endpoints, s.endpoints), Moved(e, d))
    <3>1. IsList(b.endpoints) /\ IsList(s.endpoints)
      BY <1>4
    <3> HIDE DEF r
    <3> QED
      BY <3>1, RaisedAppends
  <2>2. \A e : Raised(d, b.responses, Append(s.responses, e))
                = Append(Raised(d, b.responses, s.responses), Moved(e, d))
    <3>1. IsList(b.responses) /\ IsList(s.responses)
      BY <1>4
    <3> HIDE DEF r
    <3> QED
      BY <3>1, RaisedAppends
  <2>3. \A e : Raised(d, b.delays, Append(s.delays, e))
                = Append(Raised(d, b.delays, s.delays), Moved(e, d))
    <3>1. IsList(b.delays) /\ IsList(s.delays)
      BY <1>4
    <3> HIDE DEF r
    <3> QED
      BY <3>1, RaisedAppends
  <2> QED
    BY <1>1, <1>2, <2>1, <2>2, <2>3
<1>6. /\ r.endpoints = Raised(d, b.endpoints, s.endpoints)
      /\ r.responses = Raised(d, b.responses, s.responses)
      /\ r.rules = Raised(d, b.rules, s.rules)
      /\ r.delays = Raised(d, b.delays, s.delays)
  BY DEF RaisedRepository
<1> HIDE DEF r
<1>7. RaisedRepository(d, b, t) = CreateEndpoint(r, project, request, n + d, m + d)
  BY <1>2, <1>3, <1>5, <1>6 DEF RaisedRepository
<1> QED
  BY <1>7 DEF t, r

LEMMA RaisedCreateRule ==
  ASSUME NEW b \in RepositoryType, NEW s \in RepositoryType, NEW d, NEW endpoint_id,
         NEW request, NEW n
  PROVE  RaisedRepository(d, b, CreateRule(s, endpoint_id, request, n))
           = CreateRule(RaisedRepository(d, b, s), endpoint_id + d, request, n + d)
<1> DEFINE default == FALSE
           response(k, l) == [id |-> l, endpoint_id |-> k, status_code |-> request.status_code,
                              is_default |-> default, echo |-> request.echo]
           rule(k, l) == [endpoint_id |-> k, condition_type |-> request.condition_type,
                          field |-> request.field, operator |-> request.operator,
                          value |-> request.value, action |-> l]
           t == CreateRule(s, endpoint_id, request, n)
           r == RaisedRepository(d, b, s)
<1> HIDE DEF default
<1>1. /\ Moved(response(endpoint_id, n), d) = response(endpoint_id + d, n + d)
      /\ Moved(rule(endpoint_id, n), d) = rule(endpoint_id + d, n + d)
  <2>1. Moved(response(endpoint_id, n), d) = response(endpoint_id + d, n + d)
    BY MovedRecords
  <2>2. Moved(rule(endpoint_id, n), d) = rule(endpoint_id + d, n + d)
    BY MovedRecords
  <2> QED
    BY <2>1, <2>2
<1>2. /\ t.endpoints = s.endpoints
      /\ t.responses = Append(s.responses, response(endpoint_id, n))
      /\ t.rules = Append(s.rules, rule(endpoint_id, n))
      /\ t.delays = s.delays
  BY DEF CreateRule, default
<1>3. CreateRule(r, endpoint_id + d, request, n + d)
        = [endpoints |-> r.endpoints,
           responses |-> Append(r.responses, response(endpoint_id + d, n + d)),
           rules     |-> Append(r.rules, rule(endpoint_id + d, n + d)),
           delays    |-> r.delays]
  BY DEF CreateRule, default
<1> HIDE DEF response, rule, t
<1>4. /\ IsList(b.responses) /\ IsList(s.responses)
      /\ IsList(b.rules) /\ IsList(s.rules)
  BY DEF RepositoryType, IsList
<1>5. /\ Raised(d, b.responses, t.responses)
           = Append(Raised(d, b.responses, s.responses), response(endpoint_id + d, n + d))
      /\ Raised(d, b.rules, t.rules)
           = Append(Raised(d, b.rules, s.rules), rule(endpoint_id + d, n + d))
  <2>1. \A e : Raised(d, b.responses, Append(s.responses, e))
                = Append(Raised(d, b.responses, s.responses), Moved(e, d))
    <3>1. IsList(b.responses) /\ IsList(s.responses)
      BY <1>4
    <3> HIDE DEF r
    <3> QED
      BY <3>1, RaisedAppends
  <2>2. \A e : Raised(d, b.rules, Append(s.rules, e))
                = Append(Raised(d, b.rules, s.rules), Moved(e, d))
    <3>1. IsList(b.rules) /\ IsList(s.rules)
      BY <1>4
    <3> HIDE DEF r
    <3> QED
      BY <3>1, RaisedAppends
  <2> QED
    BY <1>1, <1>2, <2>1, <2>2
<1>6. /\ r.endpoints = Raised(d, b.endpoints, s.endpoints)
      /\ r.responses = Raised(d, b.responses, s.responses)
      /\ r.rules = Raised(d, b.rules, s.rules)
      /\ r.delays = Raised(d, b.delays, s.delays)
  BY DEF RaisedRepository
<1> HIDE DEF r
<1>7. RaisedRepository(d, b, t) = CreateRule(r, endpoint_id + d, request, n + d)
  BY <1>2, <1>3, <1>5, <1>6 DEF RaisedRepository
<1> QED
  BY <1>7 DEF t, r

\* The fields of moved records.
LEMMA MovedFields ==
  ASSUME NEW d
  PROVE  /\ \A e \in Endpoint :
              /\ Moved(e, d).id = e.id + d /\ Moved(e, d).project_id = e.project_id
              /\ Moved(e, d).path = e.path /\ Moved(e, d).method = e.method
              /\ Moved(e, d).is_active = e.is_active
         /\ \A e \in Response :
              /\ Moved(e, d).id = e.id + d /\ Moved(e, d).endpoint_id = e.endpoint_id + d
              /\ Moved(e, d).status_code = e.status_code
              /\ Moved(e, d).is_default = e.is_default /\ Moved(e, d).echo = e.echo
         /\ \A e \in Rule :
              /\ Moved(e, d).endpoint_id = e.endpoint_id + d
              /\ Moved(e, d).condition_type = e.condition_type /\ Moved(e, d).field = e.field
              /\ Moved(e, d).operator = e.operator /\ Moved(e, d).value = e.value
              /\ Moved(e, d).action = e.action + d
<1>1. \A e \in Endpoint :
        /\ Moved(e, d).id = e.id + d /\ Moved(e, d).project_id = e.project_id
        /\ Moved(e, d).path = e.path /\ Moved(e, d).method = e.method
        /\ Moved(e, d).is_active = e.is_active
  BY DEF Moved, Endpoint
<1>2. \A e \in Response :
        /\ Moved(e, d).id = e.id + d /\ Moved(e, d).endpoint_id = e.endpoint_id + d
        /\ Moved(e, d).status_code = e.status_code
        /\ Moved(e, d).is_default = e.is_default /\ Moved(e, d).echo = e.echo
  BY DEF Moved, Response
<1>3. \A e \in Rule :
        /\ Moved(e, d).endpoint_id = e.endpoint_id + d
        /\ Moved(e, d).condition_type = e.condition_type /\ Moved(e, d).field = e.field
        /\ Moved(e, d).operator = e.operator /\ Moved(e, d).value = e.value
        /\ Moved(e, d).action = e.action + d
  BY DEF Moved, Rule
<1> QED
  BY <1>1, <1>2, <1>3

DistinctSignatures ==
  \A i, j \in DOMAIN config.endpoints :
    /\ config.endpoints[i].endpoint.method = config.endpoints[j].endpoint.method
    /\ NormalizePath(config.endpoints[i].endpoint.path)
         = NormalizePath(config.endpoints[j].endpoint.path)
    => i = j

\* A live repository in which the project has no endpoint, and how much higher the
\* identifiers of a commit to it are than those of a sandbox run.
Vacant(live) == live \in Lives /\ ~ HasEndpoints(live.repo, Live)

Offset(live) == live.fresh - 1

LEMMA OffsetNat ==
  ASSUME NEW live, Vacant(live)
  PROVE  Offset(live) \in Nat /\ live.fresh = 1 + Offset(live)
BY LivesAssumption DEF Vacant, Offset, NoId

\* In such a project no endpoint takes the signature of the next one.
LEMMA SignatureFree ==
  ASSUME ConfigTyped, DistinctSignatures, NEW live, Vacant(live),
         NEW b, NEW n \in 1 .. Rounds(config), n <= Len(config.endpoints), Simulated(config, Live, b, n - 1)
  PROVE  ~ EndpointSignatureExists(RaisedRepository(Offset(live), live.repo, b.repo), Live,
                                   config.endpoints[n].endpoint.method,
                                   config.endpoints[n].endpoint.path)
<1> DEFINE d == Offset(live)
           g == config.endpoints[n].endpoint
           t == Raised(d, live.repo.endpoints, b.repo.endpoints)
<1>1. /\ live.repo.endpoints \in Seq(Endpoint)
      /\ \A i \in DOMAIN live.repo.endpoints : live.repo.endpoints[i].project_id # Live
  BY LivesAssumption DEF Vacant, RepositoryType, HasEndpoints
<1>2. /\ b.repo.endpoints \in Seq(Endpoint)
      /\ DOMAIN b.repo.endpoints = Seen(config, n - 1)
      /\ \A i \in Seen(config, n - 1) :
           /\ b.repo.endpoints[i].method = config.endpoints[i].endpoint.method
           /\ b.repo.endpoints[i].path = config.endpoints[i].endpoint.path
  BY DEF Simulated, Sound, RepositoryType
<1>3. n \in DOMAIN config.endpoints /\ Seen(config, n - 1) = 1 .. n - 1 /\ n \notin 1 .. n - 1
  BY TypedHere, RoundOfEndpoint
<1> HIDE DEF d, g
<1>4. ASSUME NEW i \in DOMAIN t
      PROVE  ~ SameSignature(t[i], Live, g.method, g.path)
  <2>1. /\ i \in DOMAIN live.repo.endpoints => t[i] = live.repo.endpoints[i]
        /\ i \in DOMAIN live.repo.endpoints
             \/ \E j \in DOMAIN b.repo.endpoints : t[i] = Moved(b.repo.endpoints[j], d)
    <3>1. Behind(t, live.repo.endpoints, b.repo.endpoints, d)
      BY <1>1, <1>2, RaisedBehind
    <3> HIDE DEF t
    <3> QED
      BY <3>1 DEF Behind
  <2> HIDE DEF t
  <2>2. CASE i \in DOMAIN live.repo.endpoints
    BY <1>1, <2>1, <2>2 DEF SameSignature
  <2>3. ASSUME NEW j \in DOMAIN b.repo.endpoints, t[i] = Moved(b.repo.endpoints[j], d)
        PROVE  ~ SameSignature(t[i], Live, g.method, g.path)
    <3>1. b.repo.endpoints[j] \in Endpoint
      BY <1>2, Elements
    <3>2. /\ t[i].method = config.endpoints[j].endpoint.method
          /\ t[i].path = config.endpoints[j].endpoint.path
      BY <1>2, <2>3, <3>1, MovedFields
    <3>3. j # n /\ j \in DOMAIN config.endpoints
      BY <1>2, <1>3 DEF Seen
    <3> QED
      BY <1>3, <3>2, <3>3 DEF SameSignature, DistinctSignatures, g
  <2> QED
    BY <2>1, <2>2, <2>3
<1>5. RaisedRepository(d, live.repo, b.repo).endpoints = t
  BY DEF RaisedRepository
<1> HIDE DEF t
<1> QED
  BY <1>4, <1>5 DEF EndpointSignatureExists, d, g

\* There, a round of commit builds what the round of the sandbox builds.
LEMMA RaisedRound ==
  ASSUME ConfigTyped, KeysKnown(config), DistinctSignatures, NEW live, Vacant(live),
         NEW b, NEW n \in 1 .. Rounds(config), Simulated(config, Live, b, n - 1)
  PROVE  CommitRound(RaisedBuild(Offset(live), live.repo, b), Live, config, n)
           = RaisedBuild(Offset(live), live.repo, SandboxRound(b, Live, config, n))
<1> DEFINE d == Offset(live)
           r == RaisedRepository(d, live.repo, b.repo)
           ids == [key \in DOMAIN b.ids |-> b.ids[key] + d]
           c == RaisedBuild(d, live.repo, b)
<1>1. /\ b.fresh \in Nat /\ d \in Nat /\ b.repo \in RepositoryType
      /\ live.repo \in RepositoryType
  BY LivesAssumption, OffsetNat DEF Simulated, Sound, Vacant
<1>2. c.repo = r /\ c.fresh = b.fresh + d /\ c.ids = ids
  BY DEF RaisedBuild, Build
<1> HIDE DEF c, r
<1>3. CASE n <= Len(config.endpoints)
  <2> DEFINE g == config.endpoints[n]
             t == CreateEndpoint(b.repo, Live, g.endpoint, b.fresh, b.fresh + 1)
  <2>1. ~ EndpointSignatureExists(r, Live, g.endpoint.method, g.endpoint.path)
    BY <1>3, SignatureFree DEF r
  <2> HIDE DEF g
  <2>2. CommitRound(c, Live, config, n)
          = Build(CreateEndpoint(r, Live, g.endpoint, b.fresh + d, (b.fresh + d) + 1),
                  (b.fresh + d) + 2, WithId(ids, g.key, b.fresh + d))
    <3> HIDE DEF ids, d
    <3> QED
      BY <1>2, <1>3, <2>1 DEF CommitRound, CommitEndpoint, AddEndpoint, g
  <2>3. SandboxRound(b, Live, config, n) = Build(t, b.fresh + 2, WithId(b.ids, g.key, b.fresh))
    BY <1>3 DEF SandboxRound, AddEndpoint, g
  <2>4. RaisedRepository(d, live.repo, t)
          = CreateEndpoint(r, Live, g.endpoint, b.fresh + d, (b.fresh + d) + 1)
    <3>1. (b.fresh + 1) + d = (b.fresh + d) + 1
      BY <1>1
    <3>2. RaisedRepository(d, live.repo, t)
            = CreateEndpoint(r, Live, g.endpoint, b.fresh + d, (b.fresh + 1) + d)
      <4> HIDE DEF d
      <4> QED
        BY <1>1, RaisedCreateEndpoint DEF r
    <3> QED
      BY <3>1, <3>2
  <2>5. WithId(ids, g.key, b.fresh + d)
          = [key \in DOMAIN WithId(b.ids, g.key, b.fresh) |->
               WithId(b.ids, g.key, b.fresh)[key] + d]
    <3> HIDE DEF d
    <3> QED
      BY DEF WithId
  <2>6. (b.fresh + d) + 2 = (b.fresh + 2) + d
    BY <1>1
  <2> HIDE DEF t, ids, d
  <2>7. RaisedBuild(d, live.repo, SandboxRound(b, Live, config, n))
          = Build(RaisedRepository(d, live.repo, t), (b.fresh + 2) + d,
                  [key \in DOMAIN WithId(b.ids, g.key, b.fresh) |->
                     WithId(b.ids, g.key, b.fresh)[key] + d])
    BY <2>3 DEF RaisedBuild, Build
  <2>8. CommitRound(c, Live, config, n)
          = RaisedBuild(d, live.repo, SandboxRound(b, Live, config, n))
    BY <2>2, <2>4, <2>5, <2>6, <2>7
  <2> QED
    BY <2>8 DEF c, d
<1>4. CASE ~ (n <= Len(config.endpoints))
  <2> DEFINE g == config.rules[n - Len(config.endpoints)]
             id == b.ids[g.endpoint_key]
             t == CreateRule(b.repo, id, g.rule, b.fresh)
  <2>1. g.endpoint_key \in DOMAIN b.ids
    BY <1>4, TypedHere, RoundOfRule DEF KeysKnown, EndpointKeys, Simulated
  <2> HIDE DEF g
  <2>2. g.endpoint_key \in DOMAIN ids /\ ids[g.endpoint_key] = id + d
    BY <2>1
  <2>3. CommitRound(c, Live, config, n)
          = Build(CreateRule(r, id + d, g.rule, b.fresh + d), (b.fresh + d) + 1, ids)
    <3> HIDE DEF ids, d, id
    <3> QED
      BY <1>2, <1>4, <2>2 DEF CommitRound, CommitRule, AddRule, g
  <2>4. SandboxRound(b, Live, config, n) = Build(t, b.fresh + 1, b.ids)
    BY <1>4 DEF SandboxRound, AddRule, g
  <2> HIDE DEF id
  <2>5. RaisedRepository(d, live.repo, t) = CreateRule(r, id + d, g.rule, b.fresh + d)
    <3> HIDE DEF d
    <3> QED
      BY <1>1, RaisedCreateRule DEF r
  <2>6. (b.fresh + d) + 1 = (b.fresh + 1) + d
    BY <1>1
  <2> HIDE DEF t, d
  <2>7. RaisedBuild(d, live.repo, SandboxRound(b, Live, config, n))
          = Build(RaisedRepository(d, live.repo, t), (b.fresh + 1) + d, ids)
    BY <2>4 DEF RaisedBuild, Build
  <2> HIDE DEF ids
  <2>8. CommitRound(c, Live, config, n)
          = RaisedBuild(d, live.repo, SandboxRound(b, Live, config, n))
    BY <2>3, <2>5, <2>6, <2>7
  <2> QED
    BY <2>8 DEF c, d
<1> QED
  BY <1>3, <1>4

\* Nothing raised above a list leaves the list.
LEMMA RaisedNothing ==
  ASSUME NEW B, NEW b \in Seq(B), NEW d
  PROVE  Raised(d, b, << >>) = b
<1> DEFINE t == Raised(d, b, << >>)
<1>1. Len(b) \in Nat /\ DOMAIN b = 1 .. Len(b) /\ b \in [1 .. Len(b) -> B]
  BY LenProperties
<1>2. Len(<< >>) = 0 /\ Len(b) + 0 = Len(b)
  BY <1>1
<1>3. DOMAIN t = DOMAIN b /\ t = [i \in DOMAIN t |-> t[i]]
  BY <1>1, <1>2 DEF Raised
<1>4. \A i \in DOMAIN b : t[i] = b[i]
  BY <1>1, <1>2 DEF Raised
<1> HIDE DEF t
<1>5. t = b
  BY <1>1, <1>3, <1>4
<1> QED
  BY <1>5 DEF t

LEMMA RaisedFirst ==
  ASSUME NEW live, Vacant(live)
  PROVE  RaisedBuild(Offset(live), live.repo, Build(EmptyRepository, 1, << >>))
           = Build(live.repo, live.fresh, << >>)
<1> DEFINE d == Offset(live)
           r == live.repo
           b == Build(EmptyRepository, 1, << >>)
<1>1. r \in RepositoryType
  BY LivesAssumption DEF Vacant
<1>2. live.fresh = 1 + d
  BY OffsetNat
<1> HIDE DEF d, r
<1>3. /\ Raised(d, r.endpoints, << >>) = r.endpoints
      /\ Raised(d, r.responses, << >>) = r.responses
      /\ Raised(d, r.rules, << >>) = r.rules
      /\ Raised(d, r.delays, << >>) = r.delays
  <2>1. /\ r.endpoints \in Seq(Endpoint) /\ r.responses \in Seq(Response)
        /\ r.rules \in Seq(Rule) /\ r.delays \in Seq(Delay)
    BY <1>1 DEF RepositoryType
  <2> QED
    BY <2>1, RaisedNothing
<1>4. /\ EmptyRepository.endpoints = << >> /\ EmptyRepository.responses = << >>
      /\ EmptyRepository.rules = << >> /\ EmptyRepository.delays = << >>
  BY DEF EmptyRepository
<1>5. RaisedRepository(d, r, EmptyRepository) = r
  <2>1. RaisedRepository(d, r, EmptyRepository)
          = [endpoints |-> r.endpoints, responses |-> r.responses, rules |-> r.rules,
             delays |-> r.delays]
    BY <1>3, <1>4 DEF RaisedRepository
  <2>2. r = [endpoints |-> r.endpoints, responses |-> r.responses, rules |-> r.rules,
             delays |-> r.delays]
    BY <1>1 DEF RepositoryType
  <2> QED
    BY <2>1, <2>2
<1>6. b.repo = EmptyRepository /\ b.fresh = 1 /\ b.ids = << >>
  BY DEF Build
<1> HIDE DEF b
<1>7. [key \in DOMAIN b.ids |-> b.ids[key] + d] = << >>
  BY <1>6
<1>8. RaisedBuild(d, r, b) = Build(r, 1 + d, << >>)
  BY <1>5, <1>6, <1>7 DEF RaisedBuild
<1> QED
  BY <1>2, <1>8 DEF b, d, r

\* What a commit builds in such a project is the sandbox repository, raised.
LEMMA CommitIsRaised ==
  ASSUME ConfigTyped, KeysKnown(config), UniqueSignatures(SandboxRepository(Live, config)),
         NEW live, Vacant(live)
  PROVE  \E b : /\ Simulated(config, Live, b, Rounds(config))
                /\ b.repo = SandboxRepository(Live, config)
                /\ Committed(live) = RaisedBuild(Offset(live), live.repo, b)
<1> DEFINE N == Rounds(config)
           d == Offset(live)
<1>1. N \in Nat
  BY TypedHere, RoundsNat
<1>2. PICK f : /\ SandboxRepository(Live, config) = f[N].repo
               /\ f[0] = Build(EmptyRepository, 1, << >>)
               /\ \A n \in 1 .. N : f[n] = SandboxRound(f[n - 1], Live, config, n)
  BY <1>1, SandboxRuns
<1>3. PICK g : /\ Committed(live) = g[N]
               /\ g[0] = Build(live.repo, live.fresh, << >>)
               /\ \A n \in 1 .. N : g[n] = CommitRound(g[n - 1], Live, config, n)
  <2> DEFINE r == live.repo
             fresh == live.fresh
  <2> HIDE DEF r, fresh
  <2>1. \E g : /\ Commit(r, fresh, Live, config) = g[N]
               /\ g[0] = Build(r, fresh, << >>)
               /\ \A n \in 1 .. N : g[n] = CommitRound(g[n - 1], Live, config, n)
    BY <1>1, CommitRuns
  <2> QED
    BY <2>1 DEF Committed, r, fresh
<1>4. \A n \in 1 .. N : n - 1 \in 0 .. N /\ ~ (n <= n - 1)
  BY <1>1
<1>5. \A n \in 0 .. N : Simulated(config, Live, f[n], n)
  <2> DEFINE bad == {n \in 0 .. N : ~ Simulated(config, Live, f[n], n)}
  <2> SUFFICES ASSUME bad # {}
               PROVE  FALSE
    OBVIOUS
  <2>1. PICK n \in bad : \A k \in bad : n <= k
    <3>1. bad \in SUBSET Nat
      BY <1>1
    <3> HIDE DEF bad
    <3> QED
      BY <3>1, LeastExists
  <2>2. n \in 0 .. N /\ ~ Simulated(config, Live, f[n], n)
    OBVIOUS
  <2>3. n # 0
    BY <1>2, <2>2, TypedHere, SimulatedFirst
  <2>4. n \in 1 .. N
    BY <1>1, <2>2, <2>3
  <2>5. Simulated(config, Live, f[n - 1], n - 1)
    BY <1>4, <2>1, <2>4
  <2>6. Simulated(config, Live, SandboxRound(f[n - 1], Live, config, n), n)
    BY <2>4, <2>5, TypedHere, SandboxRoundSimulated, LivesAssumption
  <2> QED
    BY <1>2, <2>2, <2>4, <2>6
<1>6. DistinctSignatures
  <2>1. Simulated(config, Live, f[N], N)
    BY <1>1, <1>5
  <2>2. Seen(config, N) = DOMAIN config.endpoints
    <3>1. \A x, y \in Nat : \A z \in 1 .. x : z <= x + y
      OBVIOUS
    <3> QED
      BY <3>1, TypedHere, Pieces DEF Seen, Rounds
  <2> QED
    BY <1>2, <2>1, <2>2 DEF Simulated, UniqueSignatures, SameSignature, DistinctSignatures
<1>7. \A n \in 0 .. N : g[n] = RaisedBuild(d, live.repo, f[n])
  <2> DEFINE bad == {n \in 0 .. N : g[n] # RaisedBuild(d, live.repo, f[n])}
  <2> SUFFICES ASSUME bad # {}
               PROVE  FALSE
    OBVIOUS
  <2>1. PICK n \in bad : \A k \in bad : n <= k
    <3>1. bad \in SUBSET Nat
      BY <1>1
    <3> HIDE DEF bad
    <3> QED
      BY <3>1, LeastExists
  <2>2. n \in 0 .. N /\ g[n] # RaisedBuild(d, live.repo, f[n])
    OBVIOUS
  <2>3. n # 0
    BY <1>2, <1>3, <2>2, RaisedFirst
  <2>4. n \in 1 .. N
    BY <1>1, <2>2, <2>3
  <2>5. g[n - 1] = RaisedBuild(d, live.repo, f[n - 1]) /\ Simulated(config, Live, f[n - 1], n - 1)
    BY <1>4, <1>5, <2>1, <2>4
  <2>6. CommitRound(RaisedBuild(d, live.repo, f[n - 1]), Live, config, n)
          = RaisedBuild(d, live.repo, SandboxRound(f[n - 1], Live, config, n))
    BY <1>6, <2>4, <2>5, RaisedRound
  <2> QED
    BY <1>2, <1>3, <2>2, <2>4, <2>5, <2>6
<1>8. N \in 0 .. N
  BY <1>1
<1> QED
  BY <1>2, <1>3, <1>5, <1>7, <1>8

\* The pipeline answers from the raised repository what it answers from the sandbox.

\* U has the positions of T, k later.
Later(U, T, k) == \A j : j \in U <=> \E i \in T : j = k + i

LEMMA LeastLater ==
  ASSUME NEW T \in SUBSET Nat, NEW U, NEW k \in Nat, Later(U, T, k)
  PROVE  /\ U = {} <=> T = {}
         /\ T # {} => LeastOf(T) \in T /\ LeastOf(U) = k + LeastOf(T)
<1>1. U = {} <=> T = {}
  BY DEF Later
<1>2. ASSUME T # {}
      PROVE  LeastOf(T) \in T /\ LeastOf(U) = k + LeastOf(T)
  <2> DEFINE x == LeastOf(T)
             y == LeastOf(U)
  <2>1. x \in T /\ \A i \in T : x <= i
    BY <1>2, LeastExists DEF LeastOf
  <2> HIDE DEF x
  <2>2. k + x \in U
    BY <2>1 DEF Later
  <2>3. U \in SUBSET Nat
    <3>1. \A j \in U : j \in Nat
      BY DEF Later
    <3> QED
      BY <3>1
  <2>4. y \in U /\ \A j \in U : y <= j
    BY <2>2, <2>3, LeastExists DEF LeastOf
  <2> HIDE DEF y
  <2>5. PICK i \in T : y = k + i
    BY <2>4 DEF Later
  <2>6. y <= k + x /\ x <= i /\ x \in Nat /\ i \in Nat
    BY <2>1, <2>2, <2>4
  <2>7. y = k + x
    BY <2>5, <2>6
  <2> QED
    BY <2>1, <2>7 DEF x, y
<1> QED
  BY <1>1, <1>2

\* Identifiers of a sound repository are below the fresh one, those of rules too.
LEMMA OwnersBelow ==
  ASSUME NEW r, NEW n \in Nat, Sound(r, n)
  PROVE  /\ \A i \in DOMAIN r.rules : r.rules[i].endpoint_id \in Nat /\ r.rules[i].endpoint_id < n
         /\ \A i \in DOMAIN r.responses :
              r.responses[i].endpoint_id \in Nat /\ r.responses[i].endpoint_id < n
<1>1. \A i \in DOMAIN r.responses :
        r.responses[i].endpoint_id \in Nat /\ r.responses[i].endpoint_id < n
  BY SoundIds
<1>2. \A i \in DOMAIN r.rules : HasTarget(r, r.rules[i])
  BY DEF Sound, Integral
<1> QED
  BY <1>1, <1>2 DEF HasTarget

\* The records of an endpoint in the raised repository are those of the sandbox.
LEMMA RecordsLater ==
  ASSUME NEW r, NEW n \in Nat, Sound(r, n + 1), NEW s \in RepositoryType,
         NEW id \in Nat, id # NoId
  PROVE  LET t == RaisedRepository(n, r, s)
         IN  /\ Later(GetRules(t, id + n), GetRules(s, id), Len(r.rules))
             /\ Later(GetResponses(t, id + n), GetResponses(s, id), Len(r.responses))
             /\ \A i \in GetRules(s, id) :
                  /\ s.rules[i] \in Rule
                  /\ t.rules[Len(r.rules) + i] = Moved(s.rules[i], n)
             /\ \A i \in GetResponses(s, id) :
                  /\ s.responses[i] \in Response
                  /\ t.responses[Len(r.responses) + i] = Moved(s.responses[i], n)
<1> DEFINE t == RaisedRepository(n, r, s)
<1>1. /\ r.rules \in Seq(Rule) /\ r.responses \in Seq(Response)
      /\ s.rules \in Seq(Rule) /\ s.responses \in Seq(Response)
  BY DEF Sound, RepositoryType
<1>2. t.rules = Raised(n, r.rules, s.rules) /\ t.responses = Raised(n, r.responses, s.responses)
  BY DEF RaisedRepository
<1> HIDE DEF t
<1>3. Behind(t.rules, r.rules, s.rules, n) /\ Behind(t.responses, r.responses, s.responses, n)
  <2>1. Behind(t.rules, r.rules, s.rules, n)
    BY <1>1, <1>2, RaisedBehind
  <2>2. Behind(t.responses, r.responses, s.responses, n)
    BY <1>1, <1>2, RaisedBehind
  <2> QED
    BY <2>1, <2>2
<1>4. /\ \A i \in DOMAIN s.rules : s.rules[i] \in Rule
      /\ \A i \in DOMAIN s.responses : s.responses[i] \in Response
  BY <1>1, Elements
<1>5. /\ \A i \in DOMAIN r.rules : r.rules[i].endpoint_id # id + n
      /\ \A i \in DOMAIN r.responses : r.responses[i].endpoint_id # id + n
  <2>1. \A x \in Nat : x < n + 1 => x # id + n
    BY DEF NoId
  <2>2. n + 1 \in Nat
    OBVIOUS
  <2> QED
    BY <2>1, <2>2, OwnersBelow
<1>6. \A x \in Nat : x + n = id + n <=> x = id
  OBVIOUS
<1>7. /\ \A i \in DOMAIN s.rules : Moved(s.rules[i], n).endpoint_id = id + n
                                   <=> s.rules[i].endpoint_id = id
      /\ \A i \in DOMAIN s.responses : Moved(s.responses[i], n).endpoint_id = id + n
                                       <=> s.responses[i].endpoint_id = id
  <2>1. /\ \A i \in DOMAIN s.rules : s.rules[i].endpoint_id \in Nat
        /\ \A i \in DOMAIN s.responses : s.responses[i].endpoint_id \in Nat
    BY <1>4 DEF Rule, Response
  <2>2. /\ \A i \in DOMAIN s.rules :
             Moved(s.rules[i], n).endpoint_id = s.rules[i].endpoint_id + n
        /\ \A i \in DOMAIN s.responses :
             Moved(s.responses[i], n).endpoint_id = s.responses[i].endpoint_id + n
    BY <1>4, MovedFields
  <2> QED
    BY <1>6, <2>1, <2>2
<1>8. Later(GetRules(t, id + n), GetRules(s, id), Len(r.rules))
  BY <1>3, <1>5, <1>7 DEF Later, GetRules, Behind
<1>9. Later(GetResponses(t, id + n), GetResponses(s, id), Len(r.responses))
  BY <1>3, <1>5, <1>7 DEF Later, GetResponses, Behind
<1>10. /\ \A i \in GetRules(s, id) :
            /\ s.rules[i] \in Rule
            /\ t.rules[Len(r.rules) + i] = Moved(s.rules[i], n)
       /\ \A i \in GetResponses(s, id) :
            /\ s.responses[i] \in Response
            /\ t.responses[Len(r.responses) + i] = Moved(s.responses[i], n)
  BY <1>3, <1>4 DEF GetRules, GetResponses, Behind
<1> QED
  BY <1>8, <1>9, <1>10 DEF t

LEMMA SameOutcome ==
  ASSUME NEW rule \in Rule, NEW d, NEW ctx, NEW params
  PROVE  Outcome(Moved(rule, d), ctx, params) = Outcome(rule, ctx, params)
BY MovedFields DEF Outcome, ExtractValue

\* The same rule decides, and its action is that much higher.
ActionsAlike(action, moved, n) ==
  \/ action = NoId /\ moved = NoId
  \/ action \in Nat /\ moved = action + n

LEMMA RulesAlike ==
  ASSUME NEW r, NEW n \in Nat, Sound(r, n + 1), NEW s \in RepositoryType,
         NEW id \in Nat, id # NoId, NEW ctx, NEW params
  PROVE  LET t == RaisedRepository(n, r, s)
         IN  /\ Raises(t.rules, GetRules(t, id + n), ctx, params)
                  <=> Raises(s.rules, GetRules(s, id), ctx, params)
             /\ ActionsAlike(RuleAction(s, id, ctx, params), RuleAction(t, id + n, ctx, params), n)
<1> DEFINE t == RaisedRepository(n, r, s)
           k == Len(r.rules)
           T == {i \in GetRules(s, id) : Outcome(s.rules[i], ctx, params) # "no"}
           U == {i \in GetRules(t, id + n) : Outcome(t.rules[i], ctx, params) # "no"}
           i == FirstDecisive(s.rules, GetRules(s, id), ctx, params)
           j == FirstDecisive(t.rules, GetRules(t, id + n), ctx, params)
<1>1. /\ Later(GetRules(t, id + n), GetRules(s, id), k)
      /\ \A m \in GetRules(s, id) :
           s.rules[m] \in Rule /\ t.rules[k + m] = Moved(s.rules[m], n)
  BY RecordsLater
<1>2. /\ i = IF T = {} THEN NoRule ELSE LeastOf(T)
      /\ j = IF U = {} THEN NoRule ELSE LeastOf(U)
  BY DEF FirstDecisive, LeastOf
<1>3. /\ Raises(s.rules, GetRules(s, id), ctx, params)
           <=> i # NoRule /\ Outcome(s.rules[i], ctx, params) = "raise"
      /\ Raises(t.rules, GetRules(t, id + n), ctx, params)
           <=> j # NoRule /\ Outcome(t.rules[j], ctx, params) = "raise"
      /\ RuleAction(s, id, ctx, params) = IF i = NoRule THEN NoId ELSE s.rules[i].action
      /\ RuleAction(t, id + n, ctx, params) = IF j = NoRule THEN NoId ELSE t.rules[j].action
  BY DEF Raises, RuleAction
<1>4. /\ GetRules(s, id) \in SUBSET Nat /\ 0 \notin GetRules(s, id)
      /\ k \in Nat
  <2>1. DOMAIN s.rules = 1 .. Len(s.rules)
    BY LenProperties DEF RepositoryType
  <2>2. k \in Nat
    BY LenProperties DEF Sound, RepositoryType
  <2> QED
    BY <2>1, <2>2 DEF GetRules
<1> HIDE DEF t, k, i, j
<1>5. \A m \in GetRules(s, id) :
        Outcome(t.rules[k + m], ctx, params) = Outcome(s.rules[m], ctx, params)
  BY <1>1, SameOutcome
<1>6. Later(U, T, k)
  BY <1>1, <1>5 DEF Later
<1>7. T \in SUBSET Nat /\ T \subseteq GetRules(s, id)
  BY <1>4
<1> HIDE DEF T, U
<1>8. CASE T = {}
  <2>1. i = NoRule /\ j = NoRule
    BY <1>2, <1>4, <1>6, <1>7, <1>8, LeastLater
  <2> QED
    BY <1>3, <2>1 DEF ActionsAlike, t
<1>9. CASE T # {}
  <2>1. i \in GetRules(s, id) /\ j = k + i
    BY <1>2, <1>4, <1>6, <1>7, <1>9, LeastLater
  <2>2. i # NoRule /\ j # NoRule
    BY <1>4, <2>1 DEF NoRule
  <2>3. /\ t.rules[j].action = s.rules[i].action + n /\ s.rules[i].action \in Nat
        /\ Outcome(t.rules[j], ctx, params) = Outcome(s.rules[i], ctx, params)
    BY <1>1, <1>5, <2>1, MovedFields DEF Rule
  <2> QED
    BY <1>3, <2>2, <2>3 DEF ActionsAlike, t
<1> QED
  BY <1>8, <1>9

\* The same response is selected.
LEMMA SelectAlike ==
  ASSUME NEW r, NEW n \in Nat, Sound(r, n + 1), NEW s \in RepositoryType,
         \A i \in DOMAIN s.responses : s.responses[i].id # NoId,
         NEW id \in Nat, id # NoId, NEW action, NEW moved, ActionsAlike(action, moved, n)
  PROVE  Select(RaisedRepository(n, r, s), id + n, moved) = Select(s, id, action)
<1> DEFINE t == RaisedRepository(n, r, s)
           k == Len(r.responses)
           own == GetResponses(s, id)
           there == GetResponses(t, id + n)
           named == {i \in own : s.responses[i].id = action}
           defaults == {i \in own : s.responses[i].is_default}
           named_there == {i \in there : t.responses[i].id = moved}
           defaults_there == {i \in there : t.responses[i].is_default}
           chosen == LeastOf(IF named # {} THEN named ELSE defaults)
           chosen_there == LeastOf(IF named_there # {} THEN named_there ELSE defaults_there)
<1>1. /\ Later(there, own, k)
      /\ \A i \in own : /\ s.responses[i] \in Response
                       /\ t.responses[k + i] = Moved(s.responses[i], n)
  BY RecordsLater
<1>2. /\ Select(s, id, action)
           = IF named = {} /\ defaults = {} THEN Selected(Unconfigured, FALSE)
             ELSE Selected(s.responses[chosen].status_code, s.responses[chosen].echo)
      /\ Select(t, id + n, moved)
           = IF named_there = {} /\ defaults_there = {} THEN Selected(Unconfigured, FALSE)
             ELSE Selected(t.responses[chosen_there].status_code,
                           t.responses[chosen_there].echo)
  BY DEF Select
<1>3. own \in SUBSET Nat /\ k \in Nat /\ own \subseteq DOMAIN s.responses
  <2>1. DOMAIN s.responses = 1 .. Len(s.responses)
    BY LenProperties DEF RepositoryType
  <2>2. k \in Nat
    BY LenProperties DEF Sound, RepositoryType
  <2> QED
    BY <2>1, <2>2 DEF GetResponses
<1> HIDE DEF t, k, own, there
<1>4. \A i \in own :
        /\ t.responses[k + i].id = moved <=> s.responses[i].id = action
        /\ t.responses[k + i].is_default = s.responses[i].is_default
        /\ t.responses[k + i].status_code = s.responses[i].status_code
        /\ t.responses[k + i].echo = s.responses[i].echo
  <2> SUFFICES ASSUME NEW i \in own
               PROVE  /\ t.responses[k + i].id = moved <=> s.responses[i].id = action
                      /\ t.responses[k + i].is_default = s.responses[i].is_default
                      /\ t.responses[k + i].status_code = s.responses[i].status_code
                      /\ t.responses[k + i].echo = s.responses[i].echo
    OBVIOUS
  <2>1. /\ t.responses[k + i].id = s.responses[i].id + n
        /\ t.responses[k + i].is_default = s.responses[i].is_default
        /\ t.responses[k + i].status_code = s.responses[i].status_code
        /\ t.responses[k + i].echo = s.responses[i].echo
    BY <1>1, MovedFields
  <2>2. s.responses[i].id \in Nat /\ s.responses[i].id # NoId
    BY <1>1, <1>3 DEF Response
  <2>3. \A x \in Nat : x # NoId => (x + n = moved <=> x = action)
    BY DEF ActionsAlike, NoId
  <2> QED
    BY <2>1, <2>2, <2>3
<1>5. Later(named_there, named, k) /\ Later(defaults_there, defaults, k)
  BY <1>1, <1>4 DEF Later
<1>6. named \in SUBSET Nat /\ defaults \in SUBSET Nat /\ named \subseteq own /\ defaults \subseteq own
  BY <1>3
<1> HIDE DEF named, defaults, named_there, defaults_there
<1>7. /\ named_there = {} <=> named = {}
      /\ defaults_there = {} <=> defaults = {}
      /\ named # {} => LeastOf(named) \in own /\ LeastOf(named_there) = k + LeastOf(named)
      /\ defaults # {} => /\ LeastOf(defaults) \in own
                          /\ LeastOf(defaults_there) = k + LeastOf(defaults)
  BY <1>3, <1>5, <1>6, LeastLater
<1>8. CASE named = {} /\ defaults = {}
  BY <1>2, <1>7, <1>8 DEF t
<1>9. CASE ~ (named = {} /\ defaults = {})
  <2>1. chosen \in own /\ chosen_there = k + chosen
    BY <1>7, <1>9
  <2> HIDE DEF chosen, chosen_there
  <2> QED
    BY <1>2, <1>4, <1>7, <1>9, <2>1 DEF t
<1> QED
  BY <1>8, <1>9

\* The same endpoint is found.
LEMMA MatchAlike ==
  ASSUME NEW live, Vacant(live), NEW s \in RepositoryType, NEW method, NEW path \in Paths
  PROVE  LET t == RaisedRepository(Offset(live), live.repo, s)
             i == Match(s.endpoints, GetActiveEndpoints(s, Live), method, path)
             j == Match(t.endpoints, GetActiveEndpoints(t, Live), method, path)
         IN  \/ i = NoMatch /\ j = NoMatch
             \/ /\ i # NoMatch /\ j # NoMatch /\ i \in DOMAIN s.endpoints
                /\ t.endpoints[j] = Moved(s.endpoints[i], Offset(live))
<1> DEFINE n == Offset(live)
           b == live.repo.endpoints
           e == s.endpoints
           t == Raised(n, b, e)
           k == Len(b)
           here == GetActiveEndpoints(s, Live)
           there == {i \in DOMAIN t : t[i].project_id = Live /\ t[i].is_active}
           i == Match(e, here, method, path)
           j == Match(t, there, method, path)
           T == Candidates(e, here, method, path)
           U == Candidates(t, there, method, path)
<1>1. /\ b \in Seq(Endpoint) /\ \A m \in DOMAIN b : b[m].project_id # Live
      /\ e \in Seq(Endpoint)
  BY LivesAssumption DEF Vacant, RepositoryType, HasEndpoints
<1>2. /\ RaisedRepository(n, live.repo, s).endpoints = t
      /\ GetActiveEndpoints(RaisedRepository(n, live.repo, s), Live) = there
      /\ here = {m \in DOMAIN e : e[m].project_id = Live /\ e[m].is_active}
  BY DEF RaisedRepository, GetActiveEndpoints
<1> HIDE DEF n, b, e, here
<1>3. Behind(t, b, e, n)
  BY <1>1, RaisedBehind
<1>4. /\ DOMAIN e = 1 .. Len(e) /\ k \in Nat /\ DOMAIN b = 1 .. k /\ DOMAIN t = 1 .. k + Len(e)
      /\ Len(e) \in Nat
  BY <1>1, LenProperties, RaisedList
<1> HIDE DEF t
<1>5. /\ \A m \in DOMAIN e : e[m] \in Endpoint
      /\ \A m \in DOMAIN b : b[m] \in Endpoint
  BY <1>1, Elements
<1>6. \A m \in DOMAIN e :
        /\ t[k + m].project_id = e[m].project_id /\ t[k + m].path = e[m].path
        /\ t[k + m].method = e[m].method /\ t[k + m].is_active = e[m].is_active
  BY <1>3, <1>5, MovedFields DEF Behind
<1>7. (\A m \in DOMAIN e : e[m].path \in Paths) /\ (\A m \in DOMAIN t : t[m].path \in Paths)
  <2>1. /\ \A m \in DOMAIN e : e[m].path \in Paths
        /\ \A m \in DOMAIN b : b[m].path \in Paths
    BY <1>5 DEF Endpoint
  <2> QED
    BY <1>3, <1>6, <2>1 DEF Behind
<1>8. /\ here \in SUBSET Nat /\ here \subseteq DOMAIN e /\ 0 \notin here
      /\ there \in SUBSET Nat /\ there \subseteq DOMAIN t /\ 0 \notin there
  BY <1>2, <1>4
<1>9. Later(there, here, k)
  <2>1. /\ \A m \in DOMAIN b : t[m] = b[m]
        /\ \A m \in DOMAIN e : k + m \in DOMAIN t
        /\ \A m \in DOMAIN t : m \in DOMAIN b \/ \E l \in DOMAIN e : m = k + l
    BY <1>3 DEF Behind
  <2> HIDE DEF k
  <2>2. \A m \in DOMAIN e : k + m \in there <=> m \in here
    BY <1>2, <1>6, <2>1
  <2>3. \A m \in there : \E l \in DOMAIN e : m = k + l
    BY <1>1, <2>1
  <2> HIDE DEF there
  <2> QED
    BY <1>8, <2>2, <2>3 DEF Later
<1> HIDE DEF there, k
<1>10. Later(U, T, k) /\ T \subseteq here
  <2>1. \A m \in here : m \in T <=> k + m \in U
    BY <1>6, <1>8, <1>9 DEF Candidates, Later
  <2>2. U \subseteq there /\ T \subseteq here
    BY DEF Candidates
  <2> HIDE DEF T, U
  <2> QED
    BY <1>9, <2>1, <2>2 DEF Later
<1>11. /\ T = {} => i = NoMatch
       /\ T # {} => i \in T /\ i # NoMatch /\ \A m \in T : Preferred(e, i, m)
  BY <1>7, <1>8, MatchIsPreferred
<1>12. /\ U = {} => j = NoMatch
       /\ U # {} => j \in U /\ j # NoMatch /\ \A m \in U : Preferred(t, j, m)
  BY <1>7, <1>8, MatchIsPreferred
<1> HIDE DEF i, j, T, U
<1>13. CASE T = {}
  <2>1. U = {}
    BY <1>10, <1>13 DEF Later
  <2> QED
    BY <1>2, <1>11, <1>12, <1>13, <2>1 DEF i, j, e, n, here
<1>14. CASE T # {}
  <2>1. i \in T /\ i # NoMatch /\ k + i \in U
    BY <1>10, <1>11, <1>14 DEF Later
  <2>2. j \in U /\ j # NoMatch /\ Preferred(t, j, k + i)
    BY <1>12, <2>1
  <2>3. PICK m \in T : j = k + m
    BY <1>10, <2>2 DEF Later
  <2>4. Preferred(e, i, m)
    BY <1>11, <1>14
  <2>5. i \in DOMAIN e /\ m \in DOMAIN e /\ i \in Nat /\ m \in Nat
    BY <1>8, <1>10, <2>1
  <2> DEFINE x == StaticCount(SplitPath(e[i].path))
             y == StaticCount(SplitPath(e[m].path))
  <2>6. x \in Nat /\ y \in Nat
    BY <1>7, <2>5, SplitPathLength
  <2>7. x > y \/ (x = y /\ i <= m)
    BY <2>4 DEF Preferred
  <2>8. y > x \/ (y = x /\ k + m <= k + i)
    BY <1>6, <2>2, <2>3, <2>5 DEF Preferred
  <2> HIDE DEF x, y
  <2>9. i = m
    BY <1>4, <2>5, <2>6, <2>7, <2>8 DEF k
  <2>10. t[j] = Moved(e[i], n)
    BY <1>3, <2>3, <2>5, <2>9 DEF Behind, k
  <2> QED
    BY <1>2, <2>1, <2>2, <2>5, <2>10 DEF i, j, e, n, here
<1> QED
  BY <1>13, <1>14

LEMMA AnswersAlike ==
  ASSUME NEW live, Vacant(live), NEW b, NEW m, Simulated(config, Live, b, m), NEW ctx, ctx.path \in Paths
  PROVE  Resolve(RaisedRepository(Offset(live), live.repo, b.repo), Live, ctx).selected
           = Resolve(b.repo, Live, ctx).selected
<1> DEFINE n == Offset(live)
           r == live.repo
           s == b.repo
           t == RaisedRepository(n, r, s)
           i == Match(s.endpoints, GetActiveEndpoints(s, Live), ctx.method, ctx.path)
           j == Match(t.endpoints, GetActiveEndpoints(t, Live), ctx.method, ctx.path)
<1>1. /\ s \in RepositoryType
      /\ \A l \in DOMAIN s.endpoints : s.endpoints[l].id # NoId
      /\ \A l \in DOMAIN s.responses : s.responses[l].id # NoId
  BY DEF Simulated, Sound
<1>2. n \in Nat /\ Sound(r, n + 1)
  <2>1. n \in Nat /\ live.fresh = n + 1
    <3>1. n \in Nat /\ live.fresh = 1 + n
      BY OffsetNat
    <3> HIDE DEF n
    <3> QED
      BY <3>1
  <2>2. Sound(r, live.fresh)
    BY LivesAssumption DEF Vacant, Sound
  <2> HIDE DEF n
  <2> QED
    BY <2>1, <2>2
<1>3. \/ i = NoMatch /\ j = NoMatch
      \/ /\ i # NoMatch /\ j # NoMatch /\ i \in DOMAIN s.endpoints
         /\ t.endpoints[j] = Moved(s.endpoints[i], n)
  BY <1>1, MatchAlike
<1>4. /\ i = NoMatch => Resolve(s, Live, ctx).selected = Selected(NotFound, FALSE)
      /\ i # NoMatch => Resolve(s, Live, ctx).selected = SelectedFor(s, s.endpoints[i], ctx)
  <2> HIDE DEF s
  <2> QED
    BY ResolveSelected
<1>5. /\ j = NoMatch => Resolve(t, Live, ctx).selected = Selected(NotFound, FALSE)
      /\ j # NoMatch => Resolve(t, Live, ctx).selected = SelectedFor(t, t.endpoints[j], ctx)
  <2> HIDE DEF t
  <2> QED
    BY ResolveSelected
<1> HIDE DEF i, j, n, r, s
<1>6. CASE i = NoMatch /\ j = NoMatch
  BY <1>4, <1>5, <1>6 DEF n, r, s
<1>7. CASE /\ i # NoMatch /\ j # NoMatch /\ i \in DOMAIN s.endpoints
           /\ t.endpoints[j] = Moved(s.endpoints[i], n)
  <2> DEFINE e == s.endpoints[i]
             g == Moved(e, n)
             params == PathParams(SplitPath(e.path), SplitPath(ctx.path))
  <2>1. e \in Endpoint /\ e.id # NoId
    <3>1. s.endpoints \in Seq(Endpoint)
      BY <1>1 DEF RepositoryType
    <3> QED
      BY <1>1, <1>7, <3>1, Elements
  <2>2. g.id = e.id + n /\ g.path = e.path /\ e.id \in Nat
    <3> HIDE DEF e
    <3> QED
      BY <2>1, MovedFields DEF Endpoint
  <2> HIDE DEF e, g, params
  <2>3. /\ Raises(t.rules, GetRules(t, g.id), ctx, params)
             <=> Raises(s.rules, GetRules(s, e.id), ctx, params)
        /\ ActionsAlike(RuleAction(s, e.id, ctx, params), RuleAction(t, g.id, ctx, params), n)
    BY <1>1, <1>2, <2>1, <2>2, RulesAlike
  <2>4. Select(t, g.id, RuleAction(t, g.id, ctx, params))
          = Select(s, e.id, RuleAction(s, e.id, ctx, params))
    BY <1>1, <1>2, <2>1, <2>2, <2>3, SelectAlike
  <2> HIDE DEF t
  <2>5. SelectedFor(t, g, ctx) = SelectedFor(s, e, ctx)
    BY <2>2, <2>3, <2>4 DEF SelectedFor, params
  <2> QED
    BY <1>4, <1>5, <1>7, <2>5 DEF e, g, t, n, r, s
<1> QED
  BY <1>3, <1>6, <1>7

\* What passed the sandbox with distinct signatures answers its scenarios in a live
\* project without endpoints: commit builds there what the sandbox built, with higher
\* identifiers, and neither the records of other projects nor the identifiers matter.
THEOREM CommittedAsSimulatedHolds == Spec => []CommittedAsSimulated
<1>1. ASSUME ConfigTyped
      PROVE  CommittedAsSimulated
  <2> SUFFICES ASSUME SandboxResult(Live, config) = "passed",
                      UniqueSignatures(SandboxRepository(Live, config)),
                      NEW live \in Lives, ~ HasEndpoints(live.repo, Live),
                      NEW i \in DOMAIN config.scenarios
               PROVE  CasePassed(Committed(live).repo, Live, config.scenarios[i])
    BY DEF CommittedAsSimulated
  <2>1. KeysKnown(config) /\ CasePassed(SandboxRepository(Live, config), Live, config.scenarios[i])
    BY DEF SandboxResult, KeysKnown
  <2>2. Vacant(live)
    BY DEF Vacant
  <2>3. PICK b : /\ Simulated(config, Live, b, Rounds(config))
                 /\ b.repo = SandboxRepository(Live, config)
                 /\ Committed(live) = RaisedBuild(Offset(live), live.repo, b)
    BY <1>1, <2>1, <2>2, CommitIsRaised
  <2>4. Committed(live).repo = RaisedRepository(Offset(live), live.repo, b.repo)
    BY <2>3 DEF RaisedBuild, Build
  <2> DEFINE scenario == config.scenarios[i]
             ctx == ScenarioContext(scenario)
  <2>5. ctx.path \in Paths
    <3>1. scenario \in Scenarios
      BY <1>1, Elements DEF ConfigTyped
    <3> QED
      BY <3>1, PiecesAssumption DEF ScenarioContext
  <2> HIDE DEF scenario, ctx
  <2>6. Resolve(Committed(live).repo, Live, ctx).selected = Resolve(b.repo, Live, ctx).selected
    BY <2>2, <2>3, <2>4, <2>5, AnswersAlike
  <2>7. CasePassed(b.repo, Live, scenario) <=> CasePassed(Committed(live).repo, Live, scenario)
    BY <2>6 DEF CasePassed, Answer, ctx
  <2> QED
    BY <2>1, <2>3, <2>7 DEF scenario
<1> QED
  BY <1>1, ConfigTypedHolds, PTL

--------------------------------------------------------------------------------
\* A commit and a sandbox run in step: whatever a project has already, the endpoints
\* that commit creates get the rules their twins in the sandbox get.

\* What the rules of an endpoint decide, and the response that is selected then.
Decision(r, id, ctx, params) ==
  LET i == FirstDecisive(r.rules, GetRules(r, id), ctx, params)
  IN  IF i = NoRule THEN [outcome |-> "no", selected |-> Select(r, id, NoId)]
      ELSE [outcome |-> Outcome(r.rules[i], ctx, params),
            selected |-> Select(r, id, r.rules[i].action)]

\* That decision, with one more rule behind the others.
Behindmost(before, request, ctx, params) ==
  IF before.outcome # "no" \/ Outcome(request, ctx, params) = "no" THEN before
  ELSE [outcome |-> Outcome(request, ctx, params),
        selected |-> Selected(request.status_code, request.echo)]

\* The decision and the delay are what resolve makes of an endpoint.
LEMMA ResolvedByDecision ==
  ASSUME NEW r, NEW endpoint, NEW ctx
  PROVE  LET params == PathParams(SplitPath(endpoint.path), SplitPath(ctx.path))
             decision == Decision(r, endpoint.id, ctx, params)
             delay == DelayStep(r, endpoint.id)
         IN  /\ ResolveMatched(r, endpoint, ctx).step
                  = IF decision.outcome = "raise" THEN "raise"
                    ELSE IF delay = "none" THEN "render" ELSE delay
             /\ ResolveMatched(r, endpoint, ctx).selected
                  = IF decision.outcome = "raise" THEN Selected(NotFound, FALSE)
                    ELSE decision.selected
<1> DEFINE id == endpoint.id
           params == PathParams(SplitPath(endpoint.path), SplitPath(ctx.path))
           decision == Decision(r, id, ctx, params)
           delay == DelayStep(r, id)
           i == FirstDecisive(r.rules, GetRules(r, id), ctx, params)
           missing == Selected(NotFound, FALSE)
           step == IF delay = "none" THEN "render" ELSE delay
           chosen == Select(r, id, RuleAction(r, id, ctx, params))
<1>1. ResolveMatched(r, endpoint, ctx)
        = IF Raises(r.rules, GetRules(r, id), ctx, params) THEN Resolution("raise", id, missing)
          ELSE Resolution(step, id, chosen)
  BY DEF ResolveMatched
<1> HIDE DEF params
<1>2. Raises(r.rules, GetRules(r, id), ctx, params) <=> decision.outcome = "raise"
  BY DEF Raises, Decision
<1>3. decision.selected = chosen
  BY DEF Decision, RuleAction
<1> HIDE DEF decision, step, chosen, missing, delay
<1>4. /\ ResolveMatched(r, endpoint, ctx).step
           = IF decision.outcome = "raise" THEN "raise" ELSE step
      /\ ResolveMatched(r, endpoint, ctx).selected
           = IF decision.outcome = "raise" THEN missing ELSE decision.selected
  BY <1>1, <1>2, <1>3, ResolutionFields
<1> QED
  BY <1>4 DEF decision, step, missing, delay, params

\* The first decisive rule of a list is one of those asked for and decides; there
\* is none when every one of them says no.
LEMMA FirstIsDecisive ==
  ASSUME NEW R, NEW rules \in Seq(R), NEW mine \in SUBSET DOMAIN rules, NEW ctx, NEW params
  PROVE  LET i == FirstDecisive(rules, mine, ctx, params)
         IN  /\ i = NoRule <=> \A m \in mine : Outcome(rules[m], ctx, params) = "no"
             /\ i # NoRule => /\ i \in mine
                              /\ Outcome(rules[i], ctx, params) # "no"
                              /\ \A m \in mine :
                                   Outcome(rules[m], ctx, params) # "no" => i <= m
<1> DEFINE T == {m \in mine : Outcome(rules[m], ctx, params) # "no"}
           i == FirstDecisive(rules, mine, ctx, params)
<1>1. i = IF T = {} THEN NoRule ELSE CHOOSE m \in T : \A k \in T : m <= k
  BY DEF FirstDecisive
<1>2. T \in SUBSET Nat /\ 0 \notin T
  BY LenProperties
<1>3. T # {} => i \in T /\ \A k \in T : i <= k
  <2> HIDE DEF T
  <2> QED
    BY <1>1, <1>2, LeastExists
<1>4. T # {} => i # NoRule
  BY <1>2, <1>3 DEF NoRule
<1> QED
  BY <1>1, <1>3, <1>4

LEMMA FirstOfEndpoint ==
  ASSUME NEW r, r.rules \in Seq(Rule), NEW id, NEW ctx, NEW params
  PROVE  LET i == FirstDecisive(r.rules, GetRules(r, id), ctx, params)
         IN  /\ i = NoRule <=> \A m \in GetRules(r, id) : Outcome(r.rules[m], ctx, params) = "no"
             /\ i # NoRule => /\ i \in GetRules(r, id)
                              /\ Outcome(r.rules[i], ctx, params) # "no"
                              /\ \A m \in GetRules(r, id) :
                                   Outcome(r.rules[m], ctx, params) # "no" => i <= m
<1> DEFINE rules == r.rules
           mine == GetRules(r, id)
<1>1. rules \in Seq(Rule) /\ mine \in SUBSET DOMAIN rules
  BY DEF GetRules
<1> HIDE DEF rules, mine
<1>2. LET i == FirstDecisive(rules, mine, ctx, params)
      IN  /\ i = NoRule <=> \A m \in mine : Outcome(rules[m], ctx, params) = "no"
          /\ i # NoRule => /\ i \in mine
                           /\ Outcome(rules[i], ctx, params) # "no"
                           /\ \A m \in mine : Outcome(rules[m], ctx, params) # "no" => i <= m
  BY <1>1, FirstIsDecisive
<1> QED
  BY <1>2 DEF rules, mine

\* A response that is added changes what is selected only where the rule names it, or
\* for an endpoint whose default it is.
LEMMA SelectKept ==
  ASSUME NEW r, r.responses \in Seq(Response), NEW t, NEW response,
         Extends(t.responses, r.responses, response), NEW id, NEW action,
         response.endpoint_id # id \/ (~ response.is_default /\ response.id # action)
  PROVE  Select(t, id, action) = Select(r, id, action)
<1> DEFINE named == {i \in GetResponses(r, id) : r.responses[i].id = action}
           defaults == {i \in GetResponses(r, id) : r.responses[i].is_default}
           T == IF named # {} THEN named ELSE defaults
           named_there == {i \in GetResponses(t, id) : t.responses[i].id = action}
           defaults_there == {i \in GetResponses(t, id) : t.responses[i].is_default}
           U == IF named_there # {} THEN named_there ELSE defaults_there
<1>1. named_there = named /\ defaults_there = defaults
  BY DEF Extends, GetResponses
<1>2. named \subseteq DOMAIN r.responses /\ defaults \subseteq DOMAIN r.responses
  BY DEF GetResponses
<1>3. /\ Select(r, id, action)
           = IF named = {} /\ defaults = {} THEN Selected(Unconfigured, FALSE)
             ELSE Selected(r.responses[LeastOf(T)].status_code, r.responses[LeastOf(T)].echo)
      /\ Select(t, id, action)
           = IF named_there = {} /\ defaults_there = {} THEN Selected(Unconfigured, FALSE)
             ELSE Selected(t.responses[LeastOf(U)].status_code, t.responses[LeastOf(U)].echo)
  BY DEF Select
<1> HIDE DEF named, defaults, named_there, defaults_there
<1>4. U = T
  BY <1>1
<1>5. CASE named = {} /\ defaults = {}
  BY <1>1, <1>3, <1>5
<1>6. CASE ~ (named = {} /\ defaults = {})
  <2>1. T # {} /\ T \in SUBSET DOMAIN r.responses
    BY <1>2, <1>6
  <2> HIDE DEF T, U
  <2>2. LeastOf(T) \in DOMAIN r.responses
    BY <2>1, LeastOfIn
  <2>3. t.responses[LeastOf(T)] = r.responses[LeastOf(T)]
    BY <2>2 DEF Extends
  <2> QED
    BY <1>1, <1>3, <1>4, <1>6, <2>3
<1> QED
  BY <1>5, <1>6

\* What a response that is added brings: an identifier that a rule names and that no
\* other response has, or the only response of its endpoint.
Named(r, response, action) ==
  response.id = action /\ \A i \in DOMAIN r.responses : r.responses[i].id # action

Only(r, response, id) ==
  response.is_default /\ \A i \in DOMAIN r.responses : r.responses[i].endpoint_id # id

\* Such a response is selected.
LEMMA SelectAdded ==
  ASSUME NEW r, NEW t, NEW response,
         Extends(t.responses, r.responses, response), NEW id, NEW action,
         response.endpoint_id = id,
         Named(r, response, action) \/ Only(r, response, id)
  PROVE  Select(t, id, action) = Selected(response.status_code, response.echo)
<1> DEFINE n == Len(r.responses) + 1
           named == {i \in GetResponses(t, id) : t.responses[i].id = action}
           defaults == {i \in GetResponses(t, id) : t.responses[i].is_default}
           T == IF named # {} THEN named ELSE defaults
<1>1. n \in DOMAIN t.responses /\ t.responses[n] = response
  BY DEF Extends
<1>2. \A i \in DOMAIN t.responses : i # n => i \in DOMAIN r.responses /\ t.responses[i] = r.responses[i]
  BY DEF Extends
<1> HIDE DEF n
<1>3. T = {n}
  BY <1>1, <1>2 DEF GetResponses, Named, Only
<1>4. Select(t, id, action)
        = IF named = {} /\ defaults = {} THEN Selected(Unconfigured, FALSE)
          ELSE Selected(t.responses[LeastOf(T)].status_code, t.responses[LeastOf(T)].echo)
  BY DEF Select
<1>5. ~ (named = {} /\ defaults = {})
  BY <1>3
<1> HIDE DEF T, named, defaults
<1>6. LeastOf(T) = n
  <2>1. n \in Int
    BY DEF n
  <2> QED
    BY <1>3, <2>1 DEF LeastOf
<1> QED
  BY <1>1, <1>4, <1>5, <1>6

\* A rule that is added behind the others decides for its own endpoint only, and
\* there only when no rule before it does.
LEMMA FirstOfMore ==
  ASSUME NEW r, r.rules \in Seq(Rule), NEW t, t.rules \in Seq(Rule), NEW rule,
         Extends(t.rules, r.rules, rule), NEW id, NEW ctx, NEW params
  PROVE  LET i == FirstDecisive(r.rules, GetRules(r, id), ctx, params)
             j == FirstDecisive(t.rules, GetRules(t, id), ctx, params)
             decides == /\ rule.endpoint_id = id /\ i = NoRule
                        /\ Outcome(rule, ctx, params) # "no"
         IN  /\ decides => j # NoRule /\ t.rules[j] = rule
             /\ ~ decides => j = i
             /\ i # NoRule => i \in GetRules(r, id) /\ t.rules[i] = r.rules[i]
<1> DEFINE i == FirstDecisive(r.rules, GetRules(r, id), ctx, params)
           j == FirstDecisive(t.rules, GetRules(t, id), ctx, params)
           n == Len(r.rules) + 1
           out(m) == Outcome(t.rules[m], ctx, params)
<1>1. /\ n \in DOMAIN t.rules /\ t.rules[n] = rule /\ n \notin DOMAIN r.rules
      /\ \A m \in DOMAIN r.rules : m \in DOMAIN t.rules /\ t.rules[m] = r.rules[m]
      /\ \A m \in DOMAIN t.rules : m \in DOMAIN r.rules \/ m = n
  BY DEF Extends
<1>2. n \in Nat /\ n # NoRule /\ \A m \in DOMAIN r.rules : m \in Nat /\ m < n /\ m # NoRule
  BY LenProperties DEF NoRule
<1> HIDE DEF n
<1>3. /\ GetRules(r, id) \subseteq DOMAIN r.rules /\ GetRules(t, id) \subseteq DOMAIN t.rules
      /\ \A m \in DOMAIN r.rules : m \in GetRules(t, id) <=> m \in GetRules(r, id)
      /\ n \in GetRules(t, id) <=> rule.endpoint_id = id
  BY <1>1 DEF GetRules
<1>4. /\ i = NoRule <=> \A m \in GetRules(r, id) : out(m) = "no"
      /\ i # NoRule => /\ i \in GetRules(r, id) /\ out(i) # "no"
                       /\ \A m \in GetRules(r, id) : out(m) # "no" => i <= m
  <2>1. /\ i = NoRule <=> \A m \in GetRules(r, id) : Outcome(r.rules[m], ctx, params) = "no"
        /\ i # NoRule => /\ i \in GetRules(r, id)
                         /\ Outcome(r.rules[i], ctx, params) # "no"
                         /\ \A m \in GetRules(r, id) :
                              Outcome(r.rules[m], ctx, params) # "no" => i <= m
    BY FirstOfEndpoint
  <2>2. \A m \in GetRules(r, id) : t.rules[m] = r.rules[m]
    BY <1>1, <1>3
  <2> HIDE DEF i
  <2> QED
    BY <2>1, <2>2
<1>5. /\ j = NoRule <=> \A m \in GetRules(t, id) : out(m) = "no"
      /\ j # NoRule => /\ j \in GetRules(t, id) /\ out(j) # "no"
                       /\ \A m \in GetRules(t, id) : out(m) # "no" => j <= m
  <2>1. /\ j = NoRule <=> \A m \in GetRules(t, id) : Outcome(t.rules[m], ctx, params) = "no"
        /\ j # NoRule => /\ j \in GetRules(t, id)
                         /\ Outcome(t.rules[j], ctx, params) # "no"
                         /\ \A m \in GetRules(t, id) :
                              Outcome(t.rules[m], ctx, params) # "no" => j <= m
    BY FirstOfEndpoint
  <2> HIDE DEF j
  <2> QED
    BY <2>1
<1>6. out(n) = Outcome(rule, ctx, params)
  BY <1>1
<1> HIDE DEF i, j, out
<1>7. CASE i # NoRule
  <2>1. i \in GetRules(t, id) /\ i \in DOMAIN r.rules /\ j # NoRule
    BY <1>3, <1>4, <1>5, <1>7
  <2>2. j <= i /\ j \in DOMAIN t.rules
    BY <1>3, <1>4, <1>5, <1>7, <2>1
  <2>3. j \in DOMAIN r.rules /\ j \in Nat /\ i \in Nat
    BY <1>1, <1>2, <2>1, <2>2
  <2>4. i <= j
    BY <1>3, <1>4, <1>5, <1>7, <2>1, <2>3
  <2>5. i = j
    BY <2>2, <2>3, <2>4
  <2> QED
    BY <1>1, <1>4, <1>7, <2>1, <2>5 DEF i, j
<1>8. CASE i = NoRule
  <2>1. \A m \in GetRules(t, id) : m # n => out(m) = "no"
    BY <1>1, <1>3, <1>4, <1>8
  <2>2. CASE rule.endpoint_id = id /\ Outcome(rule, ctx, params) # "no"
    <3>1. j # NoRule /\ j = n
      BY <1>3, <1>5, <1>6, <2>1, <2>2
    <3> QED
      BY <1>1, <1>8, <2>2, <3>1 DEF i, j
  <2>3. CASE ~ (rule.endpoint_id = id /\ Outcome(rule, ctx, params) # "no")
    <3>1. j = NoRule
      BY <1>3, <1>5, <1>6, <2>1, <2>3
    <3> QED
      BY <1>8, <2>3, <3>1 DEF i, j
  <2> QED
    BY <2>2, <2>3
<1> QED
  BY <1>7, <1>8

\* create_rule: the rule is the last of its endpoint, and nothing changes elsewhere.
LEMMA RuleAdded ==
  ASSUME NEW r, NEW n \in Nat, n # NoId, Sound(r, n), NEW project, NEW id,
         EndpointExists(r, project, id), NEW request \in RuleCreateRequest
  PROVE  LET t == CreateRule(r, id, request, n)
         IN  /\ \A ctx, params :
                  Decision(t, id, ctx, params)
                    = Behindmost(Decision(r, id, ctx, params), request, ctx, params)
             /\ \A other : other # id =>
                  \A ctx, params : Decision(t, other, ctx, params) = Decision(r, other, ctx, params)
             /\ \A other : DelayStep(t, other) = DelayStep(r, other)
<1> DEFINE default == FALSE
           response == [id |-> n, endpoint_id |-> id, status_code |-> request.status_code,
                        is_default |-> default, echo |-> request.echo]
           rule == [endpoint_id |-> id, condition_type |-> request.condition_type,
                    field |-> request.field, operator |-> request.operator,
                    value |-> request.value, action |-> n]
           t == CreateRule(r, id, request, n)
<1> HIDE DEF default
<1>1. /\ r.rules \in Seq(Rule) /\ r.responses \in Seq(Response)
  BY DEF Sound, RepositoryType
<1>2. /\ t.responses = Append(r.responses, response)
      /\ t.rules = Append(r.rules, rule)
      /\ t.delays = r.delays
  BY DEF CreateRule, default
<1>3. t.rules \in Seq(Rule)
  BY CreateRuleSound DEF Sound, RepositoryType
<1>4. /\ response.id = n /\ response.endpoint_id = id /\ ~ response.is_default
      /\ response.status_code = request.status_code /\ response.echo = request.echo
      /\ rule.endpoint_id = id /\ rule.action = n
  BY DEF default
<1>5. \A ctx, params : Outcome(rule, ctx, params) = Outcome(request, ctx, params)
  BY DEF Outcome, ExtractValue
<1> HIDE DEF t, rule, response
<1>6. Extends(t.responses, r.responses, response) /\ Extends(t.rules, r.rules, rule)
  BY <1>1, <1>2, AppendExtends
<1>7. /\ \A i \in DOMAIN r.responses : r.responses[i].id # n
      /\ \A i \in DOMAIN r.rules : r.rules[i].action # n
  <2>1. \A i \in DOMAIN r.responses : r.responses[i].id # n
    BY SoundIds
  <2> QED
    BY <2>1 DEF Sound, Integral, HasTarget
<1>8. \A other, action : action # n => Select(t, other, action) = Select(r, other, action)
  BY <1>1, <1>4, <1>6, SelectKept
<1>9. \A other, action : other # id => Select(t, other, action) = Select(r, other, action)
  BY <1>1, <1>4, <1>6, SelectKept
<1>10. Select(t, id, n) = Selected(request.status_code, request.echo)
  <2>1. Named(r, response, n)
    BY <1>4, <1>7 DEF Named
  <2> QED
    BY <1>4, <1>6, <2>1, SelectAdded
<1>11. ASSUME NEW ctx, NEW params, NEW other
       PROVE  Decision(t, other, ctx, params)
                = IF other = id THEN Behindmost(Decision(r, id, ctx, params), request, ctx, params)
                  ELSE Decision(r, other, ctx, params)
  <2> DEFINE i == FirstDecisive(r.rules, GetRules(r, other), ctx, params)
             j == FirstDecisive(t.rules, GetRules(t, other), ctx, params)
             decides == /\ other = id /\ i = NoRule /\ Outcome(rule, ctx, params) # "no"
             before == Decision(r, other, ctx, params)
  <2>1. /\ decides => j # NoRule /\ t.rules[j] = rule
        /\ ~ decides => j = i
        /\ i # NoRule => i \in GetRules(r, other) /\ t.rules[i] = r.rules[i]
    BY <1>1, <1>3, <1>4, <1>6, FirstOfMore
  <2>2. /\ i = NoRule => before = [outcome |-> "no", selected |-> Select(r, other, NoId)]
        /\ i # NoRule => before = [outcome |-> Outcome(r.rules[i], ctx, params),
                                   selected |-> Select(r, other, r.rules[i].action)]
    BY DEF Decision
  <2>3. /\ j = NoRule => Decision(t, other, ctx, params)
                           = [outcome |-> "no", selected |-> Select(t, other, NoId)]
        /\ j # NoRule => Decision(t, other, ctx, params)
                           = [outcome |-> Outcome(t.rules[j], ctx, params),
                              selected |-> Select(t, other, t.rules[j].action)]
    BY DEF Decision
  <2>4. i # NoRule => Outcome(r.rules[i], ctx, params) # "no" /\ i \in DOMAIN r.rules
    <3>1. i # NoRule => i \in GetRules(r, other) /\ Outcome(r.rules[i], ctx, params) # "no"
      BY <1>1, FirstOfEndpoint
    <3>2. GetRules(r, other) \subseteq DOMAIN r.rules
      BY DEF GetRules
    <3> HIDE DEF i
    <3> QED
      BY <3>1, <3>2
  <2> HIDE DEF i, j, before
  <2>5. before.outcome = "no" <=> i = NoRule
    BY <2>2, <2>4
  <2>6. CASE decides
    <3>1. Decision(t, other, ctx, params)
            = [outcome |-> Outcome(request, ctx, params),
               selected |-> Selected(request.status_code, request.echo)]
      BY <1>4, <1>5, <1>10, <2>1, <2>3, <2>6
    <3>2. Behindmost(before, request, ctx, params)
            = [outcome |-> Outcome(request, ctx, params),
               selected |-> Selected(request.status_code, request.echo)]
      BY <1>5, <2>5, <2>6 DEF Behindmost
    <3> QED
      BY <2>6, <3>1, <3>2 DEF before
  <2>7. CASE ~ decides
    <3>1. Decision(t, other, ctx, params) = before
      <4>1. CASE i = NoRule
        BY <1>8, <2>1, <2>2, <2>3, <2>7, <4>1
      <4>2. CASE i # NoRule
        <5>1. t.rules[j] = r.rules[i] /\ r.rules[i].action # n
          BY <1>7, <2>1, <2>4, <2>7, <4>2
        <5> QED
          BY <1>8, <2>1, <2>2, <2>3, <2>7, <4>2, <5>1
      <4> QED
        BY <4>1, <4>2
    <3>2. other = id => Behindmost(before, request, ctx, params) = before
      BY <1>5, <2>5, <2>7 DEF Behindmost
    <3> QED
      BY <3>1, <3>2 DEF before
  <2> QED
    BY <2>6, <2>7
<1>12. \A other : DelayStep(t, other) = DelayStep(r, other)
  BY <1>2 DEF DelayStep, GetDelay
<1> QED
  BY <1>11, <1>12 DEF t

\* What a new endpoint answers, and its delay.
FirstDecision(request) ==
  [outcome |-> "no", selected |-> Selected(request.status_code, request.echo)]

FirstDelayStep(request) ==
  IF request.delay_ms <= 0 THEN "none"
  ELSE IF request.delay_mode \notin DelayModes THEN "raise" ELSE "sleep"

\* create_endpoint: the endpoint has its default response and its delay, and nothing
\* changes elsewhere.
LEMMA EndpointAdded ==
  ASSUME NEW r, NEW n \in Nat, n # NoId, Sound(r, n), NEW project \in Projects,
         NEW request \in EndpointCreateRequest
  PROVE  LET t == CreateEndpoint(r, project, request, n, n + 1)
         IN  /\ \A ctx, params : Decision(t, n, ctx, params) = FirstDecision(request)
             /\ DelayStep(t, n) = FirstDelayStep(request)
             /\ \A other : other # n =>
                  /\ DelayStep(t, other) = DelayStep(r, other)
                  /\ \A ctx, params :
                       Decision(t, other, ctx, params) = Decision(r, other, ctx, params)
<1> DEFINE default == TRUE
           response == [id |-> n + 1, endpoint_id |-> n, status_code |-> request.status_code,
                        is_default |-> default, echo |-> request.echo]
           delay == [endpoint_id |-> n, delay_ms |-> request.delay_ms,
                     mode |-> request.delay_mode]
           t == CreateEndpoint(r, project, request, n, n + 1)
<1> HIDE DEF default
<1>1. /\ r.rules \in Seq(Rule) /\ r.responses \in Seq(Response) /\ r.delays \in Seq(Delay)
  BY DEF Sound, RepositoryType
<1>2. /\ t.responses = Append(r.responses, response)
      /\ t.rules = r.rules
      /\ t.delays = IF request.delay_ms = 0 THEN r.delays ELSE Append(r.delays, delay)
  BY DEF CreateEndpoint, default
<1>3. /\ response.id = n + 1 /\ response.endpoint_id = n /\ response.is_default
      /\ response.status_code = request.status_code /\ response.echo = request.echo
      /\ delay.endpoint_id = n /\ delay.delay_ms = request.delay_ms
      /\ delay.mode = request.delay_mode
  BY DEF default
<1> HIDE DEF t, delay, response
<1>4. /\ Extends(t.responses, r.responses, response)
      /\ request.delay_ms # 0 => Extends(t.delays, r.delays, delay)
  BY <1>1, <1>2, AppendExtends
<1>5. /\ \A i \in DOMAIN r.responses : r.responses[i].endpoint_id # n
      /\ \A i \in DOMAIN r.rules : r.rules[i].endpoint_id # n
      /\ \A i \in DOMAIN r.delays : r.delays[i].endpoint_id # n
  <2>1. \A i \in DOMAIN r.delays : r.delays[i].endpoint_id # n
    BY SoundIds
  <2> QED
    BY <2>1, OwnersBelow
<1>6. \A other, action : other # n => Select(t, other, action) = Select(r, other, action)
  BY <1>1, <1>3, <1>4, SelectKept
<1>7. \A action : Select(t, n, action) = Selected(request.status_code, request.echo)
  <2>1. Only(r, response, n)
    BY <1>3, <1>5 DEF Only
  <2> QED
    BY <1>3, <1>4, <2>1, SelectAdded
<1>8. \A other : GetRules(t, other) = GetRules(r, other)
  BY <1>2 DEF GetRules
<1>9. GetRules(r, n) = {}
  BY <1>5 DEF GetRules
<1>10. ASSUME NEW ctx, NEW params
       PROVE  Decision(t, n, ctx, params) = FirstDecision(request)
  <2>1. FirstDecisive(t.rules, GetRules(t, n), ctx, params) = NoRule
    BY <1>8, <1>9 DEF FirstDecisive
  <2> QED
    BY <1>7, <2>1 DEF Decision, FirstDecision
<1>11. ASSUME NEW other, other # n, NEW ctx, NEW params
       PROVE  Decision(t, other, ctx, params) = Decision(r, other, ctx, params)
  BY <1>2, <1>6, <1>8, <1>11 DEF Decision
<1>12. ASSUME NEW other, other # n
       PROVE  DelayStep(t, other) = DelayStep(r, other)
  <2> DEFINE own == {i \in DOMAIN r.delays : r.delays[i].endpoint_id = other}
             there == {i \in DOMAIN t.delays : t.delays[i].endpoint_id = other}
  <2>1. there = own
    BY <1>2, <1>3, <1>4, <1>12 DEF Extends
  <2>2. GetDelay(t, other) = GetDelay(r, other)
    <3>1. /\ GetDelay(t, other)
               = IF there = {} THEN NoDelay ELSE CHOOSE i \in there : \A j \in there : i <= j
          /\ GetDelay(r, other)
               = IF own = {} THEN NoDelay ELSE CHOOSE i \in own : \A j \in own : i <= j
      BY DEF GetDelay
    <3> HIDE DEF own, there
    <3> QED
      BY <2>1, <3>1
  <2>3. own # {} => GetDelay(r, other) \in own
    <3>1. own \in SUBSET Nat
      BY <1>1, LenProperties
    <3>2. GetDelay(r, other) = IF own = {} THEN NoDelay ELSE CHOOSE i \in own : \A j \in own : i <= j
      BY DEF GetDelay
    <3> HIDE DEF own
    <3> QED
      BY <3>1, <3>2, LeastExists
  <2>4. own = {} => GetDelay(r, other) = NoDelay
    BY DEF GetDelay
  <2>5. own # {} => t.delays[GetDelay(r, other)] = r.delays[GetDelay(r, other)]
    BY <1>2, <1>4, <2>3 DEF Extends
  <2> HIDE DEF own, there
  <2> QED
    BY <2>2, <2>4, <2>5 DEF DelayStep
<1>13. DelayStep(t, n) = FirstDelayStep(request)
  <2> DEFINE there == {i \in DOMAIN t.delays : t.delays[i].endpoint_id = n}
             k == Len(r.delays) + 1
  <2>1. request.delay_ms \in Nat
    BY DEF EndpointCreateRequest
  <2>2. CASE request.delay_ms = 0
    <3>1. there = {}
      BY <1>2, <1>5, <2>2
    <3>2. GetDelay(t, n) = NoDelay
      BY <3>1 DEF GetDelay
    <3> QED
      BY <2>2, <3>2 DEF DelayStep, FirstDelayStep
  <2>3. CASE request.delay_ms # 0
    <3>1. there = {k} /\ t.delays[k] = delay
      BY <1>3, <1>4, <1>5, <2>3 DEF Extends
    <3>2. k \in Nat /\ k # NoDelay
      BY <1>1, LenProperties DEF NoDelay
    <3> HIDE DEF k
    <3>3. GetDelay(t, n) = k
      BY <3>1, <3>2 DEF GetDelay
    <3> QED
      BY <1>3, <3>1, <3>2, <3>3 DEF DelayStep, FirstDelayStep
  <2> QED
    BY <2>2, <2>3
<1> QED
  BY <1>10, <1>11, <1>12, <1>13 DEF t

\* A build whose repository is sound and whose identifiers are those of endpoints.
Founded(b) ==
  /\ b.fresh \in Nat \ {NoId}
  /\ Sound(b.repo, b.fresh)
  /\ \A key \in DOMAIN b.ids : EndpointExists(b.repo, Live, b.ids[key])

OneToOne(ids) == \A key, other \in DOMAIN ids : ids[key] = ids[other] => key = other

\* Endpoint id of r has the method, the path and the flag of e.
HasEndpoint(r, id, e) ==
  \E p \in DOMAIN r.endpoints : r.endpoints[p].id = id /\ Twins(r.endpoints[p], e)

\* The endpoint id answers and waits the same in both repositories.
Alike(r, id, s, other) ==
  /\ DelayStep(r, id) = DelayStep(s, other)
  /\ \A ctx, params : Decision(r, id, ctx, params) = Decision(s, other, ctx, params)

\* Build d is build b with the endpoint g added.
Grown(d, b, g) ==
  /\ DOMAIN d.ids = DOMAIN b.ids \cup {g.key}
  /\ d.ids[g.key] = b.fresh
  /\ HasEndpoint(d.repo, b.fresh, g.endpoint)
  /\ DelayStep(d.repo, b.fresh) = FirstDelayStep(g.endpoint)
  /\ \A ctx, params : Decision(d.repo, b.fresh, ctx, params) = FirstDecision(g.endpoint)
  /\ \A key \in DOMAIN b.ids :
       key # g.key => d.ids[key] = b.ids[key] /\ Alike(d.repo, b.ids[key], b.repo, b.ids[key])
  /\ KeepsEndpoints(b.repo, d.repo)
  /\ \A p \in DOMAIN d.repo.endpoints :
       p \in DOMAIN b.repo.endpoints \/ d.repo.endpoints[p].id = b.fresh
  /\ OneToOne(b.ids) => OneToOne(d.ids)

LEMMA EndpointGrown ==
  ASSUME NEW b, Founded(b), NEW g, g.endpoint \in EndpointCreateRequest
  PROVE  Grown(AddEndpoint(b, Live, g), b, g)
<1> DEFINE d == AddEndpoint(b, Live, g)
           t == CreateEndpoint(b.repo, Live, g.endpoint, b.fresh, b.fresh + 1)
           endpoint == [id |-> b.fresh, project_id |-> Live, path |-> g.endpoint.path,
                        method |-> g.endpoint.method, is_active |-> g.endpoint.is_active]
           n == b.fresh
<1>1. /\ n \in Nat /\ n # NoId /\ Sound(b.repo, n) /\ Live \in Projects
      /\ \A key \in DOMAIN b.ids : EndpointExists(b.repo, Live, b.ids[key])
  BY LivesAssumption DEF Founded
<1>2. Extends(t.endpoints, b.repo.endpoints, endpoint)
  BY <1>1, AppendExtends DEF CreateEndpoint, Sound, RepositoryType
<1>3. /\ endpoint.id = n /\ endpoint.path = g.endpoint.path
      /\ endpoint.method = g.endpoint.method /\ endpoint.is_active = g.endpoint.is_active
  OBVIOUS
<1>4. d = Build(t, b.fresh + 2, WithId(b.ids, g.key, n))
  BY DEF AddEndpoint
<1> HIDE DEF d, t, endpoint, n
<1>5. d.repo = t /\ d.ids = WithId(b.ids, g.key, n)
  BY <1>4 DEF Build
<1>6. /\ DelayStep(t, n) = FirstDelayStep(g.endpoint)
      /\ \A ctx, params : Decision(t, n, ctx, params) = FirstDecision(g.endpoint)
      /\ \A other : other # n => Alike(t, other, b.repo, other)
  <2> DEFINE r == b.repo
             request == g.endpoint
  <2>0. Sound(r, n) /\ request \in EndpointCreateRequest /\ t = CreateEndpoint(r, Live, request, n, n + 1)
    BY <1>1 DEF t, n
  <2> HIDE DEF r, request
  <2>1. /\ \A ctx, params : Decision(t, n, ctx, params) = FirstDecision(request)
        /\ DelayStep(t, n) = FirstDelayStep(request)
        /\ \A other : other # n =>
             /\ DelayStep(t, other) = DelayStep(r, other)
             /\ \A ctx, params : Decision(t, other, ctx, params) = Decision(r, other, ctx, params)
    BY <1>1, <2>0, EndpointAdded
  <2> QED
    BY <2>1 DEF Alike, r, request
<1>7. HasEndpoint(t, n, g.endpoint)
  BY <1>2, <1>3 DEF HasEndpoint, Extends, Twins
<1>8. \A key \in DOMAIN b.ids : b.ids[key] # n
  <2>1. \A i \in DOMAIN b.repo.endpoints : b.repo.endpoints[i].id # n
    BY <1>1, SoundIds
  <2> QED
    BY <1>1, <2>1 DEF EndpointExists
<1>9. /\ DOMAIN d.ids = DOMAIN b.ids \cup {g.key}
      /\ d.ids[g.key] = n
      /\ \A key \in DOMAIN b.ids : key # g.key => d.ids[key] = b.ids[key]
  BY <1>5 DEF WithId
<1>10. OneToOne(b.ids) => OneToOne(d.ids)
  BY <1>8, <1>9 DEF OneToOne
<1>11. /\ KeepsEndpoints(b.repo, t)
       /\ \A p \in DOMAIN t.endpoints : p \in DOMAIN b.repo.endpoints \/ t.endpoints[p].id = n
  BY <1>2, <1>3 DEF KeepsEndpoints, Extends
<1>12. Grown(d, b, g)
  BY <1>5, <1>6, <1>7, <1>8, <1>9, <1>10, <1>11 DEF Grown, n
<1> QED
  BY <1>12 DEF d

\* Build d is build b with the rule g added.
Ruled(d, b, g) ==
  /\ d.ids = b.ids
  /\ d.repo.endpoints = b.repo.endpoints
  /\ \A ctx, params :
       Decision(d.repo, b.ids[g.endpoint_key], ctx, params)
         = Behindmost(Decision(b.repo, b.ids[g.endpoint_key], ctx, params), g.rule, ctx, params)
  /\ \A other : DelayStep(d.repo, other) = DelayStep(b.repo, other)
  /\ \A other : other # b.ids[g.endpoint_key] => Alike(d.repo, other, b.repo, other)

LEMMA BuildRuled ==
  ASSUME NEW b, Founded(b), NEW g, g.rule \in RuleCreateRequest, g.endpoint_key \in DOMAIN b.ids
  PROVE  Ruled(AddRule(b, g), b, g)
<1> DEFINE d == AddRule(b, g)
           r == b.repo
           n == b.fresh
           id == b.ids[g.endpoint_key]
           request == g.rule
           t == CreateRule(r, id, request, n)
<1>1. /\ n \in Nat /\ n # NoId /\ Sound(r, n) /\ EndpointExists(r, Live, id)
      /\ request \in RuleCreateRequest
  BY DEF Founded
<1>2. d = Build(t, b.fresh + 1, b.ids)
  BY DEF AddRule
<1>3. t.endpoints = r.endpoints
  BY DEF CreateRule
<1> HIDE DEF d, r, n, id, request
<1>4. /\ \A ctx, params :
           Decision(t, id, ctx, params)
             = Behindmost(Decision(r, id, ctx, params), request, ctx, params)
      /\ \A other : other # id =>
           \A ctx, params : Decision(t, other, ctx, params) = Decision(r, other, ctx, params)
      /\ \A other : DelayStep(t, other) = DelayStep(r, other)
  BY <1>1, RuleAdded
<1> HIDE DEF t
<1>5. d.repo = t /\ d.ids = b.ids
  BY <1>2 DEF Build
<1>6. Ruled(d, b, g)
  BY <1>3, <1>4, <1>5 DEF Ruled, Alike, r, id, request
<1> QED
  BY <1>6 DEF d

\* An endpoint of a commit and its twin in the sandbox.
Paired(r, id, s, other) ==
  /\ Alike(r, id, s, other)
  /\ \E e : HasEndpoint(r, id, e) /\ HasEndpoint(s, other, e)

\* After n rounds: d is what commit has built on the repository base, b what the
\* sandbox has.
InStep(d, b, base, n) ==
  /\ BuildSound(d) /\ Taken(d, n)
  /\ Simulated(config, Live, b, n)
  /\ OneToOne(d.ids) /\ OneToOne(b.ids)
  /\ \A key \in DOMAIN d.ids :
       key \in DOMAIN b.ids /\ Paired(d.repo, d.ids[key], b.repo, b.ids[key])
  /\ \A p \in DOMAIN d.repo.endpoints :
       \/ p \in DOMAIN base.endpoints
       \/ \E key \in DOMAIN d.ids : d.repo.endpoints[p].id = d.ids[key]

LEMMA BothFounded ==
  /\ \A b : BuildSound(b) => Founded(b)
  /\ \A b, n : Simulated(config, Live, b, n) => Founded(b)
BY DEF BuildSound, Simulated, Founded

LEMMA HasKept ==
  ASSUME NEW r, NEW t, KeepsEndpoints(r, t)
  PROVE  \A id, e : HasEndpoint(r, id, e) => HasEndpoint(t, id, e)
BY DEF KeepsEndpoints, HasEndpoint

\* Pairs stay pairs while neither side changes for them.
LEMMA PairKept ==
  ASSUME NEW r, NEW id, NEW s, NEW other, Paired(r, id, s, other),
         NEW t, KeepsEndpoints(r, t), Alike(t, id, r, id),
         NEW u, KeepsEndpoints(s, u), Alike(u, other, s, other)
  PROVE  Paired(t, id, u, other)
BY HasKept DEF Paired, Alike

LEMMA SameKept ==
  \A r : KeepsEndpoints(r, r) /\ \A id : Alike(r, id, r, id)
BY DEF KeepsEndpoints, Alike

\* A round of the first loop.
LEMMA EndpointInStep ==
  ASSUME ConfigTyped, KeysKnown(config), DistinctKeys, NEW d, NEW b, NEW base,
         NEW n \in 1 .. Rounds(config), n <= Len(config.endpoints), InStep(d, b, base, n - 1)
  PROVE  InStep(CommitRound(d, Live, config, n), SandboxRound(b, Live, config, n), base, n)
<1> DEFINE g == config.endpoints[n]
           x == CommitRound(d, Live, config, n)
           y == SandboxRound(b, Live, config, n)
<1>1. /\ BuildSound(d) /\ Taken(d, n - 1) /\ Simulated(config, Live, b, n - 1)
      /\ OneToOne(d.ids) /\ OneToOne(b.ids)
      /\ \A key \in DOMAIN d.ids :
           key \in DOMAIN b.ids /\ Paired(d.repo, d.ids[key], b.repo, b.ids[key])
      /\ \A p \in DOMAIN d.repo.endpoints :
           \/ p \in DOMAIN base.endpoints
           \/ \E key \in DOMAIN d.ids : d.repo.endpoints[p].id = d.ids[key]
  BY DEF InStep
<1>2. BuildSound(x) /\ Taken(x, n)
  BY <1>1, CommitRoundSound
<1>3. Simulated(config, Live, y, n)
  BY <1>1, TypedHere, SandboxRoundSimulated, LivesAssumption
<1>4. /\ n \in DOMAIN config.endpoints /\ g.endpoint \in EndpointCreateRequest
      /\ g.key \notin DOMAIN b.ids /\ g.key \notin DOMAIN d.ids
  <2>1. /\ n \in DOMAIN config.endpoints /\ g.endpoint \in EndpointCreateRequest
        /\ Seen(config, n - 1) = 1 .. n - 1
    BY TypedHere, RoundOfEndpoint
  <2>2. DOMAIN b.ids = {config.endpoints[i].key : i \in Seen(config, n - 1)}
    BY <1>1 DEF Simulated
  <2>3. \A i \in Seen(config, n - 1) : i # n /\ i \in DOMAIN config.endpoints
    BY <2>1 DEF Seen
  <2>4. g.key \notin DOMAIN b.ids
    BY <2>1, <2>2, <2>3 DEF DistinctKeys
  <2> QED
    BY <1>1, <2>1, <2>4
<1>5. Grown(y, b, g)
  <2>1. y = AddEndpoint(b, Live, g)
    BY DEF SandboxRound
  <2> HIDE DEF g, y
  <2> QED
    BY <1>1, <1>4, <2>1, BothFounded, EndpointGrown
<1>6. \/ x = d
      \/ Grown(x, d, g)
  <2>1. x = d \/ x = AddEndpoint(d, Live, g)
    BY DEF CommitRound, CommitEndpoint
  <2> HIDE DEF g, x
  <2> QED
    BY <1>1, <1>4, <2>1, BothFounded, EndpointGrown
<1> HIDE DEF g, x, y
<1>7. KeepsEndpoints(b.repo, y.repo) /\ OneToOne(y.ids) /\ DOMAIN b.ids \subseteq DOMAIN y.ids
  BY <1>1, <1>5 DEF Grown
<1>8. \A key \in DOMAIN d.ids :
        y.ids[key] = b.ids[key] /\ Alike(y.repo, b.ids[key], b.repo, b.ids[key])
  BY <1>1, <1>4, <1>5 DEF Grown
<1>9. CASE x = d
  <2>1. ASSUME NEW key \in DOMAIN d.ids
        PROVE  key \in DOMAIN y.ids /\ Paired(d.repo, d.ids[key], y.repo, y.ids[key])
    BY <1>1, <1>7, <1>8, SameKept, PairKept
  <2> QED
    BY <1>1, <1>2, <1>3, <1>7, <1>9, <2>1 DEF InStep, x, y
<1>10. CASE Grown(x, d, g)
  <2>1. /\ DOMAIN x.ids = DOMAIN d.ids \cup {g.key} /\ x.ids[g.key] = d.fresh
        /\ KeepsEndpoints(d.repo, x.repo) /\ OneToOne(x.ids)
        /\ \A key \in DOMAIN d.ids :
             x.ids[key] = d.ids[key] /\ Alike(x.repo, d.ids[key], d.repo, d.ids[key])
    BY <1>1, <1>4, <1>10 DEF Grown
  <2>2. ASSUME NEW key \in DOMAIN d.ids
        PROVE  key \in DOMAIN y.ids /\ Paired(x.repo, x.ids[key], y.repo, y.ids[key])
    BY <1>1, <1>7, <1>8, <2>1, PairKept
  <2>3. g.key \in DOMAIN y.ids /\ Paired(x.repo, x.ids[g.key], y.repo, y.ids[g.key])
    BY <1>5, <1>10 DEF Grown, Paired, Alike
  <2>4. ASSUME NEW p \in DOMAIN x.repo.endpoints, p \notin DOMAIN base.endpoints
        PROVE  \E key \in DOMAIN x.ids : x.repo.endpoints[p].id = x.ids[key]
    <3>1. p \in DOMAIN d.repo.endpoints \/ x.repo.endpoints[p].id = d.fresh
      BY <1>10 DEF Grown
    <3>2. CASE p \in DOMAIN d.repo.endpoints
      <4>1. PICK key \in DOMAIN d.ids : d.repo.endpoints[p].id = d.ids[key]
        BY <1>1, <2>4, <3>2
      <4> QED
        BY <2>1, <3>2, <4>1 DEF KeepsEndpoints
    <3> QED
      BY <2>1, <3>1, <3>2
  <2> QED
    BY <1>2, <1>3, <1>7, <2>1, <2>2, <2>3, <2>4 DEF InStep, x, y
<1> QED
  BY <1>6, <1>9, <1>10

\* A round of the second loop.
LEMMA RuleInStep ==
  ASSUME ConfigTyped, KeysKnown(config), NEW d, NEW b, NEW base,
         NEW n \in 1 .. Rounds(config), ~ (n <= Len(config.endpoints)), InStep(d, b, base, n - 1)
  PROVE  InStep(CommitRound(d, Live, config, n), SandboxRound(b, Live, config, n), base, n)
<1> DEFINE g == config.rules[n - Len(config.endpoints)]
           x == CommitRound(d, Live, config, n)
           y == SandboxRound(b, Live, config, n)
<1>1. /\ BuildSound(d) /\ Taken(d, n - 1) /\ Simulated(config, Live, b, n - 1)
      /\ OneToOne(d.ids) /\ OneToOne(b.ids)
      /\ \A key \in DOMAIN d.ids :
           key \in DOMAIN b.ids /\ Paired(d.repo, d.ids[key], b.repo, b.ids[key])
      /\ \A p \in DOMAIN d.repo.endpoints :
           \/ p \in DOMAIN base.endpoints
           \/ \E key \in DOMAIN d.ids : d.repo.endpoints[p].id = d.ids[key]
  BY DEF InStep
<1>2. BuildSound(x) /\ Taken(x, n)
  BY <1>1, CommitRoundSound
<1>3. Simulated(config, Live, y, n)
  BY <1>1, TypedHere, SandboxRoundSimulated, LivesAssumption
<1>4. g.rule \in RuleCreateRequest /\ g.endpoint_key \in DOMAIN b.ids
  <2>1. /\ n - Len(config.endpoints) \in DOMAIN config.rules
        /\ Seen(config, n - 1) = DOMAIN config.endpoints
    BY TypedHere, RoundOfRule
  <2> QED
    BY <1>1, <2>1, TypedHere, Pieces DEF KeysKnown, EndpointKeys, Simulated
<1>5. Ruled(y, b, g)
  <2>1. y = AddRule(b, g)
    BY DEF SandboxRound
  <2> HIDE DEF g, y
  <2> QED
    BY <1>1, <1>4, <2>1, BothFounded, BuildRuled
<1>6. \/ g.endpoint_key \notin DOMAIN d.ids /\ x = d
      \/ g.endpoint_key \in DOMAIN d.ids /\ Ruled(x, d, g)
  <2>1. x = IF g.endpoint_key \in DOMAIN d.ids THEN AddRule(d, g) ELSE d
    BY DEF CommitRound, CommitRule
  <2> HIDE DEF g, x
  <2> QED
    BY <1>1, <1>4, <2>1, BothFounded, BuildRuled
<1> HIDE DEF g, x, y
<1>7. KeepsEndpoints(b.repo, y.repo) /\ y.ids = b.ids
  BY <1>5 DEF Ruled, KeepsEndpoints
<1>8. \A key \in DOMAIN d.ids :
        key # g.endpoint_key => Alike(y.repo, b.ids[key], b.repo, b.ids[key])
  <2>1. \A key \in DOMAIN d.ids : key # g.endpoint_key => b.ids[key] # b.ids[g.endpoint_key]
    BY <1>1, <1>4 DEF OneToOne
  <2> QED
    BY <1>5, <2>1 DEF Ruled
<1>9. CASE g.endpoint_key \notin DOMAIN d.ids /\ x = d
  <2>1. ASSUME NEW key \in DOMAIN d.ids
        PROVE  key \in DOMAIN y.ids /\ Paired(d.repo, d.ids[key], y.repo, y.ids[key])
    BY <1>1, <1>7, <1>8, <1>9, SameKept, PairKept
  <2> QED
    BY <1>1, <1>2, <1>3, <1>7, <1>9, <2>1 DEF InStep, x, y
<1>10. CASE g.endpoint_key \in DOMAIN d.ids /\ Ruled(x, d, g)
  <2>1. KeepsEndpoints(d.repo, x.repo) /\ x.ids = d.ids /\ x.repo.endpoints = d.repo.endpoints
    BY <1>10 DEF Ruled, KeepsEndpoints
  <2>2. ASSUME NEW key \in DOMAIN d.ids, key # g.endpoint_key
        PROVE  Paired(x.repo, x.ids[key], y.repo, y.ids[key])
    <3>1. d.ids[key] # d.ids[g.endpoint_key]
      BY <1>1, <1>10, <2>2 DEF OneToOne
    <3>2. Alike(x.repo, d.ids[key], d.repo, d.ids[key])
      BY <1>10, <3>1 DEF Ruled
    <3> QED
      BY <1>1, <1>7, <1>8, <2>1, <2>2, <3>2, PairKept
  <2>3. Paired(x.repo, x.ids[g.endpoint_key], y.repo, y.ids[g.endpoint_key])
    <3> DEFINE id == d.ids[g.endpoint_key]
               other == b.ids[g.endpoint_key]
    <3>1. Paired(d.repo, id, b.repo, other)
      BY <1>1, <1>10
    <3>2. Alike(x.repo, id, y.repo, other)
      <4>1. \A ctx, params : Decision(d.repo, id, ctx, params) = Decision(b.repo, other, ctx, params)
        BY <3>1 DEF Paired, Alike
      <4>2. \A ctx, params :
              /\ Decision(x.repo, id, ctx, params)
                   = Behindmost(Decision(d.repo, id, ctx, params), g.rule, ctx, params)
              /\ Decision(y.repo, other, ctx, params)
                   = Behindmost(Decision(b.repo, other, ctx, params), g.rule, ctx, params)
        BY <1>5, <1>10 DEF Ruled
      <4>3. DelayStep(x.repo, id) = DelayStep(y.repo, other)
        BY <1>5, <1>10, <3>1 DEF Ruled, Paired, Alike
      <4> HIDE DEF id, other
      <4> QED
        BY <4>1, <4>2, <4>3 DEF Alike
    <3> HIDE DEF id, other
    <3>3. Paired(x.repo, id, y.repo, other)
      BY <1>7, <2>1, <3>1, <3>2, HasKept DEF Paired
    <3> QED
      BY <1>7, <2>1, <3>3 DEF id, other
  <2>4. \A key \in DOMAIN x.ids :
          key \in DOMAIN y.ids /\ Paired(x.repo, x.ids[key], y.repo, y.ids[key])
    BY <1>1, <1>7, <2>1, <2>2, <2>3
  <2> QED
    BY <1>1, <1>2, <1>3, <1>7, <2>1, <2>4 DEF InStep, x, y
<1> QED
  BY <1>6, <1>9, <1>10

\* A commit to live and a sandbox run of the same configuration end in step.
LEMMA EndInStep ==
  ASSUME ConfigTyped, KeysKnown(config), DistinctKeys, NEW live \in Lives
  PROVE  \E b : /\ b.repo = SandboxRepository(Live, config)
                /\ InStep(Committed(live), b, live.repo, Rounds(config))
<1> DEFINE N == Rounds(config)
<1>1. N \in Nat
  BY TypedHere, RoundsNat
<1>2. PICK f : /\ SandboxRepository(Live, config) = f[N].repo
               /\ f[0] = Build(EmptyRepository, 1, << >>)
               /\ \A n \in 1 .. N : f[n] = SandboxRound(f[n - 1], Live, config, n)
  BY <1>1, SandboxRuns
<1>3. PICK h : /\ Committed(live) = h[N]
               /\ h[0] = Build(live.repo, live.fresh, << >>)
               /\ \A n \in 1 .. N : h[n] = CommitRound(h[n - 1], Live, config, n)
  <2> DEFINE r == live.repo
             fresh == live.fresh
  <2> HIDE DEF r, fresh
  <2>1. \E h : /\ Commit(r, fresh, Live, config) = h[N]
               /\ h[0] = Build(r, fresh, << >>)
               /\ \A n \in 1 .. N : h[n] = CommitRound(h[n - 1], Live, config, n)
    BY <1>1, CommitRuns
  <2> QED
    BY <2>1 DEF Committed, r, fresh
<1> DEFINE apart == {n \in 0 .. N : ~ InStep(h[n], f[n], live.repo, n)}
<1>4. apart = {}
  <2> SUFFICES ASSUME apart # {}
               PROVE  FALSE
    OBVIOUS
  <2>1. PICK n \in apart : \A k \in apart : n <= k
    <3>1. apart \in SUBSET Nat
      BY <1>1
    <3> HIDE DEF apart
    <3> QED
      BY <3>1, LeastExists
  <2>2. n \in 0 .. N /\ ~ InStep(h[n], f[n], live.repo, n)
    OBVIOUS
  <2>3. InStep(h[0], f[0], live.repo, 0)
    <3> DEFINE d == Build(live.repo, live.fresh, << >>)
               b == Build(EmptyRepository, 1, << >>)
    <3>1. d.repo = live.repo /\ d.ids = << >> /\ b.ids = << >>
      BY DEF Build
    <3>2. BuildSound(d) /\ Simulated(config, Live, b, 0)
      BY LivesSound, TypedHere, SimulatedFirst
    <3>3. Taken(d, 0)
      BY TypedHere, Pieces DEF Taken
    <3> HIDE DEF d, b
    <3>4. InStep(d, b, live.repo, 0)
      BY <3>1, <3>2, <3>3 DEF InStep, OneToOne
    <3> QED
      BY <1>2, <1>3, <3>4 DEF d, b
  <2>4. n \in 1 .. N /\ n - 1 \in 0 .. N /\ ~ (n <= n - 1)
    <3> HIDE DEF N
    <3> QED
      BY <1>1, <2>2, <2>3
  <2>5. InStep(h[n - 1], f[n - 1], live.repo, n - 1)
    BY <2>1, <2>4
  <2>6. InStep(CommitRound(h[n - 1], Live, config, n), SandboxRound(f[n - 1], Live, config, n),
               live.repo, n)
    BY <2>4, <2>5, EndpointInStep, RuleInStep
  <2> QED
    BY <1>2, <1>3, <2>2, <2>4, <2>6
<1>5. InStep(h[N], f[N], live.repo, N)
  BY <1>1, <1>4
<1> QED
  BY <1>2, <1>3, <1>5

\* Endpoints that are alike answer a request alike.
LEMMA TwinsAnswerAlike ==
  ASSUME NEW r, NEW e, NEW s, NEW g, Twins(e, g), Alike(r, e.id, s, g.id), NEW ctx
  PROVE  AnswerAlike(r, e, s, g, ctx)
<1> DEFINE params == PathParams(SplitPath(e.path), SplitPath(ctx.path))
           here == Decision(r, e.id, ctx, params)
           there == Decision(s, g.id, ctx, params)
<1>1. e.path = g.path /\ here = there /\ DelayStep(r, e.id) = DelayStep(s, g.id)
  BY DEF Twins, Alike
<1>2. /\ ResolveMatched(r, e, ctx).step
           = IF here.outcome = "raise" THEN "raise"
             ELSE IF DelayStep(r, e.id) = "none" THEN "render" ELSE DelayStep(r, e.id)
      /\ ResolveMatched(r, e, ctx).selected
           = IF here.outcome = "raise" THEN Selected(NotFound, FALSE) ELSE here.selected
  BY ResolvedByDecision
<1>3. /\ ResolveMatched(s, g, ctx).step
           = IF there.outcome = "raise" THEN "raise"
             ELSE IF DelayStep(s, g.id) = "none" THEN "render" ELSE DelayStep(s, g.id)
      /\ ResolveMatched(s, g, ctx).selected
           = IF there.outcome = "raise" THEN Selected(NotFound, FALSE) ELSE there.selected
  BY <1>1, ResolvedByDecision
<1> HIDE DEF here, there
<1> QED
  BY <1>1, <1>2, <1>3 DEF AnswerAlike

\* Whatever the project has already, an endpoint that commit creates answers as its
\* twin in the sandbox: round by round both get the same rules, and the rules of an
\* endpoint that commit left out go to no other.
THEOREM CreatedAsSimulatedHolds == Spec => []CreatedAsSimulated
<1>1. ASSUME ConfigTyped
      PROVE  CreatedAsSimulated
  <2> DEFINE sandbox == SandboxRepository(Live, config)
  <2> SUFFICES ASSUME DistinctKeys, ~ HasIssues(config), NEW live \in Lives,
                      NEW p \in DOMAIN Committed(live).repo.endpoints \ DOMAIN live.repo.endpoints
               PROVE  \E q \in DOMAIN sandbox.endpoints :
                        /\ Twins(Committed(live).repo.endpoints[p], sandbox.endpoints[q])
                        /\ \A ctx : AnswerAlike(Committed(live).repo,
                                                Committed(live).repo.endpoints[p],
                                                sandbox, sandbox.endpoints[q], ctx)
    BY DEF CreatedAsSimulated
  <2>1. KeysKnown(config)
    BY DEF HasIssues, KeysKnown
  <2>2. PICK b : b.repo = sandbox /\ InStep(Committed(live), b, live.repo, Rounds(config))
    BY <1>1, <2>1, EndInStep
  <2> DEFINE d == Committed(live)
             e == d.repo.endpoints[p]
  <2> HIDE DEF d, sandbox
  <2>3. PICK key \in DOMAIN d.ids : e.id = d.ids[key]
    BY <2>2 DEF InStep, d
  <2>4. key \in DOMAIN b.ids /\ Paired(d.repo, d.ids[key], b.repo, b.ids[key])
    BY <2>2 DEF InStep, d
  <2>5. PICK g : HasEndpoint(d.repo, e.id, g) /\ HasEndpoint(b.repo, b.ids[key], g)
    BY <2>3, <2>4 DEF Paired
  <2>6. Twins(e, g)
    <3>1. DistinctIds(d.repo.endpoints) /\ p \in DOMAIN d.repo.endpoints
      BY <2>2 DEF InStep, BuildSound, Sound, Integral, d
    <3> QED
      BY <2>5, <3>1 DEF HasEndpoint, DistinctIds
  <2>7. PICK q \in DOMAIN b.repo.endpoints :
          b.repo.endpoints[q].id = b.ids[key] /\ Twins(b.repo.endpoints[q], g)
    BY <2>5 DEF HasEndpoint
  <2>8. Twins(e, b.repo.endpoints[q])
    BY <2>6, <2>7 DEF Twins
  <2>9. Alike(d.repo, e.id, b.repo, b.repo.endpoints[q].id)
    BY <2>3, <2>4, <2>7 DEF Paired
  <2>10. \A ctx : AnswerAlike(d.repo, e, b.repo, b.repo.endpoints[q], ctx)
    <3> DEFINE other == b.repo.endpoints[q]
    <3> HIDE DEF e, other
    <3> QED
      BY <2>8, <2>9, TwinsAnswerAlike DEF other
  <2> QED
    BY <2>2, <2>7, <2>8, <2>10 DEF d
<1> QED
  BY <1>1, ConfigTypedHolds, PTL
================================================================================
