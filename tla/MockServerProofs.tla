---------------------------- MODULE MockServerProofs ----------------------------
(***************************************************************************)
(* Invariants of the DEO runtime, for all projects, paths, requests,       *)
(* creations and bounds.                                                   *)
(***************************************************************************)
EXTENDS MockServer, PipelineProofs

\* The configuration is sound, and every identifier that was ever handed out is
\* below fresh: this is what makes ConfigIntegrity inductive across restarts.
ConfigInv ==
  /\ fresh \in Nat /\ SeedIds <= fresh
  /\ Sound(repo, fresh)
  /\ UniqueSignatures(repo)

\* Identifiers below m are below a greater n.
LEMMA SoundMonotone ==
  ASSUME NEW r, NEW m \in Nat, NEW n \in Nat, m <= n, Sound(r, m)
  PROVE  Sound(r, n)
<1>1. /\ \A i \in DOMAIN r.endpoints : r.endpoints[i].id < n
      /\ \A i \in DOMAIN r.responses : r.responses[i].id < n /\ r.responses[i].endpoint_id < n
      /\ \A i \in DOMAIN r.delays : r.delays[i].endpoint_id < n
  BY SoundIds
<1> QED
  BY <1>1 DEF Sound, IdsBelow

LEMMA SeedSound == Sound(Seed, SeedIds) /\ UniqueSignatures(Seed) /\ SeedIds \in Nat
BY SeedAssumption DEF Sound

LEMMA ConfigInvInit == Init => ConfigInv
BY SeedSound DEF Init, ConfigInv

LEMMA ConfigInvStep == ConfigInv /\ [Next]_vars => ConfigInv'
<1> SUFFICES ASSUME ConfigInv, [Next]_vars
             PROVE  ConfigInv'
  OBVIOUS
<1>0. /\ fresh \in Nat /\ SeedIds <= fresh /\ SeedIds \in Nat
      /\ Sound(repo, fresh) /\ UniqueSignatures(repo)
  BY SeedSound DEF ConfigInv
<1>1. ASSUME UNCHANGED <<repo, fresh>>
      PROVE  ConfigInv'
  BY <1>1 DEF ConfigInv
<1>2. ASSUME NEW r \in Requests, Arrive(r)
      PROVE  ConfigInv'
  BY <1>1, <1>2 DEF Arrive
<1>3. ASSUME NEW r \in Requests, Disconnect(r)
      PROVE  ConfigInv'
  BY <1>1, <1>3 DEF Disconnect
<1>4. ASSUME NEW r \in Requests, BodyRead(r)
      PROVE  ConfigInv'
  BY <1>1, <1>4 DEF BodyRead
<1>5. ASSUME NEW r \in Requests, Wake(r)
      PROVE  ConfigInv'
  BY <1>1, <1>5 DEF Wake
<1>6. ASSUME NEW r \in Requests, SaveRequestLog(r)
      PROVE  ConfigInv'
  BY <1>1, <1>6 DEF SaveRequestLog
<1>7. ASSUME NEW post \in EndpointPosts, PostEndpoint(post)
      PROVE  ConfigInv'
  <2>1. post.project_id \in Projects /\ post.body \in EndpointCreateRequest
    BY PostAssumption
  <2>2. /\ repo' = CreateEndpoint(repo, post.project_id, post.body, fresh, fresh + 1)
        /\ fresh' = fresh + 2
        /\ ~ EndpointSignatureExists(repo, post.project_id, post.body.method, post.body.path)
    BY <1>7 DEF PostEndpoint
  <2>3. Sound(repo', fresh')
    BY <1>0, <2>1, <2>2, CreateEndpointSound
  <2>4. UniqueSignatures(repo')
    BY <1>0, <2>2, SignaturesStayUnique DEF Sound, RepositoryType
  <2> QED
    BY <1>0, <2>2, <2>3, <2>4 DEF ConfigInv
<1>8. ASSUME NEW post \in RulePosts, NEW endpoint_id \in 1 .. fresh, PostRule(post, endpoint_id)
      PROVE  ConfigInv'
  <2>1. post.body \in RuleCreateRequest
    BY PostAssumption
  <2>2. /\ repo' = CreateRule(repo, endpoint_id, post.body, fresh)
        /\ fresh' = fresh + 1
        /\ EndpointExists(repo, post.project_id, endpoint_id)
    BY <1>8 DEF PostRule
  <2>3. Sound(repo', fresh')
    BY <1>0, <2>1, <2>2, CreateRuleSound
  <2>4. UniqueSignatures(repo')
    BY <1>0, <2>2 DEF CreateRule, UniqueSignatures
  <2> QED
    BY <1>0, <2>2, <2>3, <2>4 DEF ConfigInv
<1>9. CASE Tick
  BY <1>1, <1>9 DEF Tick
<1>10. CASE Restart
  <2>1. repo' = Seed /\ fresh' = fresh
    BY <1>10 DEF Restart
  <2>2. Sound(repo', fresh')
    BY <1>0, <2>1, SeedSound, SoundMonotone
  <2> QED
    BY <1>0, <2>1, <2>2, SeedSound DEF ConfigInv
<1>11. CASE UNCHANGED vars
  BY <1>1, <1>11 DEF vars
<1> QED
  BY <1>2, <1>3, <1>4, <1>5, <1>6, <1>7, <1>8, <1>9, <1>10, <1>11 DEF Next, Step

THEOREM ConfigInvHolds == Spec => []ConfigInv
BY ConfigInvInit, ConfigInvStep, PTL DEF Spec

\* The repository keeps its relational shape: identifiers are keys, every endpoint
\* has one default response and at most one delay, every rule's action is a
\* response of the rule's endpoint, over restarts and stale identifiers.
THEOREM ConfigIntegrityHolds == Spec => []ConfigIntegrity
<1>1. ConfigInv => ConfigIntegrity
  BY DEF ConfigInv, Sound, ConfigIntegrity
<1> QED
  BY <1>1, ConfigInvHolds, PTL

\* No two endpoints of a project share method and normalised path.
THEOREM UniqueSignatureHolds == Spec => []UniqueSignature
<1>1. ConfigInv => UniqueSignature
  BY DEF ConfigInv, UniqueSignature
<1> QED
  BY <1>1, ConfigInvHolds, PTL

--------------------------------------------------------------------------------

CallType == [phase : Phases, ctx : Contexts, endpoint_id : Nat,
             selected : SelectedType, created_at : Nat]

LogType == [call : Requests, project_id : Projects, endpoint_id : Nat,
            response_code : Statuses \cup {NotFound, Unconfigured}, created_at : Nat]

\* Stripping slashes leaves a path.
LEMMA StripSlashesPath ==
  ASSUME NEW path \in Paths
  PROVE  StripSlashes(path) \in Paths
<1> DEFINE filled == {i \in DOMAIN path : path[i] # Empty}
           first  == CHOOSE i \in filled : \A j \in filled : i <= j
           last   == CHOOSE i \in filled : \A j \in filled : j <= i
<1>1. DOMAIN path = 1 .. Len(path) /\ Len(path) \in Nat
  BY LenProperties DEF Paths
<1>2. CASE filled = {}
  BY <1>2 DEF StripSlashes, Paths
<1>3. CASE filled # {}
  <2>1. filled \in SUBSET (1 .. Len(path)) /\ filled \in SUBSET Nat
    BY <1>1
  <2>2. first \in filled /\ last \in filled
    BY <1>1, <1>3, <2>1, LeastExists, GreatestExists
  <2>3. first \in 1 .. Len(path) /\ last \in 1 .. Len(path)
    BY <2>1, <2>2
  <2>4. StripSlashes(path) = SubSeq(path, first, last)
    BY <1>3 DEF StripSlashes
  <2> HIDE DEF first, last
  <2>5. \A i \in 1 .. Len(path) : path[i] \in RawSegments
    BY ElementOfSeq DEF Paths
  <2>6. \A i \in first .. last : path[i] \in RawSegments
    BY <1>1, <2>3, <2>5
  <2>7. SubSeq(path, first, last) \in Seq(RawSegments)
    BY <2>3, <2>6, SubSeqProperties
  <2> QED
    BY <2>4, <2>7 DEF Paths
<1> QED
  BY <1>2, <1>3

\* What the handler passes to resolve is a request of the call's project and method.
LEMMA RequestContextFacts ==
  ASSUME NEW r \in Requests, call[r].ctx \in Contexts
  PROVE  /\ RequestContext(r).path \in Paths
         /\ RequestContext(r).method = call[r].ctx.method
         /\ call[r].ctx.project_id \in Projects
<1>1. /\ call[r].ctx \in [project_id : Projects, method : Methods, path : Paths,
                          fields : {call[r].ctx.fields}, exotic : BOOLEAN]
  BY ContextAssumption
<1>2. StripSlashes(call[r].ctx.path) \in Paths
  BY <1>1, StripSlashesPath
<1> QED
  BY <1>1, <1>2 DEF RequestContext

\* BodyRead leaves the call sleeping, failed or answered with what resolve said.
LEMMA BodyReadEffect ==
  ASSUME NEW r \in Requests, TypeOK, BodyRead(r)
  PROVE  LET resolution == Resolve(repo, call[r].ctx.project_id, RequestContext(r))
         IN  \E state \in CallType :
               /\ call' = [call EXCEPT ![r] = state]
               /\ state.phase \in {"sleeping", "responded", "failed"}
               /\ state.ctx = call[r].ctx
               /\ state.endpoint_id = resolution.endpoint_id
               /\ state.phase \in Answered =>
                    state.selected = resolution.selected /\ resolution.step # "raise"
<1> DEFINE resolution == Resolve(repo, call[r].ctx.project_id, RequestContext(r))
           old        == call[r]
           state ==
             CASE resolution.step = "render" -> Finished(old, resolution)
               [] resolution.step = "sleep"  ->
                    [old EXCEPT !.phase = "sleeping",
                                !.endpoint_id = resolution.endpoint_id,
                                !.selected = resolution.selected]
               [] resolution.step = "raise"  ->
                    [old EXCEPT !.phase = "failed", !.endpoint_id = resolution.endpoint_id]
<1>1. old \in CallType /\ clock \in Nat /\ repo \in RepositoryType
  BY DEF TypeOK, CallType, SelectedType
<1>2. /\ resolution.step \in {"render", "sleep", "raise"}
      /\ resolution.endpoint_id \in Nat
      /\ resolution.selected \in SelectedType
  <2>1. RequestContext(r).path \in Paths
    BY <1>1, RequestContextFacts DEF CallType
  <2> QED
    BY <1>1, <2>1, ResolveTyped
<1>3. call' = [call EXCEPT ![r] = state]
  BY DEF BodyRead
<1> HIDE DEF resolution, old
<1>4. /\ state \in CallType
      /\ state.phase \in {"sleeping", "responded", "failed"}
      /\ state.ctx = old.ctx
      /\ state.endpoint_id = resolution.endpoint_id
      /\ state.phase \in Answered =>
           state.selected = resolution.selected /\ resolution.step # "raise"
  <2>1. CASE resolution.step = "render"
    <3>1. state = Finished(old, resolution)
      BY <2>1
    <3> HIDE DEF state
    <3> QED
      BY <1>1, <1>2, <2>1, <3>1 DEF Finished, CallType, Phases
  <2>2. CASE resolution.step = "sleep"
    <3>1. state = [old EXCEPT !.phase = "sleeping",
                              !.endpoint_id = resolution.endpoint_id,
                              !.selected = resolution.selected]
      BY <2>2
    <3> HIDE DEF state
    <3> QED
      BY <1>1, <1>2, <2>2, <3>1 DEF CallType, Phases
  <2>3. CASE resolution.step = "raise"
    <3>1. state = [old EXCEPT !.phase = "failed", !.endpoint_id = resolution.endpoint_id]
      BY <2>3
    <3> HIDE DEF state
    <3> QED
      BY <1>1, <1>2, <2>3, <3>1 DEF CallType, Phases, Answered
  <2> QED
    BY <1>2, <2>1, <2>2, <2>3
<1> HIDE DEF state
<1> QED
  BY <1>3, <1>4 DEF old, resolution

\* Waking up keeps what was resolved before the sleep.
LEMMA WakeEffect ==
  ASSUME NEW r \in Requests, TypeOK, Wake(r)
  PROVE  \E state \in CallType :
           /\ call' = [call EXCEPT ![r] = state]
           /\ state.phase \in {"responded", "failed"}
           /\ state.ctx = call[r].ctx
           /\ state.endpoint_id = call[r].endpoint_id
           /\ state.selected = call[r].selected
           /\ call[r].phase \in Answered
<1> DEFINE old        == call[r]
           resolution == Resolution("render", old.endpoint_id, old.selected)
           state      == Finished(old, resolution)
<1>1. old \in CallType /\ clock \in Nat
  BY DEF TypeOK, CallType, SelectedType
<1>2. call' = [call EXCEPT ![r] = state] /\ old.phase \in Answered
  BY DEF Wake, Answered
<1>3. resolution.endpoint_id = old.endpoint_id /\ resolution.selected = old.selected
  BY ResolutionFields
<1> HIDE DEF old, resolution
<1>4. state \in CallType /\ state.ctx = old.ctx /\ state.endpoint_id = old.endpoint_id
        /\ state.selected = old.selected /\ state.phase \in {"responded", "failed"}
  BY <1>1, <1>3 DEF Finished, CallType, Phases
<1> HIDE DEF state
<1> QED
  BY <1>2, <1>4 DEF old

--------------------------------------------------------------------------------

LEMMA TypeOKInit == Init => TypeOK
<1> SUFFICES ASSUME Init
             PROVE  TypeOK
  OBVIOUS
<1>1. Seed \in RepositoryType /\ SeedIds \in Nat
  BY SeedAssumption
<1>2. AnyContext \in Contexts
  BY ContextAssumption DEF AnyContext
<1>3. IdleCall \in CallType
  BY <1>2 DEF IdleCall, CallType, SelectedType, Selected, NoId, Phases
<1>4. call \in [Requests -> CallType]
  <2> HIDE DEF IdleCall
  <2> QED
    BY <1>3 DEF Init
<1>5. SizesOf(Seed) \in [endpoints : Nat, responses : Nat, rules : Nat, delays : Nat]
  BY <1>1, LenProperties DEF SizesOf, RepositoryType
<1>6. << >> \in Seq(LogType)
  OBVIOUS
<1> QED
  BY <1>1, <1>4, <1>5, <1>6 DEF Init, TypeOK, CallType, SelectedType, LogType

LEMMA TypeOKStep == TypeOK /\ ConfigInv' /\ [Next]_vars => TypeOK'
<1> SUFFICES ASSUME TypeOK, ConfigInv', [Next]_vars
             PROVE  TypeOK'
  OBVIOUS
<1>0. /\ repo' \in RepositoryType /\ fresh' \in Nat
      /\ repo \in RepositoryType /\ request_logs \in Seq(LogType)
      /\ call \in [Requests -> CallType]
      /\ clock \in Nat /\ restarts \in Nat
      /\ seen \in [Requests -> [endpoints : Nat, responses : Nat, rules : Nat, delays : Nat]]
  BY DEF TypeOK, ConfigInv, Sound, CallType, SelectedType, LogType
<1>1. ASSUME request_logs' \in Seq(LogType), call' \in [Requests -> CallType],
             clock' \in Nat, restarts' \in Nat,
             seen' \in [Requests -> [endpoints : Nat, responses : Nat, rules : Nat, delays : Nat]]
      PROVE  TypeOK'
  BY <1>0, <1>1 DEF TypeOK, CallType, SelectedType, LogType
<1>2. ASSUME NEW r \in Requests, Arrive(r)
      PROVE  TypeOK'
  <2>1. PICK ctx \in Contexts : call' = [call EXCEPT ![r].phase = "reading", ![r].ctx = ctx]
    BY <1>2 DEF Arrive
  <2>2. call' \in [Requests -> CallType]
    BY <1>0, <2>1 DEF CallType, Phases
  <2> QED
    BY <1>0, <1>1, <1>2, <2>2 DEF Arrive
<1>3. ASSUME NEW r \in Requests, Disconnect(r)
      PROVE  TypeOK'
  <2>1. call' \in [Requests -> CallType]
    BY <1>0, <1>3 DEF Disconnect, CallType, Phases
  <2> QED
    BY <1>0, <1>1, <1>3, <2>1 DEF Disconnect
<1>4. ASSUME NEW r \in Requests, BodyRead(r)
      PROVE  TypeOK'
  <2>1. call' \in [Requests -> CallType]
    BY <1>0, <1>4, BodyReadEffect
  <2>2. SizesOf(repo) \in [endpoints : Nat, responses : Nat, rules : Nat, delays : Nat]
    BY <1>0, LenProperties DEF SizesOf, RepositoryType
  <2>3. seen' \in [Requests -> [endpoints : Nat, responses : Nat, rules : Nat, delays : Nat]]
    BY <1>0, <1>4, <2>2 DEF BodyRead
  <2> QED
    BY <1>0, <1>1, <1>4, <2>1, <2>3 DEF BodyRead
<1>5. ASSUME NEW r \in Requests, Wake(r)
      PROVE  TypeOK'
  <2>1. call' \in [Requests -> CallType]
    BY <1>0, <1>5, WakeEffect
  <2> QED
    BY <1>0, <1>1, <1>5, <2>1 DEF Wake
<1>6. ASSUME NEW r \in Requests, SaveRequestLog(r)
      PROVE  TypeOK'
  <2>1. call' \in [Requests -> CallType]
    BY <1>0, <1>6 DEF SaveRequestLog, CallType, Phases
  <2>2. LogEntry(r) \in LogType
    BY <1>0, RequestContextFacts DEF LogEntry, LogType, CallType, SelectedType
  <2>3. request_logs' \in Seq(LogType)
    BY <1>0, <1>6, <2>2, AppendProperties DEF SaveRequestLog
  <2> QED
    BY <1>0, <1>1, <1>6, <2>1, <2>3 DEF SaveRequestLog
<1>7. ASSUME NEW post, PostEndpoint(post)
      PROVE  TypeOK'
  BY <1>0, <1>1, <1>7 DEF PostEndpoint
<1>8. ASSUME NEW post, NEW endpoint_id, PostRule(post, endpoint_id)
      PROVE  TypeOK'
  BY <1>0, <1>1, <1>8 DEF PostRule
<1>9. CASE Tick
  BY <1>0, <1>1, <1>9 DEF Tick
<1>10. CASE Restart
  <2>1. call' \in [Requests -> CallType]
    <3>1. \A r \in Requests : call[r] \in CallType
      BY <1>0
    <3>2. \A r \in Requests : [call[r] EXCEPT !.phase = "gone"] \in CallType
      BY <3>1 DEF CallType, Phases
    <3> QED
      BY <1>10, <3>1, <3>2 DEF Restart
  <2>2. request_logs' \in Seq(LogType)
    BY <1>10 DEF Restart
  <2> QED
    BY <1>0, <1>1, <1>10, <2>1, <2>2 DEF Restart
<1>11. CASE UNCHANGED vars
  BY <1>0, <1>1, <1>11 DEF vars
<1> QED
  BY <1>2, <1>3, <1>4, <1>5, <1>6, <1>7, <1>8, <1>9, <1>10, <1>11 DEF Next, Step

\* Every variable holds what the code can store in it; in particular the handler
\* never meets a status or an endpoint that is not configured.
THEOREM TypeOKHolds == Spec => []TypeOK
BY TypeOKInit, TypeOKStep, ConfigInvHolds, PTL DEF Spec

--------------------------------------------------------------------------------

\* ServedByOwnEndpoint for one call c under the configuration r.
Served(r, c) ==
  c.phase \in Answered /\ c.endpoint_id # NoId =>
    /\ \E i \in DOMAIN r.endpoints :
         /\ r.endpoints[i].id = c.endpoint_id
         /\ r.endpoints[i].project_id = c.ctx.project_id
         /\ r.endpoints[i].method = c.ctx.method
         /\ r.endpoints[i].is_active
    /\ \E i \in DOMAIN r.responses :
         /\ r.responses[i].endpoint_id = c.endpoint_id
         /\ r.responses[i].status_code = c.selected.status_code

\* Every record of the lists of r stands at the same position in those of t.
Grows(r, t) ==
  /\ \A i \in DOMAIN r.endpoints : i \in DOMAIN t.endpoints /\ t.endpoints[i] = r.endpoints[i]
  /\ \A i \in DOMAIN r.responses : i \in DOMAIN t.responses /\ t.responses[i] = r.responses[i]

LEMMA ServedGrows ==
  ASSUME NEW r, NEW t, NEW c, Grows(r, t), Served(r, c)
  PROVE  Served(t, c)
BY DEF Served, Grows

LEMMA CreateEndpointGrows ==
  ASSUME NEW r \in RepositoryType, NEW project, NEW request, NEW endpoint_id, NEW response_id
  PROVE  Grows(r, CreateEndpoint(r, project, request, endpoint_id, response_id))
BY AppendExtends DEF CreateEndpoint, Grows, Extends, RepositoryType

LEMMA CreateRuleGrows ==
  ASSUME NEW r \in RepositoryType, NEW endpoint_id, NEW request, NEW response_id
  PROVE  Grows(r, CreateRule(r, endpoint_id, request, response_id))
BY AppendExtends DEF CreateRule, Grows, Extends, RepositoryType

LEMMA ServedStep ==
  TypeOK /\ ConfigInv /\ ServedByOwnEndpoint /\ [Next]_vars => ServedByOwnEndpoint'
<1> SUFFICES ASSUME TypeOK, ConfigInv, ServedByOwnEndpoint, [Next]_vars
             PROVE  ServedByOwnEndpoint'
  OBVIOUS
<1>0. /\ call \in [Requests -> CallType] /\ repo \in RepositoryType /\ Integral(repo)
      /\ \A q \in Requests : Served(repo, call[q])
  BY DEF TypeOK, CallType, SelectedType, ConfigInv, Sound, ServedByOwnEndpoint, Served
<1>1. ASSUME \A q \in Requests : Served(repo', call'[q])
      PROVE  ServedByOwnEndpoint'
  BY <1>1 DEF ServedByOwnEndpoint, Served
<1>2. ASSUME repo' = repo, NEW r \in Requests, NEW state,
             call' = [call EXCEPT ![r] = state], Served(repo, state)
      PROVE  ServedByOwnEndpoint'
  BY <1>0, <1>1, <1>2
<1>3. ASSUME NEW r \in Requests, Arrive(r)
      PROVE  ServedByOwnEndpoint'
  <2>1. PICK ctx \in Contexts : call' = [call EXCEPT ![r].phase = "reading", ![r].ctx = ctx]
    BY <1>3 DEF Arrive
  <2> DEFINE state == [call[r] EXCEPT !.phase = "reading", !.ctx = ctx]
  <2>2. call' = [call EXCEPT ![r] = state]
    BY <1>0, <2>1
  <2>3. state.phase = "reading"
    BY <1>0 DEF CallType
  <2>4. Served(repo, state)
    BY <2>3 DEF Served, Answered
  <2> QED
    BY <1>2, <1>3, <2>2, <2>4 DEF Arrive
<1>4. ASSUME NEW r \in Requests, Disconnect(r)
      PROVE  ServedByOwnEndpoint'
  <2> DEFINE state == [call[r] EXCEPT !.phase = "aborted"]
  <2>1. call' = [call EXCEPT ![r] = state]
    BY <1>4 DEF Disconnect
  <2>2. state.phase = "aborted"
    BY <1>0 DEF CallType
  <2>3. Served(repo, state)
    BY <2>2 DEF Served, Answered
  <2> QED
    BY <1>2, <1>4, <2>1, <2>3 DEF Disconnect
<1>5. ASSUME NEW r \in Requests, BodyRead(r)
      PROVE  ServedByOwnEndpoint'
  <2> DEFINE project    == call[r].ctx.project_id
             ctx        == RequestContext(r)
             resolution == Resolve(repo, project, ctx)
  <2>1. PICK state \in CallType :
          /\ call' = [call EXCEPT ![r] = state]
          /\ state.ctx = call[r].ctx
          /\ state.endpoint_id = resolution.endpoint_id
          /\ state.phase \in Answered =>
               state.selected = resolution.selected /\ resolution.step # "raise"
    BY <1>5, BodyReadEffect
  <2>2. ctx.path \in Paths /\ ctx.method = call[r].ctx.method
    BY <1>0, RequestContextFacts DEF CallType
  <2>3. Served(repo, state)
    <3> HIDE DEF ctx, project
    <3>1. SUFFICES ASSUME state.phase \in Answered, state.endpoint_id # NoId
                   PROVE  Served(repo, state)
      BY DEF Served
    <3>2. resolution.endpoint_id # NoId /\ resolution.step # "raise"
      BY <2>1, <3>1
    <3>3. /\ \E i \in DOMAIN repo.endpoints :
               /\ repo.endpoints[i].id = resolution.endpoint_id
               /\ repo.endpoints[i].project_id = project
               /\ repo.endpoints[i].method = ctx.method
               /\ repo.endpoints[i].is_active
          /\ \E i \in DOMAIN repo.responses :
               /\ repo.responses[i].endpoint_id = resolution.endpoint_id
               /\ repo.responses[i].status_code = resolution.selected.status_code
      BY <1>0, <2>2, <3>2, ResolveServesOwn
    <3> HIDE DEF resolution
    <3> QED
      BY <2>1, <2>2, <3>1, <3>3 DEF Served, project
  <2> QED
    BY <1>2, <1>5, <2>1, <2>3 DEF BodyRead
<1>6. ASSUME NEW r \in Requests, Wake(r)
      PROVE  ServedByOwnEndpoint'
  <2>1. PICK state : /\ call' = [call EXCEPT ![r] = state]
                     /\ state.ctx = call[r].ctx
                     /\ state.endpoint_id = call[r].endpoint_id
                     /\ state.selected = call[r].selected
                     /\ call[r].phase \in Answered
    BY <1>6, WakeEffect
  <2>2. Served(repo, state)
    BY <1>0, <2>1 DEF Served
  <2> QED
    BY <1>2, <1>6, <2>1, <2>2 DEF Wake
<1>7. ASSUME NEW r \in Requests, SaveRequestLog(r)
      PROVE  ServedByOwnEndpoint'
  <2> DEFINE state == [call[r] EXCEPT !.phase = "logged"]
  <2>1. call' = [call EXCEPT ![r] = state] /\ call[r].phase \in Answered
    BY <1>7 DEF SaveRequestLog, Answered
  <2>2. /\ state.ctx = call[r].ctx /\ state.endpoint_id = call[r].endpoint_id
        /\ state.selected = call[r].selected
    BY <1>0 DEF CallType
  <2>3. Served(repo, state)
    <3> HIDE DEF state
    <3> QED
      BY <1>0, <2>1, <2>2 DEF Served
  <2> QED
    BY <1>2, <1>7, <2>1, <2>3 DEF SaveRequestLog
<1>8. ASSUME Grows(repo, repo'), call' = call
      PROVE  ServedByOwnEndpoint'
  BY <1>0, <1>1, <1>8, ServedGrows
<1>9. ASSUME NEW post, PostEndpoint(post)
      PROVE  ServedByOwnEndpoint'
  BY <1>0, <1>8, <1>9, CreateEndpointGrows DEF PostEndpoint
<1>10. ASSUME NEW post, NEW endpoint_id, PostRule(post, endpoint_id)
       PROVE  ServedByOwnEndpoint'
  BY <1>0, <1>8, <1>10, CreateRuleGrows DEF PostRule
<1>11. CASE Restart
  <2>1. \A r \in Requests : call'[r].phase \notin Answered
    <3>1. ASSUME NEW r \in Requests
          PROVE  call'[r].phase \in {"idle", "gone"}
      BY <1>0, <1>11 DEF Restart, CallType
    <3> QED
      BY <3>1 DEF Answered
  <2> QED
    BY <1>1, <2>1 DEF Served
<1>12. ASSUME repo' = repo, call' = call
       PROVE  ServedByOwnEndpoint'
  BY <1>0, <1>1, <1>12
<1> QED
  BY <1>3, <1>4, <1>5, <1>6, <1>7, <1>9, <1>10, <1>11, <1>12 DEF Next, Step, Tick, vars

\* A call that was routed to an endpoint is answered, and logged, with a response
\* of an active endpoint of its own project and method: never with the 501
\* placeholder, nor with a response of another endpoint or tenant.
THEOREM ServedByOwnEndpointHolds == Spec => []ServedByOwnEndpoint
<1>1. Init => ServedByOwnEndpoint
  BY DEF Init, ServedByOwnEndpoint, IdleCall, Answered
<1> QED
  BY <1>1, ServedStep, TypeOKHolds, ConfigInvHolds, PTL DEF Spec

--------------------------------------------------------------------------------

\* An endpoint put at the end of the table takes a request over only with a
\* strictly more static template.
LEMMA NewcomerTakesOver ==
  ASSUME NEW r \in RepositoryType, NEW t \in RepositoryType, NEW e,
         t.endpoints = Append(r.endpoints, e), NEW ctx, ctx.path \in Paths
  PROVE  RouteOf(r, ctx) # NoMatch /\ RouteOf(t, ctx) # RouteOf(r, ctx) =>
           StaticOf(t, RouteOf(t, ctx)) > StaticOf(t, RouteOf(r, ctx))
<1> DEFINE old    == GetActiveEndpoints(r, ctx.project_id)
           new    == GetActiveEndpoints(t, ctx.project_id)
           C      == Candidates(r.endpoints, old, ctx.method, ctx.path)
           D      == Candidates(t.endpoints, new, ctx.method, ctx.path)
           n      == Len(r.endpoints) + 1
           before == RouteOf(r, ctx)
           after  == RouteOf(t, ctx)
<1>1. Extends(t.endpoints, r.endpoints, e)
  BY AppendExtends DEF RepositoryType
<1>2. /\ DOMAIN r.endpoints = 1 .. Len(r.endpoints) /\ Len(r.endpoints) \in Nat
      /\ DOMAIN t.endpoints = 1 .. Len(t.endpoints) /\ Len(t.endpoints) \in Nat
  BY LenProperties DEF RepositoryType
<1>3. /\ \A i \in DOMAIN r.endpoints : r.endpoints[i].path \in Paths
      /\ \A i \in DOMAIN t.endpoints : t.endpoints[i].path \in Paths
  <2>1. /\ \A i \in DOMAIN r.endpoints : r.endpoints[i] \in Endpoint
        /\ \A i \in DOMAIN t.endpoints : t.endpoints[i] \in Endpoint
    BY Elements DEF RepositoryType
  <2> QED
    BY <2>1 DEF Endpoint
<1>4. /\ old \in SUBSET Nat /\ old \subseteq DOMAIN r.endpoints /\ 0 \notin old
      /\ new \in SUBSET Nat /\ new \subseteq DOMAIN t.endpoints /\ 0 \notin new
  BY <1>2 DEF GetActiveEndpoints
<1>5. /\ C \subseteq DOMAIN r.endpoints /\ C \subseteq D
      /\ \A i \in D : i \in C \/ i = n
  BY <1>1 DEF Candidates, GetActiveEndpoints, Extends
<1>6. \A i \in DOMAIN t.endpoints : StaticOf(t, i) \in Nat
  BY <1>3, SplitPathLength DEF StaticOf
<1>7. \A i \in DOMAIN r.endpoints : StaticOf(t, i) = StaticOf(r, i)
  BY <1>1 DEF StaticOf, Extends
<1>8. SUFFICES ASSUME before # NoMatch, after # before
               PROVE  StaticOf(t, after) > StaticOf(t, before)
  OBVIOUS
<1>9. before \in C /\ \A j \in C : Preferred(r.endpoints, before, j)
  <2> HIDE DEF old
  <2> QED
    BY <1>3, <1>4, <1>8, MatchIsPreferred DEF RouteOf, old
<1>10. after \in D /\ \A j \in D : Preferred(t.endpoints, after, j)
  BY <1>3, <1>4, <1>5, <1>9, MatchIsPreferred DEF RouteOf
<1> HIDE DEF C, D, before, after
<1>11. /\ \A j \in C : StaticOf(r, before) > StaticOf(r, j)
                         \/ (StaticOf(r, before) = StaticOf(r, j) /\ before <= j)
       /\ \A j \in D : StaticOf(t, after) > StaticOf(t, j)
                         \/ (StaticOf(t, after) = StaticOf(t, j) /\ after <= j)
  BY <1>9, <1>10 DEF Preferred, StaticOf
<1>12. before \in 1 .. Len(r.endpoints) /\ before \in D /\ before \in DOMAIN t.endpoints
  BY <1>1, <1>2, <1>5, <1>9 DEF Extends
<1>13. CASE after \in C
  <2>1. after \in Nat /\ before \in Nat /\ after \in DOMAIN r.endpoints
    BY <1>2, <1>5, <1>12, <1>13
  <2>2. after \in DOMAIN t.endpoints /\ StaticOf(t, after) = StaticOf(r, after)
          /\ StaticOf(t, before) = StaticOf(r, before)
    BY <1>1, <1>2, <1>7, <1>12, <2>1 DEF Extends
  <2>3. StaticOf(t, after) \in Nat /\ StaticOf(t, before) \in Nat
    BY <1>6, <1>12, <2>2
  <2> QED
    BY <1>8, <1>11, <1>12, <1>13, <2>1, <2>2, <2>3
<1>14. CASE after = n
  <2>1. ~ (after <= before)
    BY <1>2, <1>12, <1>14
  <2> QED
    BY <1>11, <1>12, <2>1
<1> QED
  BY <1>5, <1>10, <1>13, <1>14 DEF after

LEMMA RoutingStableStep ==
  TypeOK /\ ConfigInv' /\ [Next]_vars =>
    [Configured => TakesOverOnlyIfMoreStatic]_vars
<1> SUFFICES ASSUME TypeOK, ConfigInv', [Next]_vars, restarts' = restarts
             PROVE  TakesOverOnlyIfMoreStatic
  BY DEF Configured
<1>0. repo \in RepositoryType /\ repo' \in RepositoryType /\ restarts \in Nat
  BY DEF TypeOK, ConfigInv, Sound
<1>1. ASSUME repo'.endpoints = repo.endpoints
      PROVE  TakesOverOnlyIfMoreStatic
  <2>1. \A ctx : RouteOf(repo', ctx) = RouteOf(repo, ctx)
    BY <1>1 DEF RouteOf, GetActiveEndpoints
  <2> QED
    BY <2>1 DEF TakesOverOnlyIfMoreStatic
<1>2. ASSUME NEW post, PostEndpoint(post)
      PROVE  TakesOverOnlyIfMoreStatic
  <2>1. PICK e : repo'.endpoints = Append(repo.endpoints, e)
    BY <1>2 DEF PostEndpoint, CreateEndpoint
  <2>2. \A ctx \in Contexts : ctx.path \in Paths
    BY ContextAssumption
  <2> QED
    BY <1>0, <2>1, <2>2, NewcomerTakesOver DEF TakesOverOnlyIfMoreStatic
<1>3. ASSUME NEW post, NEW endpoint_id, PostRule(post, endpoint_id)
      PROVE  TakesOverOnlyIfMoreStatic
  BY <1>1, <1>3 DEF PostRule, CreateRule
<1>4. ~ Restart
  BY <1>0 DEF Restart
<1> QED
  BY <1>1, <1>2, <1>3, <1>4
     DEF Next, Step, Arrive, Disconnect, BodyRead, Wake, SaveRequestLog, Tick, vars

\* Creating an endpoint takes a request over from another endpoint only if its
\* template is strictly more static: a tie never moves traffic to a newcomer.
THEOREM RoutingStableHolds == Spec => RoutingStable
BY RoutingStableStep, TypeOKHolds, ConfigInvHolds, PTL DEF Spec, RoutingStable

--------------------------------------------------------------------------------
\* What a call was answered from is still there when the lists have grown.

\* All four lists of r are prefixes of those of t.
ListGrows(s, t) == \A i \in DOMAIN s : i \in DOMAIN t /\ t[i] = s[i]

AllGrow(r, t) ==
  /\ ListGrows(r.endpoints, t.endpoints) /\ ListGrows(r.responses, t.responses)
  /\ ListGrows(r.rules, t.rules) /\ ListGrows(r.delays, t.delays)

\* The sizes are those of parts of the lists of r.
Within(sizes, r) ==
  /\ sizes.endpoints \in Nat /\ sizes.endpoints <= Len(r.endpoints)
  /\ sizes.responses \in Nat /\ sizes.responses <= Len(r.responses)
  /\ sizes.rules \in Nat /\ sizes.rules <= Len(r.rules)
  /\ sizes.delays \in Nat /\ sizes.delays <= Len(r.delays)

\* The first n records of a list stay its first n records.
LEMMA PrefixKept ==
  ASSUME NEW S, NEW s \in Seq(S), NEW t \in Seq(S), ListGrows(s, t), NEW n \in Nat,
         n <= Len(s)
  PROVE  SubSeq(t, 1, n) = SubSeq(s, 1, n) /\ n <= Len(t)
<1>1. /\ DOMAIN s = 1 .. Len(s) /\ Len(s) \in Nat
      /\ DOMAIN t = 1 .. Len(t) /\ Len(t) \in Nat
  BY LenProperties
<1>2. n <= Len(t)
  <2>1. CASE n = 0
    BY <1>1, <2>1
  <2>2. CASE n # 0
    BY <1>1, <2>2 DEF ListGrows
  <2> QED
    BY <2>1, <2>2
<1>3. \A i \in 1 .. n : s[i] \in S /\ t[i] \in S /\ t[i] = s[i]
  <2>1. /\ \A i \in DOMAIN s : s[i] \in S
        /\ \A i \in DOMAIN t : t[i] \in S
    BY Elements
  <2> QED
    BY <1>1, <1>2, <2>1 DEF ListGrows
<1> DEFINE a == SubSeq(s, 1, n)
           b == SubSeq(t, 1, n)
<1>4. /\ a \in Seq(S) /\ Len(a) = n /\ \A i \in 1 .. n : a[i] = s[i]
      /\ b \in Seq(S) /\ Len(b) = n /\ \A i \in 1 .. n : b[i] = t[i]
  <2>1. 1 \in Int /\ n \in Int /\ n - 1 + 1 = n
    OBVIOUS
  <2>2. /\ a \in Seq(S) /\ Len(a) = IF 1 <= n THEN n - 1 + 1 ELSE 0
        /\ \A i \in 1 .. n - 1 + 1 : a[i] = s[1 + i - 1]
    BY <1>3, <2>1, SubSeqProperties
  <2>3. /\ b \in Seq(S) /\ Len(b) = IF 1 <= n THEN n - 1 + 1 ELSE 0
        /\ \A i \in 1 .. n - 1 + 1 : b[i] = t[1 + i - 1]
    BY <1>3, <2>1, SubSeqProperties
  <2> HIDE DEF a, b
  <2>4. \A i \in 1 .. n : 1 + i - 1 = i
    OBVIOUS
  <2> QED
    BY <2>2, <2>3, <2>4
<1> HIDE DEF a, b
<1>5. a = b
  BY <1>3, <1>4, SeqEqual
<1> QED
  BY <1>2, <1>5 DEF a, b

LEMMA AsOfGrown ==
  ASSUME NEW r \in RepositoryType, NEW t \in RepositoryType, AllGrow(r, t), NEW sizes,
         Within(sizes, r)
  PROVE  AsOf(t, sizes) = AsOf(r, sizes) /\ Within(sizes, t)
<1>1. /\ SubSeq(t.endpoints, 1, sizes.endpoints) = SubSeq(r.endpoints, 1, sizes.endpoints)
      /\ sizes.endpoints <= Len(t.endpoints)
  BY PrefixKept DEF RepositoryType, AllGrow, Within
<1>2. /\ SubSeq(t.responses, 1, sizes.responses) = SubSeq(r.responses, 1, sizes.responses)
      /\ sizes.responses <= Len(t.responses)
  BY PrefixKept DEF RepositoryType, AllGrow, Within
<1>3. /\ SubSeq(t.rules, 1, sizes.rules) = SubSeq(r.rules, 1, sizes.rules)
      /\ sizes.rules <= Len(t.rules)
  BY PrefixKept DEF RepositoryType, AllGrow, Within
<1>4. /\ SubSeq(t.delays, 1, sizes.delays) = SubSeq(r.delays, 1, sizes.delays)
      /\ sizes.delays <= Len(t.delays)
  BY PrefixKept DEF RepositoryType, AllGrow, Within
<1> QED
  BY <1>1, <1>2, <1>3, <1>4 DEF AsOf, Within

LEMMA AsOfNow ==
  ASSUME NEW r \in RepositoryType
  PROVE  AsOf(r, SizesOf(r)) = r /\ Within(SizesOf(r), r)
<1>1. /\ SubSeq(r.endpoints, 1, Len(r.endpoints)) = r.endpoints
      /\ SubSeq(r.responses, 1, Len(r.responses)) = r.responses
      /\ SubSeq(r.rules, 1, Len(r.rules)) = r.rules
      /\ SubSeq(r.delays, 1, Len(r.delays)) = r.delays
  BY SubSeqFull DEF RepositoryType
<1>2. r = [endpoints |-> r.endpoints, responses |-> r.responses, rules |-> r.rules,
           delays |-> r.delays]
  BY DEF RepositoryType
<1>3. Within(SizesOf(r), r)
  BY LenProperties DEF Within, SizesOf, RepositoryType
<1> QED
  BY <1>1, <1>2, <1>3 DEF AsOf, SizesOf

LEMMA CreationsGrow ==
  ASSUME NEW r \in RepositoryType, NEW p, NEW request, NEW m, NEW n
  PROVE  /\ AllGrow(r, CreateEndpoint(r, p, request, m, n))
         /\ AllGrow(r, CreateRule(r, m, request, n))
<1>1. ASSUME NEW S, NEW s \in Seq(S), NEW e
      PROVE  ListGrows(s, Append(s, e))
  BY AppendExtends DEF Extends, ListGrows
<1>2. \A s : ListGrows(s, s)
  BY DEF ListGrows
<1>3. /\ r.endpoints \in Seq(Endpoint) /\ r.responses \in Seq(Response)
      /\ r.rules \in Seq(Rule) /\ r.delays \in Seq(Delay)
  BY DEF RepositoryType
<1>4. AllGrow(r, CreateEndpoint(r, p, request, m, n))
  BY <1>1, <1>2, <1>3 DEF AllGrow, CreateEndpoint
<1>5. AllGrow(r, CreateRule(r, m, request, n))
  BY <1>1, <1>2, <1>3 DEF AllGrow, CreateRule
<1> QED
  BY <1>4, <1>5

\* AnsweredAsOfBodyRead for one call c, whose body was read when the lists of r had
\* the given sizes.
AsSeen(r, c, sizes) ==
  c.phase \in Answered =>
    LET then == Resolve(AsOf(r, sizes), c.ctx.project_id,
                        [c.ctx EXCEPT !.path = StripSlashes(@)])
    IN  /\ Within(sizes, r)
        /\ c.endpoint_id = then.endpoint_id
        /\ c.selected = then.selected

SeenInv == \A r \in Requests : AsSeen(repo, call[r], seen[r])

LEMMA AsSeenGrown ==
  ASSUME NEW r \in RepositoryType, NEW t \in RepositoryType, AllGrow(r, t),
         NEW c, NEW sizes, AsSeen(r, c, sizes)
  PROVE  AsSeen(t, c, sizes)
<1> SUFFICES ASSUME c.phase \in Answered
             PROVE  AsSeen(t, c, sizes)
  BY DEF AsSeen
<1>1. Within(sizes, r)
  BY DEF AsSeen
<1>2. AsOf(t, sizes) = AsOf(r, sizes) /\ Within(sizes, t)
  BY <1>1, AsOfGrown
<1> QED
  BY <1>2 DEF AsSeen

LEMMA SeenInvStep == TypeOK /\ ConfigInv' /\ SeenInv /\ [Next]_vars => SeenInv'
<1> SUFFICES ASSUME TypeOK, ConfigInv', SeenInv, [Next]_vars
             PROVE  SeenInv'
  OBVIOUS
<1>0. /\ call \in [Requests -> CallType]
      /\ repo \in RepositoryType /\ repo' \in RepositoryType
      /\ seen \in [Requests -> [endpoints : Nat, responses : Nat, rules : Nat, delays : Nat]]
      /\ \A q \in Requests : AsSeen(repo, call[q], seen[q])
  BY DEF TypeOK, CallType, SelectedType, ConfigInv, Sound, SeenInv
<1>1. ASSUME \A q \in Requests : AsSeen(repo', call'[q], seen'[q])
      PROVE  SeenInv'
  BY <1>1 DEF SeenInv
<1>2. ASSUME repo' = repo, seen' = seen, NEW r \in Requests, NEW state,
             call' = [call EXCEPT ![r] = state], AsSeen(repo, state, seen[r])
      PROVE  SeenInv'
  BY <1>0, <1>1, <1>2
<1>3. ASSUME NEW r \in Requests, Arrive(r)
      PROVE  SeenInv'
  <2>1. PICK ctx \in Contexts : call' = [call EXCEPT ![r].phase = "reading", ![r].ctx = ctx]
    BY <1>3 DEF Arrive
  <2> DEFINE state == [call[r] EXCEPT !.phase = "reading", !.ctx = ctx]
  <2>2. call' = [call EXCEPT ![r] = state]
    BY <1>0, <2>1
  <2>3. state.phase = "reading"
    BY <1>0 DEF CallType
  <2>4. AsSeen(repo, state, seen[r])
    BY <2>3 DEF AsSeen, Answered
  <2> QED
    BY <1>2, <1>3, <2>2, <2>4 DEF Arrive
<1>4. ASSUME NEW r \in Requests, Disconnect(r)
      PROVE  SeenInv'
  <2> DEFINE state == [call[r] EXCEPT !.phase = "aborted"]
  <2>1. call' = [call EXCEPT ![r] = state]
    BY <1>4 DEF Disconnect
  <2>2. state.phase = "aborted"
    BY <1>0 DEF CallType
  <2>3. AsSeen(repo, state, seen[r])
    BY <2>2 DEF AsSeen, Answered
  <2> QED
    BY <1>2, <1>4, <2>1, <2>3 DEF Disconnect
<1>5. ASSUME NEW r \in Requests, BodyRead(r)
      PROVE  SeenInv'
  <2> DEFINE resolution == Resolve(repo, call[r].ctx.project_id, RequestContext(r))
  <2>1. PICK state \in CallType :
          /\ call' = [call EXCEPT ![r] = state]
          /\ state.ctx = call[r].ctx
          /\ state.endpoint_id = resolution.endpoint_id
          /\ state.phase \in Answered =>
               state.selected = resolution.selected /\ resolution.step # "raise"
    BY <1>5, BodyReadEffect
  <2>2. repo' = repo /\ seen' = [seen EXCEPT ![r] = SizesOf(repo)]
    BY <1>5 DEF BodyRead
  <2>3. AsOf(repo, SizesOf(repo)) = repo /\ Within(SizesOf(repo), repo)
    BY <1>0, AsOfNow
  <2>4. RequestContext(r) = [state.ctx EXCEPT !.path = StripSlashes(@)]
    BY <2>1 DEF RequestContext
  <2>5. AsSeen(repo, state, SizesOf(repo))
    <3>1. resolution = Resolve(AsOf(repo, SizesOf(repo)), state.ctx.project_id,
                               [state.ctx EXCEPT !.path = StripSlashes(@)])
      BY <2>1, <2>3, <2>4
    <3> HIDE DEF resolution
    <3> QED
      BY <2>1, <2>3, <3>1 DEF AsSeen
  <2>6. ASSUME NEW q \in Requests
        PROVE  AsSeen(repo', call'[q], seen'[q])
    <3>1. CASE q = r
      BY <1>0, <2>1, <2>2, <2>5, <3>1
    <3>2. CASE q # r
      BY <1>0, <2>1, <2>2, <3>2
    <3> QED
      BY <3>1, <3>2
  <2> QED
    BY <1>1, <2>6
<1>6. ASSUME NEW r \in Requests, Wake(r)
      PROVE  SeenInv'
  <2>1. PICK state : /\ call' = [call EXCEPT ![r] = state]
                     /\ state.ctx = call[r].ctx
                     /\ state.endpoint_id = call[r].endpoint_id
                     /\ state.selected = call[r].selected
                     /\ call[r].phase \in Answered
    BY <1>6, WakeEffect
  <2>2. AsSeen(repo, state, seen[r])
    BY <1>0, <2>1 DEF AsSeen
  <2> QED
    BY <1>2, <1>6, <2>1, <2>2 DEF Wake
<1>7. ASSUME NEW r \in Requests, SaveRequestLog(r)
      PROVE  SeenInv'
  <2> DEFINE state == [call[r] EXCEPT !.phase = "logged"]
  <2>1. call' = [call EXCEPT ![r] = state] /\ call[r].phase \in Answered
    BY <1>7 DEF SaveRequestLog, Answered
  <2>2. /\ state.ctx = call[r].ctx /\ state.endpoint_id = call[r].endpoint_id
        /\ state.selected = call[r].selected
    BY <1>0 DEF CallType
  <2>3. AsSeen(repo, state, seen[r])
    <3> HIDE DEF state
    <3> QED
      BY <1>0, <2>1, <2>2 DEF AsSeen
  <2> QED
    BY <1>2, <1>7, <2>1, <2>3 DEF SaveRequestLog
<1>8. ASSUME AllGrow(repo, repo'), UNCHANGED <<call, seen>>
      PROVE  SeenInv'
  BY <1>0, <1>1, <1>8, AsSeenGrown
<1>9. ASSUME NEW post, PostEndpoint(post)
      PROVE  SeenInv'
  BY <1>0, <1>8, <1>9, CreationsGrow DEF PostEndpoint
<1>10. ASSUME NEW post, NEW endpoint_id, PostRule(post, endpoint_id)
       PROVE  SeenInv'
  BY <1>0, <1>8, <1>10, CreationsGrow DEF PostRule
<1>11. CASE Restart
  <2>1. ASSUME NEW q \in Requests
        PROVE  AsSeen(repo', call'[q], seen'[q])
    <3>1. call'[q].phase \in {"idle", "gone"}
      BY <1>0, <1>11 DEF Restart, CallType
    <3> QED
      BY <3>1 DEF AsSeen, Answered
  <2> QED
    BY <1>1, <2>1
<1>12. ASSUME UNCHANGED <<repo, call, seen>>
       PROVE  SeenInv'
  BY <1>0, <1>1, <1>12
<1> QED
  BY <1>3, <1>4, <1>5, <1>6, <1>7, <1>9, <1>10, <1>11, <1>12 DEF Next, Step, Tick, vars

LEMMA SeenInvInit == Init => SeenInv
BY DEF Init, SeenInv, AsSeen, IdleCall, Answered

LEMMA SeenInvMeans == SeenInv => AnsweredAsOfBodyRead
BY DEF SeenInv, AsSeen, AnsweredAsOfBodyRead, RequestContext

\* A call is answered, and logged, as the configuration said when its body was read,
\* whatever is created while it sleeps in its delay and until its response drained.
THEOREM AnsweredAsOfBodyReadHolds == Spec => []AnsweredAsOfBodyRead
<1>1. Spec => []SeenInv
  BY SeenInvInit, SeenInvStep, TypeOKHolds, ConfigInvHolds, PTL DEF Spec
<1> QED
  BY <1>1, SeenInvMeans, PTL

--------------------------------------------------------------------------------
\* The log.

EntriesOf(r) == {i \in DOMAIN request_logs : request_logs[i].call = r}

\* A call that is logged has its one entry, with the status it was answered; any
\* other has none.
LogInv ==
  \A r \in Requests :
    IF call[r].phase = "logged"
      THEN \E i \in DOMAIN request_logs :
             /\ EntriesOf(r) = {i}
             /\ request_logs[i].response_code = call[r].selected.status_code
      ELSE EntriesOf(r) = {}

LEMMA LogInvStep == TypeOK /\ LogInv /\ [Next]_vars => LogInv'
<1> SUFFICES ASSUME TypeOK, LogInv, [Next]_vars
             PROVE  LogInv'
  OBVIOUS
<1>0. call \in [Requests -> CallType] /\ request_logs \in Seq(LogType)
  BY DEF TypeOK, CallType, SelectedType, LogType
<1>1. ASSUME request_logs' = request_logs,
             \A q \in Requests :
               \/ call'[q] = call[q]
               \/ call[q].phase # "logged" /\ call'[q].phase # "logged"
      PROVE  LogInv'
  BY <1>1 DEF LogInv, EntriesOf
<1>2. ASSUME NEW r \in Requests, NEW state, call' = [call EXCEPT ![r] = state],
             call[r].phase # "logged", state.phase # "logged",
             request_logs' = request_logs
      PROVE  LogInv'
  BY <1>0, <1>1, <1>2
<1>3. ASSUME NEW r \in Requests, Arrive(r)
      PROVE  LogInv'
  <2>1. PICK ctx \in Contexts : call' = [call EXCEPT ![r].phase = "reading", ![r].ctx = ctx]
    BY <1>3 DEF Arrive
  <2> DEFINE state == [call[r] EXCEPT !.phase = "reading", !.ctx = ctx]
  <2>2. call' = [call EXCEPT ![r] = state]
    BY <1>0, <2>1
  <2>3. state.phase = "reading"
    BY <1>0 DEF CallType
  <2> QED
    BY <1>2, <1>3, <2>2, <2>3 DEF Arrive
<1>4. ASSUME NEW r \in Requests, Disconnect(r)
      PROVE  LogInv'
  <2> DEFINE state == [call[r] EXCEPT !.phase = "aborted"]
  <2>1. state.phase = "aborted"
    BY <1>0 DEF CallType
  <2> QED
    BY <1>2, <1>4, <2>1 DEF Disconnect
<1>5. ASSUME NEW r \in Requests, BodyRead(r) \/ Wake(r)
      PROVE  LogInv'
  <2>1. \E state \in CallType :
          call' = [call EXCEPT ![r] = state] /\ state.phase # "logged"
    <3>1. CASE BodyRead(r)
      BY <3>1, BodyReadEffect
    <3>2. CASE Wake(r)
      BY <3>2, WakeEffect
    <3> QED
      BY <1>5, <3>1, <3>2
  <2> QED
    BY <1>2, <1>5, <2>1 DEF BodyRead, Wake
<1>6. ASSUME NEW r \in Requests, SaveRequestLog(r)
      PROVE  LogInv'
  <2> DEFINE entry == LogEntry(r)
             n     == Len(request_logs) + 1
  <2>1. /\ request_logs' = Append(request_logs, entry)
        /\ call' = [call EXCEPT ![r].phase = "logged"] /\ call[r].phase = "responded"
    BY <1>6 DEF SaveRequestLog
  <2>2. entry.call = r /\ entry.response_code = call[r].selected.status_code
    BY DEF LogEntry
  <2> HIDE DEF entry
  <2>3. Extends(request_logs', request_logs, entry)
    BY <1>0, <2>1, AppendExtends
  <2>4. n \notin DOMAIN request_logs
    BY <1>0, LenProperties
  <2> HIDE DEF n
  <2>5. ASSUME NEW q \in Requests, q # r
        PROVE  EntriesOf(q)' = EntriesOf(q)
    BY <2>2, <2>3, <2>5 DEF EntriesOf, Extends, n
  <2>6. EntriesOf(r)' = {n}
    <3>1. EntriesOf(r) = {}
      BY <2>1 DEF LogInv
    <3> QED
      BY <2>2, <2>3, <3>1 DEF EntriesOf, Extends, n
  <2>7. /\ n \in DOMAIN request_logs' /\ request_logs'[n] = entry
        /\ \A i \in DOMAIN request_logs :
             i \in DOMAIN request_logs' /\ request_logs'[i] = request_logs[i]
    BY <2>3 DEF Extends, n
  <2>8. /\ call'[r].phase = "logged" /\ call'[r].selected = call[r].selected
        /\ \A q \in Requests : q # r => call'[q] = call[q]
    BY <1>0, <2>1 DEF CallType
  <2>9. ASSUME NEW q \in Requests
        PROVE  IF call'[q].phase = "logged"
                 THEN \E i \in DOMAIN request_logs' :
                        /\ EntriesOf(q)' = {i}
                        /\ request_logs'[i].response_code = call'[q].selected.status_code
                 ELSE EntriesOf(q)' = {}
    <3>1. CASE q = r
      BY <2>2, <2>6, <2>7, <2>8, <3>1
    <3>2. CASE q # r
      BY <2>5, <2>7, <2>8, <3>2 DEF LogInv
    <3> QED
      BY <3>1, <3>2
  <2> QED
    BY <2>9 DEF LogInv
<1>7. CASE Restart
  <2>1. request_logs' = << >>
    BY <1>7 DEF Restart
  <2>2. \A q \in Requests : call'[q].phase \in {"idle", "gone"}
    BY <1>0, <1>7 DEF Restart, CallType
  <2> QED
    BY <2>1, <2>2 DEF LogInv, EntriesOf
<1>8. ASSUME UNCHANGED <<call, request_logs>>
      PROVE  LogInv'
  BY <1>1, <1>8
<1> QED
  BY <1>3, <1>4, <1>5, <1>6, <1>7, <1>8
     DEF Next, Step, PostEndpoint, PostRule, Tick, vars

\* The log has one entry per call whose background task ran, with the status the
\* client was sent, and none for any other call.
THEOREM LoggedOnceHolds == Spec => []LoggedOnce
<1>1. Init => LogInv
  BY DEF Init, LogInv, EntriesOf, IdleCall
<1>2. Spec => []LogInv
  BY <1>1, LogInvStep, TypeOKHolds, PTL DEF Spec
<1>3. LogInv => LoggedOnce
  <2> SUFFICES ASSUME LogInv, NEW r \in Requests
               PROVE  /\ Cardinality(EntriesOf(r)) =
                           IF call[r].phase = "logged" THEN 1 ELSE 0
                      /\ \A i \in EntriesOf(r) :
                           request_logs[i].response_code = call[r].selected.status_code
    BY DEF LoggedOnce, EntriesOf
  <2>1. CASE call[r].phase = "logged"
    <3>1. PICK i \in DOMAIN request_logs :
            /\ EntriesOf(r) = {i}
            /\ request_logs[i].response_code = call[r].selected.status_code
      BY <2>1 DEF LogInv
    <3>2. Cardinality({i}) = 1
      BY FS_Singleton
    <3> QED
      BY <2>1, <3>1, <3>2
  <2>2. CASE call[r].phase # "logged"
    <3>1. EntriesOf(r) = {}
      BY <2>2 DEF LogInv
    <3>2. Cardinality({}) = 0
      BY FS_EmptySet
    <3> QED
      BY <2>2, <3>1, <3>2
  <2> QED
    BY <2>1, <2>2
<1> QED
  BY <1>2, <1>3, PTL

--------------------------------------------------------------------------------
\* The runtime as a MockService.

MappedState  == [r \in Requests |-> ServiceState(call[r].phase)]
MappedAnswer == [r \in Requests |-> AnswerOf(call[r])]
MappedLog    == [i \in DOMAIN request_logs |-> LoggedAnswer(request_logs[i])]

AnswerType == [endpoint_id : Nat, response_code : Statuses \cup {NotFound, Unconfigured}]

\* A step of one call changes what is seen of that call.
LEMMA MappedCall ==
  ASSUME NEW r \in Requests, call \in [Requests -> CallType], NEW c \in CallType,
         call' = [call EXCEPT ![r] = c]
  PROVE  /\ MappedState' = [MappedState EXCEPT ![r] = ServiceState(c.phase)]
         /\ MappedAnswer' = [MappedAnswer EXCEPT ![r] = AnswerOf(c)]
         /\ MappedState[r] = ServiceState(call[r].phase)
         /\ MappedAnswer[r] = AnswerOf(call[r])
         /\ MappedAnswer'[r] = AnswerOf(c)
<1>1. \A q \in Requests : call'[q] = IF q = r THEN c ELSE call[q]
  OBVIOUS
<1>2. MappedState' = [MappedState EXCEPT ![r] = ServiceState(c.phase)]
  BY <1>1 DEF MappedState
<1>3. MappedAnswer' = [MappedAnswer EXCEPT ![r] = AnswerOf(c)]
  BY <1>1 DEF MappedAnswer
<1> QED
  BY <1>1, <1>2, <1>3 DEF MappedState, MappedAnswer

LEMMA AnswerTyped ==
  ASSUME NEW c \in CallType, c.phase \in Answered
  PROVE  AnswerOf(c) \in AnswerType
BY DEF AnswerOf, CallType, SelectedType, AnswerType

\* An entry put at the end of the log is seen at the end of the log.
LEMMA MappedAppend ==
  ASSUME request_logs \in Seq(LogType), NEW entry \in LogType,
         request_logs' = Append(request_logs, entry)
  PROVE  MappedLog' = Append(MappedLog, LoggedAnswer(entry))
<1> DEFINE n == Len(request_logs)
           S == {LoggedAnswer(e) : e \in LogType}
<1>1. n \in Nat /\ DOMAIN request_logs = 1 .. n
  BY LenProperties
<1>2. /\ DOMAIN request_logs' = 1 .. n + 1
      /\ \A i \in 1 .. n : request_logs'[i] = request_logs[i]
      /\ request_logs'[n + 1] = entry
  BY <1>1, AppendProperties, LenProperties
<1>3. \A i \in 1 .. n : request_logs[i] \in LogType
  BY <1>1, Elements
<1> HIDE DEF n
<1>4. /\ MappedLog = [i \in 1 .. n |-> LoggedAnswer(request_logs[i])]
      /\ MappedLog' = [i \in 1 .. n + 1 |-> LoggedAnswer(request_logs'[i])]
  BY <1>1, <1>2 DEF MappedLog
<1>5. MappedLog \in Seq(S) /\ Len(MappedLog) = n
  <2>1. MappedLog \in [1 .. n -> S]
    BY <1>3, <1>4
  <2>2. MappedLog \in Seq(S)
    BY <1>1, <2>1, SeqDef
  <2> QED
    BY <1>1, <1>4, <2>2, LenProperties
<1>6. MappedLog' \in Seq(S) /\ Len(MappedLog') = n + 1
  <2>1. MappedLog' \in [1 .. n + 1 -> S]
    BY <1>1, <1>2, <1>3, <1>4
  <2>2. MappedLog' \in Seq(S)
    BY <1>1, <2>1, SeqDef
  <2> QED
    BY <1>1, <1>4, <2>2, LenProperties
<1>7. LoggedAnswer(entry) \in S
  OBVIOUS
<1> DEFINE s == Append(MappedLog, LoggedAnswer(entry))
<1>8. /\ s \in Seq(S) /\ Len(s) = n + 1
      /\ \A i \in 1 .. n : s[i] = MappedLog[i]
      /\ s[n + 1] = LoggedAnswer(entry)
  <2> HIDE DEF S
  <2> QED
    BY <1>5, <1>7, AppendProperties
<1> HIDE DEF S, s
<1>9. \A i \in 1 .. n + 1 : MappedLog'[i] = s[i]
  BY <1>1, <1>2, <1>4, <1>8
<1>10. MappedLog' = s
  BY <1>6, <1>8, <1>9, SeqEqual
<1> QED
  BY <1>10 DEF s

LEMMA ServiceInit == Init => Service!Init
<1> SUFFICES ASSUME Init
             PROVE  Service!Init
  OBVIOUS
<1>1. \A r \in Requests : ServiceState(call[r].phase) = "open" /\ AnswerOf(call[r]) = NoAnswer
  BY DEF Init, IdleCall, ServiceState, AnswerOf, Answered
<1>2. [i \in DOMAIN request_logs |-> LoggedAnswer(request_logs[i])] = << >>
  BY DEF Init
<1> QED
  BY <1>1, <1>2 DEF Service!Init

\* Every step of the runtime is a step of the service, or nothing to its callers.
LEMMA ServiceStep ==
  TypeOK /\ [Next]_vars => [Service!Next]_(<<MappedState, MappedAnswer, MappedLog>>)
<1> SUFFICES ASSUME TypeOK, [Next]_vars
             PROVE  Service!Next \/ UNCHANGED <<MappedState, MappedAnswer, MappedLog>>
  OBVIOUS
<1>0. call \in [Requests -> CallType] /\ request_logs \in Seq(LogType)
  BY DEF TypeOK, CallType, SelectedType, LogType
<1>1. ASSUME request_logs' = request_logs
      PROVE  UNCHANGED MappedLog
  BY <1>1 DEF MappedLog
<1>2. ASSUME UNCHANGED <<call, request_logs>>
      PROVE  UNCHANGED <<MappedState, MappedAnswer, MappedLog>>
  BY <1>1, <1>2 DEF MappedState, MappedAnswer
<1>3. ASSUME NEW r \in Requests, MappedState[r] = "open",
             MappedState' = [MappedState EXCEPT ![r] = "decided"],
             MappedAnswer' = [MappedAnswer EXCEPT ![r] = MappedAnswer'[r]],
             MappedAnswer'[r] \in AnswerType, UNCHANGED MappedLog
      PROVE  Service!Next
  BY <1>3 DEF Service!Next, Service!Decide, Service!Move, Service!Fix, MappedState,
              MappedAnswer, MappedLog, AnswerType
<1>4. ASSUME NEW r \in Requests, MappedState[r] = "open",
             MappedState' = [MappedState EXCEPT ![r] = "answered"],
             MappedAnswer' = [MappedAnswer EXCEPT ![r] = MappedAnswer'[r]],
             MappedAnswer'[r] \in AnswerType, UNCHANGED MappedLog
      PROVE  Service!Next
  BY <1>4 DEF Service!Next, Service!AnswerAtOnce, Service!Move, Service!Fix, MappedState,
              MappedAnswer, MappedLog, AnswerType
<1>5. ASSUME NEW r \in Requests, MappedState[r] = "decided",
             MappedState' = [MappedState EXCEPT ![r] = "answered"],
             UNCHANGED <<MappedAnswer, MappedLog>>
      PROVE  Service!Next
  BY <1>5 DEF Service!Next, Service!AnswerDecided, Service!Move, MappedState,
              MappedAnswer, MappedLog
<1>6. ASSUME NEW r \in Requests, MappedState[r] = "open" \/ MappedState[r] = "decided",
             MappedState' = [MappedState EXCEPT ![r] = "lost"],
             MappedAnswer' = [MappedAnswer EXCEPT ![r] = NoAnswer], UNCHANGED MappedLog
      PROVE  Service!Next
  BY <1>6 DEF Service!Next, Service!Lose, Service!Move, MappedState, MappedAnswer, MappedLog
<1>7. ASSUME NEW r \in Requests, MappedState[r] = "answered",
             MappedState' = [MappedState EXCEPT ![r] = "logged"],
             MappedLog' = Append(MappedLog, [call |-> r, answer |-> MappedAnswer[r]]),
             UNCHANGED MappedAnswer
      PROVE  Service!Next
  BY <1>7 DEF Service!Next, Service!Log, Service!Move, MappedState, MappedAnswer, MappedLog
<1>8. ASSUME NEW r \in Requests, Arrive(r)
      PROVE  UNCHANGED <<MappedState, MappedAnswer, MappedLog>>
  <2>1. PICK ctx \in Contexts : call' = [call EXCEPT ![r].phase = "reading", ![r].ctx = ctx]
    BY <1>8 DEF Arrive
  <2> DEFINE c == [call[r] EXCEPT !.phase = "reading", !.ctx = ctx]
  <2>2. call' = [call EXCEPT ![r] = c] /\ call[r].phase = "idle"
    BY <1>0, <1>8, <2>1 DEF Arrive
  <2>3. c.phase = "reading" /\ c \in CallType
    BY <1>0 DEF CallType, Phases
  <2> HIDE DEF c
  <2>4. \A q \in Requests :
          /\ ServiceState(call'[q].phase) = ServiceState(call[q].phase)
          /\ AnswerOf(call'[q]) = AnswerOf(call[q])
    <3>1. /\ ServiceState(c.phase) = ServiceState(call[r].phase)
          /\ AnswerOf(c) = AnswerOf(call[r])
      BY <2>2, <2>3 DEF ServiceState, AnswerOf, Answered
    <3>2. \A q \in Requests : call'[q] = IF q = r THEN c ELSE call[q]
      BY <1>0, <2>2
    <3> QED
      BY <3>1, <3>2
  <2> QED
    BY <1>1, <1>8, <2>4 DEF MappedState, MappedAnswer, Arrive
<1>9. ASSUME NEW r \in Requests, Disconnect(r)
      PROVE  Service!Next
  <2> DEFINE c == [call[r] EXCEPT !.phase = "aborted"]
  <2>1. call' = [call EXCEPT ![r] = c] /\ call[r].phase = "reading"
    BY <1>9 DEF Disconnect
  <2>2. c.phase = "aborted" /\ c \in CallType
    BY <1>0 DEF CallType, Phases
  <2> HIDE DEF c
  <2>3. /\ ServiceState(c.phase) = "lost" /\ AnswerOf(c) = NoAnswer
        /\ ServiceState(call[r].phase) = "open"
    BY <2>1, <2>2 DEF ServiceState, AnswerOf, Answered
  <2>4. /\ MappedState' = [MappedState EXCEPT ![r] = "lost"]
        /\ MappedAnswer' = [MappedAnswer EXCEPT ![r] = NoAnswer]
        /\ MappedState[r] = "open"
    BY <1>0, <2>1, <2>2, <2>3, MappedCall
  <2>5. UNCHANGED MappedLog
    BY <1>1, <1>9 DEF Disconnect
  <2> QED
    BY <1>6, <2>4, <2>5
<1>10. ASSUME NEW r \in Requests, BodyRead(r)
       PROVE  Service!Next
  <2>1. PICK c \in CallType :
          call' = [call EXCEPT ![r] = c] /\ c.phase \in {"sleeping", "responded", "failed"}
    BY <1>10, BodyReadEffect
  <2>2. ServiceState(call[r].phase) = "open"
    BY <1>10 DEF BodyRead, ServiceState
  <2>3. UNCHANGED MappedLog
    BY <1>1, <1>10 DEF BodyRead
  <2>4. CASE c.phase = "sleeping"
    <3>1. ServiceState(c.phase) = "decided" /\ AnswerOf(c) \in AnswerType
      BY <2>4, AnswerTyped DEF ServiceState, Answered
    <3> QED
      BY <1>0, <1>3, <2>1, <2>2, <2>3, <3>1, MappedCall
  <2>5. CASE c.phase = "responded"
    <3>1. ServiceState(c.phase) = "answered" /\ AnswerOf(c) \in AnswerType
      BY <2>5, AnswerTyped DEF ServiceState, Answered
    <3> QED
      BY <1>0, <1>4, <2>1, <2>2, <2>3, <3>1, MappedCall
  <2>6. CASE c.phase = "failed"
    <3>1. ServiceState(c.phase) = "lost" /\ AnswerOf(c) = NoAnswer
      BY <2>6 DEF ServiceState, AnswerOf, Answered
    <3>2. /\ MappedState' = [MappedState EXCEPT ![r] = "lost"]
          /\ MappedAnswer' = [MappedAnswer EXCEPT ![r] = NoAnswer]
          /\ MappedState[r] = "open"
      BY <1>0, <2>1, <2>2, <3>1, MappedCall
    <3> QED
      BY <1>6, <2>3, <3>2
  <2> QED
    BY <2>1, <2>4, <2>5, <2>6
<1>11. ASSUME NEW r \in Requests, Wake(r)
       PROVE  Service!Next
  <2>1. PICK c \in CallType :
          /\ call' = [call EXCEPT ![r] = c] /\ c.phase \in {"responded", "failed"}
          /\ c.endpoint_id = call[r].endpoint_id /\ c.selected = call[r].selected
    BY <1>11, WakeEffect
  <2>2. call[r].phase = "sleeping" /\ ServiceState(call[r].phase) = "decided"
    BY <1>11 DEF Wake, ServiceState
  <2>3. UNCHANGED MappedLog
    BY <1>1, <1>11 DEF Wake
  <2>4. CASE c.phase = "responded"
    <3>1. ServiceState(c.phase) = "answered" /\ AnswerOf(c) = AnswerOf(call[r])
      BY <2>1, <2>2, <2>4 DEF ServiceState, AnswerOf, Answered
    <3>2. UNCHANGED MappedAnswer
      <4>1. \A q \in Requests : call'[q] = IF q = r THEN c ELSE call[q]
        BY <1>0, <2>1
      <4> QED
        BY <3>1, <4>1 DEF MappedAnswer
    <3> QED
      BY <1>0, <1>5, <2>1, <2>2, <2>3, <3>1, <3>2, MappedCall
  <2>5. CASE c.phase = "failed"
    <3>1. ServiceState(c.phase) = "lost" /\ AnswerOf(c) = NoAnswer
      BY <2>5 DEF ServiceState, AnswerOf, Answered
    <3>2. /\ MappedState' = [MappedState EXCEPT ![r] = "lost"]
          /\ MappedAnswer' = [MappedAnswer EXCEPT ![r] = NoAnswer]
          /\ MappedState[r] = "decided"
      BY <1>0, <2>1, <2>2, <3>1, MappedCall
    <3> QED
      BY <1>6, <2>3, <3>2
  <2> QED
    BY <2>1, <2>4, <2>5
<1>12. ASSUME NEW r \in Requests, SaveRequestLog(r)
       PROVE  Service!Next
  <2> DEFINE c == [call[r] EXCEPT !.phase = "logged"]
  <2>1. call' = [call EXCEPT ![r] = c] /\ call[r].phase = "responded"
    BY <1>12 DEF SaveRequestLog
  <2>2. /\ c.phase = "logged" /\ c \in CallType
        /\ c.endpoint_id = call[r].endpoint_id /\ c.selected = call[r].selected
    BY <1>0 DEF CallType, Phases
  <2>3. LogEntry(r) \in LogType
    BY <1>0, RequestContextFacts DEF LogEntry, LogType, CallType, SelectedType
  <2>4. MappedLog' = Append(MappedLog, LoggedAnswer(LogEntry(r)))
    BY <1>0, <1>12, <2>3, MappedAppend DEF SaveRequestLog
  <2>5. LoggedAnswer(LogEntry(r)) = [call |-> r, answer |-> AnswerOf(call[r])]
    BY <2>1 DEF LoggedAnswer, LogEntry, AnswerOf, Answered
  <2> HIDE DEF c
  <2>6. /\ ServiceState(c.phase) = "logged" /\ AnswerOf(c) = AnswerOf(call[r])
        /\ ServiceState(call[r].phase) = "answered"
    BY <2>1, <2>2 DEF ServiceState, AnswerOf, Answered
  <2>7. UNCHANGED MappedAnswer
    <3>1. \A q \in Requests : call'[q] = IF q = r THEN c ELSE call[q]
      BY <1>0, <2>1
    <3> QED
      BY <2>6, <3>1 DEF MappedAnswer
  <2> QED
    BY <1>0, <1>7, <2>1, <2>2, <2>4, <2>5, <2>6, <2>7, MappedCall
<1>13. CASE Restart
  <2>1. \A q \in Requests :
          /\ call'[q].phase \in {"idle", "gone"}
          /\ call'[q].phase = "idle" => call[q].phase = "idle"
    BY <1>0, <1>13 DEF Restart, CallType
  <2>2. MappedState' \in [Requests -> {"open", "lost"}]
    BY <2>1 DEF MappedState, ServiceState
  <2>3. \A q \in Requests : MappedState'[q] = "open" => MappedState[q] = "open"
    BY <2>1 DEF MappedState, ServiceState
  <2>4. MappedAnswer' = [q \in Requests |-> NoAnswer]
    BY <2>1 DEF MappedAnswer, AnswerOf, Answered
  <2>5. MappedLog' = << >>
    BY <1>13 DEF Restart, MappedLog
  <2> QED
    BY <2>2, <2>3, <2>4, <2>5
       DEF Service!Next, Service!Crash, MappedState, MappedAnswer, MappedLog
<1>14. CASE UNCHANGED <<call, request_logs>>
  BY <1>2, <1>14
<1> QED
  BY <1>8, <1>9, <1>10, <1>11, <1>12, <1>13, <1>14
     DEF Next, Step, PostEndpoint, PostRule, Tick, vars

\* The runtime keeps the promises of MockService that are about safety: an answer is
\* fixed when the body has been read, sent and logged once as it was fixed, and
\* nothing else is logged.
THEOREM ImplementsSafeService == Spec => Service!SafeSpec
<1>1. TypeOK /\ [Next]_vars => [Service!Next]_(Service!service_vars)
  BY ServiceStep DEF Service!service_vars, MappedState, MappedAnswer, MappedLog
<1> QED
  BY <1>1, ServiceInit, TypeOKHolds, PTL DEF Spec, Service!SafeSpec

--------------------------------------------------------------------------------
\* Rules.

\* What the rules of an endpoint have decided they still decide when the lists have
\* grown, and what decides then is a rule of the same endpoint.
LEMMA DecisionKept ==
  ASSUME NEW r \in RepositoryType, NEW t \in RepositoryType, AllGrow(r, t), NEW ctx,
         NEW i \in DOMAIN r.endpoints
  PROVE  /\ DecisionOf(r, i, ctx) # NoRule => DecisionOf(t, i, ctx) = DecisionOf(r, i, ctx)
         /\ DecisionOf(t, i, ctx) # NoRule =>
              t.rules[DecisionOf(t, i, ctx)].endpoint_id = r.endpoints[i].id
<1> DEFINE e      == r.endpoints[i]
           params == PathParams(SplitPath(e.path), SplitPath(ctx.path))
           old    == {j \in GetRules(r, e.id) : Outcome(r.rules[j], ctx, params) # "no"}
           new    == {j \in GetRules(t, e.id) : Outcome(t.rules[j], ctx, params) # "no"}
           a      == CHOOSE j \in old : \A k \in old : j <= k
           b      == CHOOSE j \in new : \A k \in new : j <= k
<1>1. t.endpoints[i] = e
  BY DEF AllGrow, ListGrows
<1>2. /\ DecisionOf(r, i, ctx) = IF old = {} THEN NoRule ELSE a
      /\ DecisionOf(t, i, ctx) = IF new = {} THEN NoRule ELSE b
  BY <1>1 DEF DecisionOf, FirstDecisive
<1>3. /\ DOMAIN r.rules = 1 .. Len(r.rules) /\ Len(r.rules) \in Nat
      /\ DOMAIN t.rules = 1 .. Len(t.rules) /\ Len(t.rules) \in Nat
  BY LenProperties DEF RepositoryType
<1>4. \A j \in DOMAIN r.rules : j \in DOMAIN t.rules /\ t.rules[j] = r.rules[j]
  BY DEF AllGrow, ListGrows
<1> HIDE DEF params
<1>5. /\ old \in SUBSET Nat /\ new \in SUBSET Nat /\ old \subseteq new
      /\ \A j \in new : j \in old \/ j > Len(r.rules)
      /\ \A j \in old : j <= Len(r.rules)
      /\ \A j \in new : t.rules[j].endpoint_id = e.id
  BY <1>3, <1>4 DEF GetRules
<1> HIDE DEF old, new
<1>6. ASSUME old # {}
      PROVE  a \in old /\ \A k \in old : a <= k
  BY <1>5, <1>6, LeastExists
<1>7. ASSUME new # {}
      PROVE  b \in new /\ \A k \in new : b <= k
  BY <1>5, <1>7, LeastExists
<1> HIDE DEF a, b
<1>8. ASSUME old # {}
      PROVE  new # {} /\ a = b
  <2>1. a \in old /\ a \in new /\ new # {}
    BY <1>5, <1>6, <1>8
  <2>2. b \in new /\ b <= a
    BY <1>7, <2>1
  <2>3. a \in Nat /\ b \in Nat /\ a <= Len(r.rules)
    BY <1>5, <2>1, <2>2
  <2>4. b \in old
    BY <1>3, <1>5, <2>2, <2>3
  <2>5. a <= b
    BY <1>6, <1>8, <2>4
  <2> QED
    BY <2>1, <2>2, <2>3, <2>5
<1> QED
  BY <1>2, <1>5, <1>7, <1>8 DEF NoRule

LEMMA GrownRulesStable ==
  ASSUME repo \in RepositoryType, repo' \in RepositoryType, AllGrow(repo, repo')
  PROVE  EarlierRulesKeepTheirRequests
<1> SUFFICES ASSUME NEW ctx \in Contexts, NEW i \in RoutableOf(repo, ctx)
             PROVE  /\ DecisionOf(repo, i, ctx) # NoRule =>
                         DecisionOf(repo', i, ctx) = DecisionOf(repo, i, ctx)
                    /\ DecisionOf(repo', i, ctx) # NoRule =>
                         repo'.rules[DecisionOf(repo', i, ctx)].endpoint_id
                           = repo.endpoints[i].id
  BY DEF EarlierRulesKeepTheirRequests
<1>1. i \in DOMAIN repo.endpoints
  BY DEF RoutableOf, Candidates, GetActiveEndpoints
<1> QED
  BY <1>1, DecisionKept

LEMMA RulesStableStep ==
  TypeOK /\ ConfigInv' /\ [Next]_vars => [Configured => EarlierRulesKeepTheirRequests]_vars
<1> SUFFICES ASSUME TypeOK, ConfigInv', [Next]_vars, restarts' = restarts
             PROVE  EarlierRulesKeepTheirRequests
  BY DEF Configured
<1>0. repo \in RepositoryType /\ repo' \in RepositoryType /\ restarts \in Nat
  BY DEF TypeOK, ConfigInv, Sound
<1>1. ~ Restart
  BY <1>0 DEF Restart
<1>2. AllGrow(repo, repo')
  <2>1. CASE repo' = repo
    BY <2>1 DEF AllGrow, ListGrows
  <2>2. ASSUME NEW post, PostEndpoint(post)
        PROVE  AllGrow(repo, repo')
    BY <1>0, <2>2, CreationsGrow DEF PostEndpoint
  <2>3. ASSUME NEW post, NEW endpoint_id, PostRule(post, endpoint_id)
        PROVE  AllGrow(repo, repo')
    BY <1>0, <2>3, CreationsGrow DEF PostRule
  <2> QED
    BY <1>1, <2>1, <2>2, <2>3
       DEF Next, Step, Arrive, Disconnect, BodyRead, Wake, SaveRequestLog, Tick, vars
<1> QED
  BY <1>0, <1>2, GrownRulesStable

\* A new rule only gets requests no earlier rule of its endpoint has decided, and
\* never touches another endpoint.
THEOREM RulesStableHolds == Spec => RulesStable
BY RulesStableStep, TypeOKHolds, ConfigInvHolds, PTL DEF Spec, RulesStable

--------------------------------------------------------------------------------
\* The check form.

\* What a user can check is a path of a project.
LEMMA ChecksAreSignatures ==
  ASSUME repo \in RepositoryType, NEW c \in Checks
  PROVE  c[3] \in Paths
<1>1. \A i \in DOMAIN repo.endpoints : repo.endpoints[i] \in Endpoint
  BY Elements DEF RepositoryType
<1>2. \A p \in EndpointPosts : p.body \in EndpointCreateRequest
  BY PostAssumption
<1> QED
  BY <1>1, <1>2 DEF Checks, Endpoint, EndpointCreateRequest

\* An active endpoint without nameless parameters answers a request for its own
\* template, however the template is spelled: the signature that the request
\* shares with it is split into the template's own segments.
LEMMA OwnTemplateResolves ==
  ASSUME repo \in RepositoryType, NEW project, NEW method, NEW path \in Paths,
         NEW i \in DOMAIN repo.endpoints,
         SameSignature(repo.endpoints[i], project, method, path),
         repo.endpoints[i].is_active, ~ Nameless(repo.endpoints[i].path)
  PROVE  Resolves(project, method, path)
<1> DEFINE e      == repo.endpoints[i]
           active == GetActiveEndpoints(repo, project)
<1>1. \A j \in DOMAIN repo.endpoints : repo.endpoints[j].path \in Paths /\ j \in Nat \ {0}
  <2>1. repo.endpoints \in Seq(Endpoint)
    BY DEF RepositoryType
  <2>2. \A j \in DOMAIN repo.endpoints : repo.endpoints[j] \in Endpoint
    BY <2>1, Elements
  <2>3. DOMAIN repo.endpoints = 1 .. Len(repo.endpoints)
    BY <2>1, LenProperties
  <2> QED
    BY <2>2, <2>3 DEF Endpoint
<1>2. SplitPath(path) = SplitPath(e.path)
  <2>1. NormalizePath(e.path) = NormalizePath(path)
    BY DEF SameSignature
  <2>2. SplitPath(NormalizePath(e.path)) = SplitPath(e.path)
    BY <1>1, NormalizedSplitsAlike
  <2>3. SplitPath(NormalizePath(path)) = SplitPath(path)
    BY NormalizedSplitsAlike
  <2> QED
    BY <2>1, <2>2, <2>3
<1>3. MatchSegments(SplitPath(e.path), SplitPath(path))
  BY <1>2 DEF MatchSegments, Nameless
<1>4. i \in active /\ e.method = method
  BY DEF GetActiveEndpoints, SameSignature
<1>5. i \in Candidates(repo.endpoints, active, method, path)
  BY <1>3, <1>4 DEF Candidates
<1>6. active \in SUBSET Nat /\ active \subseteq DOMAIN repo.endpoints /\ 0 \notin active
  BY <1>1 DEF GetActiveEndpoints
<1>7. Match(repo.endpoints, active, method, path) # NoMatch
  BY <1>1, <1>5, <1>6, MatchIsPreferred
<1> QED
  BY <1>7 DEF Resolves

LEMMA TypedExplained == repo \in RepositoryType => CheckExplained
<1> SUFFICES ASSUME repo \in RepositoryType, NEW c \in Checks,
                    EndpointSignatureExists(repo, c[1], c[2], c[3]),
                    ~ Resolves(c[1], c[2], c[3])
             PROVE  \E i \in DOMAIN repo.endpoints :
                      /\ SameSignature(repo.endpoints[i], c[1], c[2], c[3])
                      /\ ~ repo.endpoints[i].is_active \/ Nameless(repo.endpoints[i].path)
  BY DEF CheckExplained
<1>1. PICK i \in DOMAIN repo.endpoints : SameSignature(repo.endpoints[i], c[1], c[2], c[3])
  BY DEF EndpointSignatureExists
<1>2. ~ repo.endpoints[i].is_active \/ Nameless(repo.endpoints[i].path)
  BY <1>1, ChecksAreSignatures, OwnTemplateResolves
<1> QED
  BY <1>1, <1>2

\* A signature that exists and does not resolve is that of an inactive endpoint or
\* of one with a parameter that has no name.
THEOREM CheckExplainedHolds == Spec => []CheckExplained
<1>1. TypeOK => CheckExplained
  BY TypedExplained DEF TypeOK
<1> QED
  BY <1>1, TypeOKHolds, PTL

--------------------------------------------------------------------------------
\* The logs page.

\* A page shows the newest limit entries at the positions own, newest first.
NewestShown(logs, own, page, limit) ==
  LET n == Cardinality(own)
  IN  /\ n \in Nat /\ (n = 0 <=> own = {})
      /\ Len(page) = IF n < limit THEN n ELSE limit
      /\ \A k \in DOMAIN page : \E i \in own : page[k] = logs[i]
      /\ \A k \in 1 .. Len(page) - 1 : page[k].created_at >= page[k + 1].created_at
      /\ \A i \in own, k \in DOMAIN page :
           (\A m \in DOMAIN page : page[m] # logs[i]) =>
              logs[i].created_at <= page[k].created_at

\* What get_request_log_overviews shows of a project's entries.
LEMMA PageOf ==
  ASSUME NEW logs \in Seq(LogType), NEW project, NEW limit \in Nat
  PROVE  NewestShown(logs, {i \in DOMAIN logs : logs[i].project_id = project},
                     GetRequestLogOverviews(logs, project, limit), limit)
<1> DEFINE own     == {i \in DOMAIN logs : logs[i].project_id = project}
           R       == {p \in own \X own : Newer(logs, p[1], p[2])}
           rank(i) == Cardinality(UpTo(own, R, i))
           kth(k)  == CHOOSE i \in own : rank(i) = k
           n       == Cardinality(own)
           shown   == IF n < limit THEN n ELSE limit
           page    == GetRequestLogOverviews(logs, project, limit)
<1>1. /\ IsFiniteSet(own)
      /\ \A i \in own : i \in Nat /\ logs[i].created_at \in Nat
  <2>1. DOMAIN logs = 1 .. Len(logs) /\ Len(logs) \in Nat
    BY LenProperties
  <2>2. IsFiniteSet(1 .. Len(logs)) /\ own \in SUBSET (1 .. Len(logs))
    BY <2>1, FS_Interval
  <2>3. \A i \in DOMAIN logs : logs[i] \in LogType
    BY Elements
  <2> QED
    BY <2>1, <2>2, <2>3, FS_Subset DEF LogType
<1>2. \A i, j \in own :
        <<i, j>> \in R <=>
          \/ logs[i].created_at > logs[j].created_at
          \/ logs[i].created_at = logs[j].created_at /\ i < j
  BY DEF Newer
<1>3. page = [k \in 1 .. shown |-> logs[kth(k)]]
  <2>1. \A i \in own : {j \in own : j = i \/ Newer(logs, j, i)} = UpTo(own, R, i)
    BY DEF UpTo
  <2> DEFINE ranked(i) == Cardinality({j \in own : j = i \/ Newer(logs, j, i)})
             kth2(k)   == CHOOSE i \in own : ranked(i) = k
  <2>2. page = [k \in 1 .. shown |-> logs[kth2(k)]]
    BY DEF GetRequestLogOverviews
  <2>3. \A i \in own : ranked(i) = rank(i)
    BY <2>1
  <2> HIDE DEF ranked, rank, own, page, shown
  <2>4. \A k : kth2(k) = kth(k)
    BY <2>3
  <2> HIDE DEF kth, kth2
  <2> QED
    BY <2>2, <2>4
<1> HIDE DEF R
<1>4. /\ n \in Nat
      /\ \A i \in own : rank(i) \in 1 .. n
      /\ \A i, j \in own : <<i, j>> \in R => rank(i) < rank(j)
      /\ \A k \in 1 .. n : \E i \in own : rank(i) = k
  <2>1. \A i \in own : <<i, i>> \notin R
    BY <1>1, <1>2
  <2>2. \A i, j, k \in own : <<i, j>> \in R /\ <<j, k>> \in R => <<i, k>> \in R
    <3> DEFINE at(i) == logs[i].created_at
    <3>1. \A i \in own : i \in Nat /\ at(i) \in Nat
      BY <1>1
    <3>2. \A i, j \in own : <<i, j>> \in R <=> at(i) > at(j) \/ (at(i) = at(j) /\ i < j)
      BY <1>2
    <3> HIDE DEF at, own
    <3> QED
      BY <3>1, <3>2
  <2>3. \A i, j \in own : i # j => <<i, j>> \in R \/ <<j, i>> \in R
    BY <1>1, <1>2
  <2> HIDE DEF own
  <2> QED
    BY <1>1, <2>1, <2>2, <2>3, Ranks
<1>5. n = 0 <=> own = {}
  <2> HIDE DEF own
  <2> QED
    BY <1>1, FS_EmptySet
<1> HIDE DEF rank, page, own
<1>6. \A i, j \in own : rank(i) <= rank(j) => logs[i].created_at >= logs[j].created_at
  <2> SUFFICES ASSUME NEW i \in own, NEW j \in own, rank(i) <= rank(j)
               PROVE  logs[i].created_at >= logs[j].created_at
    OBVIOUS
  <2>1. rank(i) \in Int /\ rank(j) \in Int
    BY <1>4
  <2>2. <<j, i>> \notin R
    BY <1>4, <2>1
  <2> QED
    BY <1>1, <1>2, <2>2
<1>7. \A i, j \in own : rank(i) = rank(j) => i = j
  <2> SUFFICES ASSUME NEW i \in own, NEW j \in own, rank(i) = rank(j)
               PROVE  i = j
    OBVIOUS
  <2>1. rank(i) \in Int
    BY <1>4
  <2>2. <<i, j>> \notin R /\ <<j, i>> \notin R
    BY <1>4, <2>1
  <2> QED
    BY <1>1, <1>2, <2>2
<1>8. shown \in 0 .. n
  BY <1>4
<1>9. Len(page) = shown /\ DOMAIN page = 1 .. shown
  <2> HIDE DEF shown
  <2> QED
    BY <1>3, <1>4, <1>8
<1>10. \A k \in 1 .. shown : kth(k) \in own /\ rank(kth(k)) = k /\ page[k] = logs[kth(k)]
  <2>1. \A k \in 1 .. shown : k \in 1 .. n
    BY <1>4, <1>8
  <2> HIDE DEF shown, n
  <2> QED
    BY <1>3, <1>4, <2>1
<1> HIDE DEF kth
<1>11. \A k \in 1 .. Len(page) - 1 : page[k].created_at >= page[k + 1].created_at
  <2> SUFFICES ASSUME NEW k \in 1 .. shown - 1
               PROVE  page[k].created_at >= page[k + 1].created_at
    BY <1>9
  <2>1. k \in 1 .. shown /\ k + 1 \in 1 .. shown /\ k <= k + 1
    BY <1>4, <1>8
  <2> HIDE DEF shown
  <2> QED
    BY <1>6, <1>10, <2>1
<1>12. ASSUME NEW i \in own, NEW k \in DOMAIN page, \A m \in DOMAIN page : page[m] # logs[i]
       PROVE  logs[i].created_at <= page[k].created_at
  <2>1. k \in 1 .. shown /\ k \in Int
    BY <1>9
  <2>2. ~ (rank(i) <= shown)
    <3> SUFFICES ASSUME rank(i) <= shown PROVE FALSE
      OBVIOUS
    <3>1. rank(i) \in 1 .. shown
      BY <1>4
    <3> HIDE DEF shown
    <3>2. kth(rank(i)) = i
      BY <1>7, <1>10, <3>1
    <3> QED
      BY <1>9, <1>10, <1>12, <3>1, <3>2
  <2>3. k <= rank(i)
    BY <1>4, <1>8, <2>1, <2>2
  <2>4. logs[kth(k)].created_at >= logs[i].created_at
    <3> HIDE DEF shown
    <3> QED
      BY <1>6, <1>10, <2>1, <2>3
  <2>5. logs[kth(k)].created_at \in Nat /\ logs[i].created_at \in Nat
    <3> HIDE DEF shown
    <3> QED
      BY <1>1, <1>10, <2>1
  <2> HIDE DEF shown
  <2> QED
    BY <1>10, <2>1, <2>4, <2>5
<1>13. \A k \in DOMAIN page : \E i \in own : page[k] = logs[i]
  <2> HIDE DEF shown
  <2> QED
    BY <1>9, <1>10
<1> QED
  BY <1>4, <1>5, <1>9, <1>11, <1>12, <1>13 DEF own, page, NewestShown

LEMMA TypedRecentFirst == request_logs \in Seq(LogType) => RecentFirst
<1> SUFFICES ASSUME request_logs \in Seq(LogType), NEW project \in Projects, NEW limit \in 0 .. 2
             PROVE  LET page == ListLogs(project, limit)
                        own  == {i \in DOMAIN request_logs :
                                   request_logs[i].project_id = project}
                        shown == {page[k] : k \in DOMAIN page}
                    IN  /\ Len(page) =
                             IF limit <= 1 THEN (IF own = {} THEN 0 ELSE 1)
                             ELSE IF Cardinality(own) < limit THEN Cardinality(own) ELSE limit
                        /\ shown \subseteq {request_logs[i] : i \in own}
                        /\ \A k \in 1 .. Len(page) - 1 :
                             page[k].created_at >= page[k + 1].created_at
                        /\ \A i \in own, k \in DOMAIN page :
                             request_logs[i] \notin shown =>
                               request_logs[i].created_at <= page[k].created_at
  BY DEF RecentFirst
<1> DEFINE own     == {i \in DOMAIN request_logs : request_logs[i].project_id = project}
           clamped == IF limit <= 1 THEN 1 ELSE limit
           n       == Cardinality(own)
           page    == GetRequestLogOverviews(request_logs, project, clamped)
<1>1. clamped \in Nat /\ ListLogs(project, limit) = page
  <2>1. \/ limit = 0 /\ clamped = 1
        \/ limit = 1 /\ clamped = 1
        \/ limit = 2 /\ clamped = 2
    OBVIOUS
  <2> HIDE DEF clamped
  <2> QED
    BY <2>1 DEF ListLogs, LogPageMax
<1>2. NewestShown(request_logs, own, page, clamped)
  <2> HIDE DEF clamped
  <2> QED
    BY <1>1, PageOf
<1> HIDE DEF own, page
<1>3. Len(page) = IF limit <= 1 THEN (IF own = {} THEN 0 ELSE 1)
                  ELSE IF n < limit THEN n ELSE limit
  <2> HIDE DEF n
  <2> QED
    BY <1>2 DEF n, NewestShown
<1> DEFINE shown == {page[k] : k \in DOMAIN page}
<1>4. shown \subseteq {request_logs[i] : i \in own}
  BY <1>2 DEF NewestShown
<1>5. \A k \in 1 .. Len(page) - 1 : page[k].created_at >= page[k + 1].created_at
  BY <1>2 DEF NewestShown
<1>6. \A i \in own, k \in DOMAIN page :
        request_logs[i] \notin shown => request_logs[i].created_at <= page[k].created_at
  BY <1>2 DEF NewestShown
<1> QED
  BY <1>1, <1>3, <1>4, <1>5, <1>6 DEF own

\* A page of the log shows the newest entries of the project, newest first,
\* whatever the order in which they were saved.
THEOREM RecentFirstHolds == Spec => []RecentFirst
<1>1. TypeOK => RecentFirst
  BY TypedRecentFirst DEF TypeOK, LogType
<1> QED
  BY <1>1, TypeOKHolds, PTL
================================================================================
