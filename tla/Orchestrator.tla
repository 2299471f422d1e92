------------------------------ MODULE Orchestrator ------------------------------
(***************************************************************************)
(* The pipeline of DEOOrchestrator.resolve (deo/orchestrator.py) with its  *)
(* stages 3 to 5: deo/response_selector.py, deo/delay_engine.py and what   *)
(* deo/response_renderer.py and Starlette do with header templates.  The   *)
(* repository's methods never give up the event loop, so everything up to  *)
(* the sleep of the delay is one operator, and so is everything after it.  *)
(***************************************************************************)
EXTENDS Repository

NoId == 0           \* an absent endpoint or response identifier
NotFound == 404     \* endpoint_not_found
Unconfigured == 501 \* response_not_configured

LeastOf(positions) == CHOOSE i \in positions : \A j \in positions : i <= j

\* What rendering and sending need of a SelectedResponse.
Selected(status_code, echo) == [status_code |-> status_code, echo |-> echo]

\* Mutant: the identifier of the response is taken for its status.
SelectIdentifier(repo, endpoint_id, action) ==
  Selected(repo.responses[LeastOf(GetResponses(repo, endpoint_id))].id, FALSE)

\* ResponseSelector.select: the response the action names, else the default
\* one, else the 501 placeholder.
Select(repo, endpoint_id, action) ==
  LET own      == GetResponses(repo, endpoint_id)
      named    == {i \in own : repo.responses[i].id = action}
      defaults == {i \in own : repo.responses[i].is_default}
      chosen   == LeastOf(IF named # {} THEN named ELSE defaults)
  IN  IF named = {} /\ defaults = {} THEN Selected(Unconfigured, FALSE)
      ELSE Selected(repo.responses[chosen].status_code, repo.responses[chosen].echo)

\* DelayEngine.apply: return at once, sleep, or ValueError.
DelayStep(repo, endpoint_id) ==
  LET i == GetDelay(repo, endpoint_id)
  IN  IF i = NoDelay THEN "none"
      ELSE IF repo.delays[i].delay_ms <= 0 THEN "none"
      ELSE IF repo.delays[i].mode \notin DelayModes THEN "raise"
      ELSE "sleep"

\* The action of the rule that matches, or NoId.
RuleAction(repo, endpoint_id, ctx, params) ==
  LET i == FirstDecisive(repo.rules, GetRules(repo, endpoint_id), ctx, params)
  IN  IF i = NoRule THEN NoId ELSE repo.rules[i].action

\* Where resolve stands when it first gives up the event loop or finishes:
\* "raise" (an exception escapes), "sleep" (in the delay), or "render".
Resolution(step, endpoint_id, selected) ==
  [step |-> step, endpoint_id |-> endpoint_id, selected |-> selected]

ResolveMatched(repo, endpoint, ctx) ==
  LET params   == PathParams(SplitPath(endpoint.path), SplitPath(ctx.path))
      raises   == Raises(repo.rules, GetRules(repo, endpoint.id), ctx, params)
      selected == Select(repo, endpoint.id, RuleAction(repo, endpoint.id, ctx, params))
      delay    == DelayStep(repo, endpoint.id)
  IN  IF raises THEN Resolution("raise", endpoint.id, Selected(NotFound, FALSE))
      ELSE Resolution(IF delay = "none" THEN "render" ELSE delay, endpoint.id, selected)

Resolve(repo, project, ctx) ==
  LET i == Match(repo.endpoints, GetActiveEndpoints(repo, project), ctx.method, ctx.path)
  IN  IF i = NoMatch THEN Resolution("render", NoId, Selected(NotFound, FALSE))
      ELSE ResolveMatched(repo, repo.endpoints[i], ctx)

\* Header values are encoded in latin-1 when the Response is built: a header
\* template that copies text of the request fails on text outside latin-1.
HeadersEncodable(selected, ctx) == ~ (selected.echo /\ ctx.exotic)
================================================================================
