\* Two tasks that are followed to their ends, with and without a transport.
SPECIFICATION FairSpec
CHECK_DEADLOCK FALSE
CONSTANTS
  Callers = {t1, t2}
  FailureThreshold = 3
  RawSpecs = {spec, oddSpec}
  Plans = {plan}
  Configs <- TwoConfigs
  FallbackPlan <- MCFallbackPlan
  FallbackConfig <- OneFallbackConfig
  Clean = {good}
  SandboxVerdict <- TwoVerdicts
  Slow = {good}
  NoPlan = NoPlan
  NoConfig = NoConfig
  Idle = Idle
  good = good
  rejected = rejected
  failing = failing
  crashing = crashing
  plan = plan
  oddPlan = oddPlan
  spec = spec
  oddSpec = oddSpec
PROPERTIES ImplementsLifecycle
