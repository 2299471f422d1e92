\* Two tasks, with and without a transport, every mix of verdicts.
SPECIFICATION Spec
CHECK_DEADLOCK FALSE
CONSTANTS
  Callers = {t1, t2}
  FailureThreshold = 3
  RawSpecs = {spec, oddSpec}
  Plans = {plan, oddPlan}
  Configs <- MCConfigs
  FallbackPlan <- MCFallbackPlan
  FallbackConfig <- MCFallbackConfig
  Clean <- MCClean
  SandboxVerdict <- MCSandboxVerdict
  Slow <- MCSlow
  NoPlan = NoPlan
  NoConfig = NoConfig
  Idle = Idle
  good = good
  rejected = rejected
  failing = failing
  crashing = crashing
  plan = plan
  oddPlan = oddPlan
  spec = spec
  oddSpec = oddSpec
SYMMETRY TaskSymmetry
INVARIANTS TypeOK SucceededVerified RetryBudget RepairInformed DeadLetteredOnce CallsAwaited
  OpenIffExhausted OutageBounded
