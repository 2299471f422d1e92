--------------------------- MODULE MCArchitectWorkflow ---------------------------
(***************************************************************************)
(* Instances of ArchitectWorkflow for TLC: a configuration that is good,   *)
(* one the critic rejects, one the sandbox fails, one it raises on; specs  *)
(* and plans with and without a fallback.                                  *)
(***************************************************************************)
EXTENDS ArchitectWorkflow, TLC

CONSTANTS good, rejected, failing, crashing, plan, oddPlan, spec, oddSpec

MCConfigs        == {good, rejected, failing, crashing}
MCFallbackPlan   == spec :> plan @@ oddSpec :> NoPlan
MCFallbackConfig == plan :> good @@ oddPlan :> NoConfig
MCClean          == {good, failing, crashing}
MCSandboxVerdict ==
  good :> "passed" @@ rejected :> "failed" @@ failing :> "failed" @@ crashing :> "raised"
MCSlow           == {good, failing}

\* Fewer choices, for two tasks that are followed to their ends.
TwoConfigs        == {good, rejected}
OneFallbackConfig == plan :> rejected
TwoVerdicts       == good :> "passed" @@ rejected :> "failed"

TaskSymmetry == Permutations(Callers)
================================================================================
