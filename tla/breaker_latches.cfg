\* An outage that ends: is the breaker closed again?
SPECIFICATION FairLLMSpec
CHECK_DEADLOCK FALSE
CONSTANTS
  Callers = {c1, c2}
  FailureThreshold = 3
PROPERTIES Recovers
