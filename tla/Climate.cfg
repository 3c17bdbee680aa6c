\* The constants of environment_service.c made smaller, with the order between
\* them that its labels rest on: FailureLimit + FirstBackoff > StaleSeconds.
SPECIFICATION FairSpec
CONSTANTS
  StaleSeconds = 3
  FailureLimit = 2
  FirstBackoff = 2
  MaxBackoff = 7
  WarmupSeconds = 3
  FailureWrap = 4
  MaxStep = 1
  Low = 1
  High = 3
  Hysteresis = 1
  Temps = {0, 1, 2, 3, 4}   \* below, at and between the limits, and above
INVARIANTS
  LiveIsRecent
  OneLabel
PROPERTIES
  WarningIsEarned
  Recovers
