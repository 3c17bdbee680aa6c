SPECIFICATION FairSpec
CONSTANTS
  MaxJobs = 2
  QueueLen = 1
  Intervals = {1}
  Actions = {"message", "tool"}
  MaxAdds = 3
  MaxNow = 2
  MaxCrashes = 1
INVARIANTS
  RoundFiresAll
  OneShotOnce
  RemovedStaysAway
PROPERTIES
  AgentReturns
