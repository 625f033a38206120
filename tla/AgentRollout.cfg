CONSTANTS
  Servers = {1}
  Loops <- MCLoops
  ToolLoops <- MCToolLoops
  Engines <- MCEngines
  MaxTokens = 5
  Workers = 1
  Samples = {"s1"}
  N = 2
  ResponseLength = 4
  MaxAnswer = 1
  Interaction = TRUE
  MaxAssistantTurns = 2
  MaxUserTurns = 0
  MaxVersion = 1
SPECIFICATION FairSpec
INVARIANTS
  Quiescent
  LogprobsAligned
  VersionsEnclosed
  RequestsForgotten
PROPERTIES
  RefinesTrajectory
  SamplesFinish
CHECK_DEADLOCK FALSE
