\* Three requests of which two, or at least one, must complete.  The rollout
\* stops when the batch is returned or its failure raised.
SPECIFICATION Spec
CHECK_DEADLOCK FALSE
CONSTANTS
  Requests = {1, 2, 3}
  PromptLen = 2
  ResponseLen = 3
  MaxModelLen = 6
  MaxAssistantTurns = 2
  MaxUserTurns = 1
  MaxObservation = 1
  Retokenized = 1
  GenPrompt = 1
  Configs <- MCConfigs
INVARIANT
  AnswersFit
PROPERTIES
  AnswersOnce
  BatchEnds
