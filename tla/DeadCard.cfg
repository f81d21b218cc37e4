SPECIFICATION ChatSpec
CONSTANTS
    MaxConvs = 1
    MaxQuestions = 1
    MaxTokens = 1
    MaxLoads = 1
INVARIANT CardsCanBeAnswered
CHECK_DEADLOCK FALSE
