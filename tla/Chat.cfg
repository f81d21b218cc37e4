SPECIFICATION FairChatSpec
CONSTANTS
    MaxConvs = 2
    MaxQuestions = 2
    MaxTokens = 2
    MaxLoads = 2
INVARIANTS
    ChatTypeOK
    ScreenIsActive
    ScreenKeepsAnswers
    CardIsCurrent
PROPERTY PageBecomesReady
CHECK_DEADLOCK FALSE
