SPECIFICATION MCSpec
CONSTANTS
    Scenes = {"asked", "cut", "sent", "both", "two"}
    \* AssistantConversation
    Asks = {"ask1", "ask2"}
    Listings = {"list1"}
    Users = {"u1", "u2"}
    Texts = {"t1"}
    Opened = {TRUE, FALSE}
    HistoryLength = 3
    \* PromptChunks
    Sizes = {0, 1, 2, 3, 5}
    MaxItems = 4
    MaxTokens = 7
    Retries = 3
    \* IssuesSummary
    Analyses = {"quiz1", "quiz2"}
    Tasks = {"task1"}
    Types = {"ty1", "ty2"}
    Descriptions = {"de1"}
    MaxRetries = 1
    MaxRedeliveries = 1
INVARIANT TypesOK
INVARIANT MessagesAreInPlace
INVARIANT UnansweredHaveACause
INVARIANT ChunkedDataIsAccounted
INVARIANT MergeIsReference
INVARIANT FrequenciesAreReported
PROPERTY OnlyResolvedDisappear
\* Each request is one call: all of them end.
CHECK_DEADLOCK FALSE
