CONSTANTS
    Requests <- MCRequests
    MaxHeader = 4
    Chunk = 2
    AnswerSizes = {1, 2}
    Undeclared = Undeclared
SPECIFICATION FairSpec
INVARIANTS TypeOK BodyIsWhole HeaderLimit RefusedForCause AnswerIsWhole
PROPERTY CompleteIsTaken
CHECK_DEADLOCK FALSE
