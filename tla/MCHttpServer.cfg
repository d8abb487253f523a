\* Two clients, one after the other, with all kinds of requests.
SPECIFICATION HttpSpec
CONSTANTS
    SndBuf = 2
    WriteCompleteCallback = FALSE
    Kinds <- AllKinds
    HeaderLength = 2
    MaxRequests = 2
    MaxClients = 2
INVARIANTS HttpTypeOK RightAnswer AnswersInOrder AnswerAfterBody ResponseIntact
PROPERTIES EveryRequestAnswered CloseFollows
CHECK_DEADLOCK FALSE
