SPECIFICATION AFairSpec
CONSTANTS
    Questions = {q1}
    MaxRequests = 1
    MaxProcesses = 2
INVARIANTS
    ATypeOK
    AcceptedIsAnswered
PROPERTIES
    EveryQuestionReplied
    ImplementsServer
CHECK_DEADLOCK FALSE
