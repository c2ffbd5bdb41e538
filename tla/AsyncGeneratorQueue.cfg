\* Four requests, in a generator that completes while some of them wait.
SPECIFICATION GeneratorSpec
CONSTANTS
    MaxRequests = 4
    MaxSteps = 2
    Faulty = FALSE
PROPERTY RequestsAnswered
CHECK_DEADLOCK FALSE
