\* Four requests made at any time, and four yields and awaits.
SPECIFICATION GeneratorSpec
CONSTANTS
    MaxRequests = 4
    MaxSteps = 4
    Faulty = FALSE
INVARIANT HeadServed
PROPERTY HeadAnswered
CHECK_DEADLOCK FALSE
