\* Four calls of a script, from the program or from jobs, with every combinator.
SPECIFICATION Spec
CONSTANTS
    MaxCalls = 4
    Plain = {1}
    Combinators = {"all", "allSettled", "any", "race"}
INVARIANT OneDecider AdoptsOutcome HandlersOnceInOrder TrackerExact CombinedRight FinallyKeeps
CHECK_DEADLOCK FALSE
