SPECIFICATION RuntimeSpec
CONSTANTS
    Parts = {"promises", "generator", "regexps"}
    MaxRequests = 6
CHECK_DEADLOCK FALSE
INVARIANTS
    PromisesExact AnswersExact RegularMatchExact
PROPERTY
    MatchingEnds
