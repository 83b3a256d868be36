SPECIFICATION RuntimeSpec
CONSTANTS
    Parts = {"regexps"}
    MaxRequests = 6
CHECK_DEADLOCK FALSE
PROPERTY
    EveryMatchingEnds
