SPECIFICATION FairSpec
CONSTANTS
    NTargets = 2
    NULL = NULL
    Faults = {"lost", "deadwire"}
PROPERTIES ProbeSurvives
