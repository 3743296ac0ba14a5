SPECIFICATION Spec
CONSTANTS
    Connections = {c1, c2}
    Content = content
    MaxTerms = 2
    MaxQuotes = 1
INVARIANTS TypeOK NoMessageTwice SkippedOnlyForLeavers ReadersListed
PROPERTIES StopsServing ServesFirstTerm
CHECK_DEADLOCK FALSE
