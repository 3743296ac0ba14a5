SPECIFICATION Spec
CONSTANTS
    Connections = {c1, c2}
    Content = content
    MaxTerms = 2
    MaxQuotes = 1
INVARIANT RunningServes
CHECK_DEADLOCK FALSE
