SPECIFICATION Spec
CONSTANTS
    Ids = {q1, q2, q3}
    Texts = {a, b}
INVARIANTS RecentAreLatest
PROPERTIES OneEntryPerId

