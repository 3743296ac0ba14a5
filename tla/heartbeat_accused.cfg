SPECIFICATION Spec
CONSTANTS
    Servers = {1, 2, 3}
    Mortal = {1, 2, 3}
    MaxCrashes = 1
    Watchers = {"w1"}
    Discovery = "d"
    Interval = 2
    Timeout = 6
INVARIANT FailedHasFailed
