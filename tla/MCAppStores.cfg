CONSTANTS
    Apps = {"lido", "lidooracle", "registry"}
    MaxCalls = 2
    MaxFailures = 1
    MaxReopened = 1
SPECIFICATION Spec
 
INVARIANT ListMatchesCount
CHECK_DEADLOCK FALSE
