\* Configurations with base <= max delay (the deployed one is 1 s / 60 s),
\* and enough attempts for the doubling to reach every cap.
CONSTANTS
    Bases = {1, 2, 3}
    MaxDelays = {3, 5, 8, 60}
    MaxAttempts = 8

SPECIFICATION Spec
\* The function returns: the final states have no successor.
CHECK_DEADLOCK FALSE
INVARIANT TypeOK
INVARIANT DelaysFollowSpec
