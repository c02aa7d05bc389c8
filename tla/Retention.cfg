SPECIFICATION FairSpec
CONSTANTS
    Kinds = {"fact", "preference", "error"}
    Requested = {8, 34}
    LinkCounts = {0, 5}
    MaxJobs = 1
    MaxTouches = 1
PROPERTIES AnchorKept RecallProtects EventuallyForgotten
CHECK_DEADLOCK FALSE
