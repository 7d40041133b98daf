SPECIFICATION Spec
CONSTANTS
    MaxReviews = 2
    MaxSends = 1
    BoardChoice = {"PUBLISH", "REVISE"}
    MaxWaits = 2
    Steps = 2
    MaxProcesses = 2
PROPERTIES
    PublishedReviewStays
CHECK_DEADLOCK FALSE
