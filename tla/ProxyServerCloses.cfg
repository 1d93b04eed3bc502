CONSTANTS
    Requests = 2
SPECIFICATION FairSpec
PROPERTY ReturnsWhenServerCloses
CHECK_DEADLOCK FALSE
