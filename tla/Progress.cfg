CONSTANT None = None
SPECIFICATION FairSpec
PROPERTIES SavedIsAnswered EveryJobSettles CallsReturn
CHECK_DEADLOCK FALSE
