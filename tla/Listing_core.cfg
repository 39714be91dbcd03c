CONSTANTS
    Id <- Ids
    Asked <- AskedNumbers
    Micros = 2
    DefaultLimit = 1
    MaxLimit = 2
    MaxTime = 3
SPECIFICATION FairSpec
INVARIANTS TypeOK SkippedOnlyWithinMillisecond RepeatedOnlyOnTie
PROPERTIES PagesInOrder PagingEnds
\* When the pages are read and the rows removed nothing more happens.
CHECK_DEADLOCK FALSE
