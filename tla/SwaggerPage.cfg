\* Three releases of the server and four visits; the browser goes on with a page.
SPECIFICATION FairSpec
CONSTANTS
    MaxVersion = 3
    MaxVisits = 4
INVARIANTS
    OneRelease
    SchemaIsCurrent
PROPERTIES
    PageEnds
CHECK_DEADLOCK FALSE
