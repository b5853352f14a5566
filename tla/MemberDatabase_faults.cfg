SPECIFICATION FairSpec
CONSTANTS
    Ids = {i1, i2, i3, i4}
    Hashes = {h1, h2}
    NoMarker = NoMarker
    EntrypointMarker = EntrypointMarker
    Absent = Absent
    Nobody = Nobody
    Components = {"SERVER", "HA"}
    Bootstraps = {"new", "recovery"}
    MaxFaults = 3
CHECK_DEADLOCK FALSE
INVARIANTS
    UnfinishedNotStarted
    MarkedServedIsRecorded
PROPERTIES
    ServedDataKept
    ReportIsKept
    EventuallyRuns
