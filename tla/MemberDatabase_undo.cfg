SPECIFICATION Spec
CONSTANTS
    Ids = {i1, i2}
    Hashes = {h1}
    NoMarker = NoMarker
    EntrypointMarker = EntrypointMarker
    Absent = Absent
    Nobody = Nobody
    Components = {"SERVER"}
    Bootstraps = {"recovery"}
    MaxFaults = 3
CHECK_DEADLOCK FALSE
INVARIANTS
    OnlyWholeStarted
