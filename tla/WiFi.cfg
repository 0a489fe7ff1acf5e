SPECIFICATION Spec
CONSTANTS
    Patient = TRUE
    MaxScans = 2
    MaxJoins = 2
    MaxAps = 2
INVARIANT StationTrue
PROPERTIES ScanSettles JoinSettles
CHECK_DEADLOCK FALSE
