SPECIFICATION Spec
CONSTANTS
    r1 = r1
    r2 = r2
    Reservations = {r1, r2}
    ReservationTTL = 2
    ReservationDataTTL = 8
    CleanupInterval = 2
    MaxScanTime = 1
    MaxFailedRuns = 1
    MaxRefreshes = 1
INVARIANTS
    TypeOK
    NeverLapsesUnreported
PROPERTIES
    ActiveNeverReported
