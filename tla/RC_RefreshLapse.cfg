SPECIFICATION Spec
CONSTANTS
    r1 = r1
    r2 = r2
    Reservations = {r1, r2}
    ReservationTTL = 6
    ReservationDataTTL = 10
    CleanupInterval = 1
    MaxScanTime = 1
    MaxFailedRuns = 0
    MaxRefreshes = 1
SYMMETRY Symmetry
INVARIANTS
    NeverLapsesUnreported
