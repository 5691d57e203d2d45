SPECIFICATION Spec
CONSTANTS
    c1 = c1
    c2 = c2
    c3 = c3
    fa = fa
    fb = fb
    Conns <- MCTwo
    Fingerprints <- MCFingerprints
    ProbeFingerprint = fb
    NoGate = NoGate
    Flights <- MCFlights
    MinSize = 1
    MaxSize = 3
    MinNoise = 2
    MaxPrefix = 2
    MaxRecords = 3
    MaxVariants = 2
    StartupSamples = 1
    MaxRefreshes = 2
    MaxExpiries = 1
    MayCut = TRUE
INVARIANTS  FlightFound NotDegraded
PROPERTIES FetchReturns
CHECK_DEADLOCK FALSE
