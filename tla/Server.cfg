\* Sessions of up to two requests or lines of every kind, and two signals.
SPECIFICATION FairSpec
CONSTANTS
    N = 2
    MaxSignals = 2
    None = None
    Signal = Signal
INVARIANTS
    TypeOK
    InOrder
    GracefulExit
    ForcedOnlyLate
    LauncherLast
PROPERTIES
    SignalsStop
    LauncherStops
CHECK_DEADLOCK FALSE
