SPECIFICATION StartupSpec
CONSTANTS
    SlotCount = 8
    MinWidth = 48
    MaxWidth = 74
    Fallback = 80
    Inputs <- MCInputs
    Number <- MCNumber
    Ips = {"10.0.0.1"}
    Denied = {"denied/x"}
    LongKeys = {"longkey"}
    MaxPort = 99
    MaxThreads = 64
INVARIANTS
    TextsIntact
    BoxIsWhole
    ConfigAsAsked
    BadInputTouchesNothing
