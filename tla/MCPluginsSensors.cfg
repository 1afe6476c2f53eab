SPECIFICATION PluginSpec
CONSTANTS
    None = None
    Tilde = Tilde
    Empty = Empty
    Invalid = Invalid
    NoInstance = NoInstance
    Limits <- MCLimits
    Metrics <- MCMetrics
    MaxAlerts = 2
    Followed <- MCFollowed
    Cases <- TwoSensors
INVARIANTS
    FaultsAreSeen

\* the program ends when every plugin has
CHECK_DEADLOCK FALSE
