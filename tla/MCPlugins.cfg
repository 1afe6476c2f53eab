SPECIFICATION PluginFairSpec
CONSTANTS
    None = None
    Tilde = Tilde
    Empty = Empty
    Invalid = Invalid
    NoInstance = NoInstance
    Limits <- MCLimits
    Metrics <- MCMetrics
    MaxAlerts = 2
    Followed <- MCFollowed
    Cases <- MCCases
INVARIANTS
    PluginTypeOK
    FaultsAreSeen
    AlarmsHaveACause
    RowsAreToldOnce
    StartedAreCalledFor
    RangesSurviveText
    ExitCodeCoversMetrics
    EveryAlertPrintedOnce
PROPERTIES
    PluginsEnd
\* the program ends when every plugin has
CHECK_DEADLOCK FALSE
