SPECIFICATION Spec
CONSTANTS
    Dir <- Dirs
    Device <- Devices
    MaxPlots = 3
    Size = 2
    Faults = {"test file", "craft", "plot fclose", "plot rename", "rename", "fopen", "fread", "fwrite", "fclose", "remove", "final rename"}
    MaxFaults = 2
    Specs <- ChiaPlotOptions
    Unrecognised = TRUE
    IntBits = 16
    KMAX = 32
    Keys = {"key"}
    Contracts = {"xch1"}
    PlotIds = {"id"}
    Lines <- SomeLines
INVARIANTS
    PlotNeverLost
    NamedPlotsAreComplete
    NothingLeftBehind
    OptionsAreHeard
PROPERTIES
    GracefulExit
CHECK_DEADLOCK FALSE
