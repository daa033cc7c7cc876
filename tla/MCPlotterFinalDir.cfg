SPECIFICATION Spec
CONSTANTS
    Dir <- Dirs
    Device <- Devices
    MaxPlots = 3
    Size = 2
    Faults = {}
    MaxFaults = 2
    Specs <- ChiaPlotOptions
    Unrecognised = TRUE
    IntBits = 16
    KMAX = 32
    Keys = {"key"}
    Contracts = {"xch1"}
    PlotIds = {"id"}
    Lines <- FewLines
INVARIANTS
    FinalDirDefault
CHECK_DEADLOCK FALSE
