SPECIFICATION SchedulerSpec
CONSTANTS
    None = None
    Programs <- OnlyTwoBranches
PROPERTIES
    EveryBranchStarts
