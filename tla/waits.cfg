SPECIFICATION MCSpec
CONSTANTS
    NULL = NULL
PROPERTIES
    WaitsEnd Reaped SleepEnds PromptReturns
