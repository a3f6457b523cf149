SPECIFICATION StopSpec
CONSTANTS
    Tasks = {t1}
    Defs <- MCStopDefs
    Origins = {"local"}
    MaxRuns = 2
PROPERTIES
    StopIsFinal
