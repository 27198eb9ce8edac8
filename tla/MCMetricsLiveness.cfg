SPECIFICATION ScrapeSpec
CONSTANTS
    Window = 2
    MaxStreams = 1
    MaxFrames = 2
    MaxFailures = 1
    MaxInFlight = 0
    MaxBacklog = 1
PROPERTIES
    TransientsPass
    StepFinishes
    DaemonStops
CHECK_DEADLOCK FALSE
