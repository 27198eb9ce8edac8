SPECIFICATION ScrapeSpec
CONSTANTS
    Window = 3
    MaxStreams = 2
    MaxFrames = 2
    MaxFailures = 1
    MaxInFlight = 1
    MaxBacklog = 1
INVARIANTS
    ScrapeTypeOK
    StreamingHasFormat
    HistogramWhole
    FramesCoverIntervals
    StatsExact
CHECK_DEADLOCK FALSE
