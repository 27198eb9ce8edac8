SPECIFICATION ExporterSpec
CONSTANTS
    Scripts <- MCScripts
    MaxBufferedLine = 20
    Word = 10
    ChunkSize = 3
    MaxBacklog = 0
    MaxConnections = 2
    CutMidLine = TRUE
INVARIANT
    ReportedApplied
CHECK_DEADLOCK FALSE
