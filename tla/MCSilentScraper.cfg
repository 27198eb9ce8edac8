SPECIFICATION ExporterSpec
CONSTANTS
    Scripts <- MCShortScripts
    MaxBufferedLine = 6
    Word = 10
    ChunkSize = 1
    MaxBacklog = 1
    MaxConnections = 2
    CutMidLine = FALSE
PROPERTY
    HttpStops
CHECK_DEADLOCK FALSE
