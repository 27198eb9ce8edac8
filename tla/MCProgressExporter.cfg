SPECIFICATION ExporterSpec
CONSTANTS
    Scripts <- MCLongScripts
    MaxBufferedLine = 4
    Word = 10
    ChunkSize = 2
    MaxBacklog = 1
    MaxConnections = 2
    CutMidLine = TRUE
INVARIANTS
    ExporterTypeOK
    ChunkingInvisible
    LongLineForgotten
PROPERTIES
    IngestKeepsUp
    DisconnectSeen
    ExporterStops
CHECK_DEADLOCK FALSE
