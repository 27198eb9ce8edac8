SPECIFICATION DaemonSpec
CONSTANTS
    Format <- MCFormat
    NoFormat = NoFormat
    SizeImage <- MCSizeImage
    Compressed <- MCCompressed
    Sizes <- MCSizes
    BufferCount = 1
    ExpectedFps = 1
    StallMultiple = 2
    TicksPerSecond = 1
    ReconnectInitialBackoff = 1
    ReconnectMaxBackoff = 2
    AwaitingProducerMaxBackoff = 1
    MaxWindowFrames = 3
    MaxWindowTicks = 2
    PollTimeout = 1
    PinnedByOther = NoFormat
PROPERTY WriterShowsUp
CHECK_DEADLOCK FALSE
