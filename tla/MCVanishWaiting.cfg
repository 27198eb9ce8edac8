SPECIFICATION DaemonSpec
CONSTANTS
    Format <- MCFormat
    NoFormat = NoFormat
    SizeImage <- MCSizeImage
    Compressed <- MCCompressed
    Sizes <- MCSizes
    BufferCount = 1
    ExpectedFps = 1
    StallMultiple = 2
    TicksPerSecond = 1
    ReconnectInitialBackoff = 1
    ReconnectMaxBackoff = 4
    AwaitingProducerMaxBackoff = 2
    MaxWindowFrames = 3
    MaxWindowTicks = 2
    PollTimeout = 1
    PinnedByOther = NoFormat
PROPERTY LossNoticed
CHECK_DEADLOCK FALSE
