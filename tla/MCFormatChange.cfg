SPECIFICATION Spec
CONSTANTS
    Format <- MCFormat
    NoFormat = NoFormat
    SizeImage <- MCSizeImage
    Compressed <- MCCompressed
    Sizes <- MCSizes
    BufferCount = 2
    ExpectedFps = 1
    StallMultiple = 2
    TicksPerSecond = 1
    ReconnectInitialBackoff = 1
    ReconnectMaxBackoff = 4
    AwaitingProducerMaxBackoff = 2
    MaxWindowFrames = 10
    MaxWindowTicks = 3
PROPERTY FormatChangeReported
