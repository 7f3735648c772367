SPECIFICATION Spec
CONSTANTS
    MaxFrames = 1
    FrameLen = 2
    QueueCapacity = 1
    RingCapacity = 4
    MaxNoise = 1
    ServoBuild = TRUE
INVARIANT
    DriverHeld
