SPECIFICATION Spec
CONSTANTS
    MaxFrames = 3
    FrameLen = 2
    QueueCapacity = 1
    RingCapacity = 4
    MaxNoise = 2
    ServoBuild = TRUE
INVARIANTS
    TypeOK
    NoFrameLost
    Accounted
    AnswersInOrder
    LineHandedOver
    AnswersLeaveWhole
PROPERTY
    StopIsBarrier
