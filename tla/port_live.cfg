SPECIFICATION FairSpec
CONSTANTS
    MaxFrames = 2
    FrameLen = 2
    QueueCapacity = 1
    RingCapacity = 4
    MaxNoise = 2
    ServoBuild = FALSE
PROPERTIES
    StopServed
    AnswerLeaves
