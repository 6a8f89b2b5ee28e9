SPECIFICATION Spec
CONSTANTS
    NodeStale = 1
    EvidenceStale = 3
    ResetWindow = 4
    RebootGap = 1
    BootTime = 1
    SequenceModulus = 7
    ScanAges = {0, 1}
    MaxSequence = 3
    MaxBoots = 1
    MaxTransit = 1
    UartCapacity = 2
    MaxTickGap = 1
PROPERTY
    InvalidSampleClears
