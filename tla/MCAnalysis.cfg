SPECIFICATION MCSpec
CONSTANTS
    d1 = d1
    d2 = d2
    d3 = d3
    Datagrams = {d1, d2, d3}
    LastOf <- MCLastOf
    MaxCopies = 2
    NetScenarios <- MCNetScenarios
    PortNumbers = {1, 2, 3}
    MaxForbidPorts = 2
    SetUps = {TRUE, FALSE}
    Base = 256
    SegmentLengths <- MCLengths
    Fillings <- MCFillings
    WordAt <- MCWordAt
    Uploads <- MCUploads
    MaxFiles = 2
    OtherSegments <- MCOtherSegments
    MaxUploads = 2
    MaxSegments = 3
    UploadScenarios <- MCUploadScenarios
INVARIANTS
    AnalysisTypeOK
    DatagramsCorrect
    KeptIsHeld
    SlotsCorrect
    LookIsTimely
    
    ReadyForNext
    ChecksumVerifies
PROPERTY
    ImplementsPortSet
CHECK_DEADLOCK FALSE
