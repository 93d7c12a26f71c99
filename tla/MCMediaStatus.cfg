SPECIFICATION Spec
CONSTANTS
    MaxChanges <- MCMaxChanges
    Scenarios <- EveryScenario
INVARIANTS
    RecordCorrect
    
