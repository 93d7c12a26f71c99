SPECIFICATION Spec
CONSTANTS
    a1 = a1
    a2 = a2
    Adapters <- MCAdapters
CHECK_DEADLOCK FALSE
INVARIANTS
    RefCountIsExact
    NoUseAfterFree
    BindingCorrect
PROPERTIES
    UnbindEnds
    UsesControlDevice
