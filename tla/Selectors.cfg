SPECIFICATION Spec
INVARIANTS
    PromptIsRight
    
    MarkedAreKilled
PROPERTIES
    PagesMeet
CHECK_DEADLOCK FALSE
