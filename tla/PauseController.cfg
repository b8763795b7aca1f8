SPECIFICATION Spec
CONSTANT MaxCommands = 6
INVARIANTS TypeOK 
PROPERTIES CallsReturn ResumeArrives
CHECK_DEADLOCK FALSE
