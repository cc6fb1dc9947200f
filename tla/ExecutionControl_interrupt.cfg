SPECIFICATION Spec
CONSTANT Interruptible = TRUE
CHECK_DEADLOCK FALSE
PROPERTY DecisionsAreFinal
