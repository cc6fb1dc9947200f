SPECIFICATION Spec
CONSTANT Interruptible = TRUE
CHECK_DEADLOCK FALSE
INVARIANT ReleaseOnceAndSafely
