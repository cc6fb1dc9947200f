SPECIFICATION Spec
CONSTANT Experiments <- Several
CHECK_DEADLOCK FALSE
INVARIANTS
    SearchBounded
    ConservativeResult
