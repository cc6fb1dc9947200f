SPECIFICATION Spec
CONSTANTS
    once = once
    live = live
    loop = loop
    Ops = {once, live, loop}
    Loops = {loop}
    Handed = {live}
CHECK_DEADLOCK FALSE
INVARIANT ExclusiveAdmission
PROPERTY AdmissionReturns
