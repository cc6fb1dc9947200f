SPECIFICATION Spec
CONSTANTS
    Assessed <- MCAssessed
    Swept <- MCSwept
    Policies <- MCPolicies
    Artifacts <- MCArtifacts
    Observed <- MCObserved
    Intervals <- MCIntervals
    Streams <- MCStreams
    MaxIntervals = 3
    MaxStreams = 3
INVARIANTS
    ArchiveAgrees
    DecisionSound
    SweepHonest
    AnalysisHonest
CHECK_DEADLOCK FALSE
