SPECIFICATION Spec
CONSTANTS
    Samples <- TwoSamples
    MaxRuns = 2
INVARIANTS TypeOK SamplesKept Verdicts TestsSelected CleansUp LeavesOnlyCurrent
PROPERTIES CleanRunFinishes
CHECK_DEADLOCK FALSE
