CONSTANTS
    w1 = w1
    w2 = w2
    Workers = {w1, w2}
    Others = {}
    Artifacts <- MCArtifacts
    Steps <- MCSteps
    Topology = {"t1"}
    Phases <- MCPhases
    Objects <- MCSteps
    From <- MCFrom
    Adds <- MCAdds
    Drops <- MCDrops
    Initial = {}
    NoWorker = NoWorker
    NoStep = NoStep
    MaxRuns = 3
SYMMETRY WorkerSymmetry
SPECIFICATION SafetySpec
INVARIANTS AtMostOnce HistoryTruth PhaseOrder AuditTruth SingleLineage
