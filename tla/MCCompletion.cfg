CONSTANTS
    w1 = w1  w2 = w2  o1 = o1
    Workers = {w1, w2}
    Others = {o1}
    Observer = o1
    Artifacts <- MCArtifacts
    Steps <- MCSteps
    Topology = {}
    Phases <- MCPhases
    Objects <- MCObjects
    From <- MCFrom
    Adds <- MCAdds
    Drops <- MCDrops
    Initial = {}
    NoWorker = NoWorker
    NoStep = NoStep
    MaxRuns = 2
    MaxObservations = 1
    MaxEdits = 0
SPECIFICATION CSpec
SYMMETRY WorkerSymmetry
INVARIANTS ProvenIsTrue 
PROPERTIES ProofIsCurrent UnstartedIsFresh
