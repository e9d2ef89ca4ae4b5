CONSTANTS
    r1 = r1  r2 = r2
    rel1 = rel1  rel2 = rel2  rel3 = rel3
    Replicas = {r1, r2}
    Artifacts = {rel1, rel2, rel3}
    Kind <- MixedKind
    Scenes <- McScenes
    None = None
    MaxChanges = 2
SPECIFICATION OSpec
SYMMETRY ReplicaSymmetry
INVARIANTS AppliedIsTrue
PROPERTIES NoDuplicateApply RecoveredIsCurrent
