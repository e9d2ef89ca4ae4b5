CONSTANTS
    r1 = r1  r2 = r2
    rel1 = rel1  rel2 = rel2  rel3 = rel3
    Replicas = {r1}
    Artifacts = {rel1, rel2, rel3}
    Kind <- ReplacedKind
    Scenes <- McOutages
    None = None
    MaxChanges = 1
SPECIFICATION FairSpec
PROPERTIES CompletedBecomesReady
