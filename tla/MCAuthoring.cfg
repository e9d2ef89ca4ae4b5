SPECIFICATION AuthoringSpec
CONSTANTS
    Unused = Unused
    author1 = author1
INVARIANTS PlanConverges PlanExecutes Reproducible EvidenceCurrent CheckpointFaithful AuthorityExact
PROPERTIES ExpandFits
CHECK_DEADLOCK FALSE
