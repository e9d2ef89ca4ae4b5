SPECIFICATION DurableSpec
CONSTANTS
    Processes = {p1, p2}
    Nobody = Nobody
    None = None
    Unused = Unused
    d1 = d1  d2 = d2
    w1 = w1  w2 = w2
    a1 = a1  a2 = a2  a3 = a3  a4 = a4
    c1 = c1  c2 = c2
    r1 = r1  r2 = r2
    ann = ann  bob = bob  cat = cat  dan = dan
SYMMETRY DurableSymmetry
INVARIANTS NothingLost ConfirmedIsTrue Durable  AckedReadable  NoCircularWait ReleaseApplies ReportTrue
PROPERTIES OnlyOwned MutationAuthorized
CHECK_DEADLOCK FALSE
