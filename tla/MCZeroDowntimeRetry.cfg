SPECIFICATION ZSpec
CONSTANTS
    p1 = p1
    p2 = p2
    Processes = {p1, p2}
    Keys = {1, 2}
    Null = Null
    Gone = Gone
    Nobody = Nobody
    Scenes <- McRetry
PROPERTIES PublishedFilled
CHECK_DEADLOCK FALSE
