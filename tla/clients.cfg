SPECIFICATION ClientSpec
CONSTANTS
    s1 = s1  s2 = s2  p1 = p1  p2 = p2
    Secs <- Windows
    Sources = {s1, s2}
    Loads = {1, 2}
    MaxMsgs = 3
    MaxClock = 6
    MaxStarts = 3
    MaxPublished = 2
    Nobody = Nobody
    Prdcrs <- TwoPrdcrs
    MaxXprts = 3
    MaxDowns = 2
    Limit = 32
    Cost = 16
    MaxSent = 4
    MaxUnblocks = 5
INVARIANTS CountsTrue TallyWindow
PROPERTIES ClientsGoOn
CHECK_DEADLOCK FALSE
