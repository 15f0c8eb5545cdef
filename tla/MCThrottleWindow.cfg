CONSTANTS
    IPs = {a}
    NoNode = NoNode
    NoReq = NoReq
    Workers = {w1}
    Requests = {r1, r2, r3}
    site = site
    api = api
    Locations = {site}
    Conf <- MCConf
    StaleFloor = 3
    EvictSome = 1
    EvictMany = 2
    Capacity = 1
    MaxLag = 0
    MaxClock = 7
SYMMETRY Symmetry
SPECIFICATION Spec
INVARIANT WindowSlides
