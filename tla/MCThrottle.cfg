CONSTANTS
    IPs = {a, b}
    NoNode = NoNode
    NoReq = NoReq
    Workers = {w1, w2}
    Requests = {r1, r2}
    site = site
    api = api
    Locations = {site, api}
    Conf <- MCConf
    StaleFloor = 3
    EvictSome = 1
    EvictMany = 2
    Capacity = 1
    MaxLag = 1
    MaxClock = 7
SYMMETRY Symmetry
SPECIFICATION Spec
INVARIANTS TypeOK ZoneConsistent OverLimitIsBanned BurstBound
PROPERTIES BanNotShortened EvictionForgetsNothing
