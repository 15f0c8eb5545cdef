------------------------------ MODULE MCThrottle ------------------------------
EXTENDS Throttle, TLC

CONSTANTS site, api

\* A limit of three lets failures straddle two windows; a ban longer than the
\* stale threshold lets eviction meet a node whose window is over and whose ban
\* is not; bans of two lengths let one location cut the other's short.
MCConf ==
    [l \in {site, api} |->
        [limit |-> 3, window |-> 3, ban_time |-> IF l = site THEN 4 ELSE 2]]

Symmetry == Permutations(IPs) \cup Permutations(Requests) \cup Permutations(Workers)
=============================================================================
