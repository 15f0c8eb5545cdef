------------------------------- MODULE Throttle -------------------------------
(***************************************************************************)
(* The per-IP failure throttle: a shared zone of one node per client       *)
(* address, used under one mutex by every worker.  A request is checked    *)
(* once, when the handler sees it, and its outcome is recorded once, when  *)
(* its verification is finalized; any number of requests are in flight     *)
(* between the two.  Locations share the zone but each has its own limit,  *)
(* window and ban time.                                                    *)
(*                                                                         *)
(* Each operation holds the mutex from its lookup to its last write, so it *)
(* is one step; ngx_time() is the cached clock of the worker that runs it. *)
(***************************************************************************)
EXTENDS Integers, Sequences, FiniteSets

CONSTANTS
    IPs,
    NoNode,
    Workers,
    Requests,   \* bound: requests in flight at once
    NoReq,
    Locations,
    Conf,       \* Conf[l]: the merged failure_* settings of a location
    StaleFloor, \* the one-hour floor of evict_stale
    EvictSome,  \* nodes visited on every insertion (8 in the code)
    EvictMany,  \* nodes visited when the zone is full (512)
    Capacity,   \* nodes the slab pool holds
    MaxLag,     \* bound: how far a worker's cached clock may lag
    MaxClock    \* bound: the wall clock stops here

Node == [window_start : Nat, banned_until : Nat, count : Nat]
Request == [ip : IPs, worker : Workers, loc : Locations]

\* merge_loc_conf keeps the window within the hour and the ban within a day,
\* and creates the zone only for a positive limit.
ASSUME ConfAssumption ==
    /\ \A l \in Locations :
            /\ Conf[l].limit \in Nat \ {0}
            /\ Conf[l].window \in 1..StaleFloor
            /\ Conf[l].ban_time \in Nat \ {0}
    /\ {StaleFloor, Capacity, MaxLag} \subseteq Nat
    /\ NoNode \notin Node /\ NoReq \notin Request

VARIABLES
    clock,      \* wall clock
    time,       \* time[w]: ngx_time() as worker w has it cached
    node,       \* node[ip]: the zone's node for ip, or NoNode
    lru,        \* the addresses with a node, least recently charged first
    req,        \* requests admitted and not yet finalized
    recent      \* history: when the failures since the last success or ban
                \* of each address were counted

vars == <<clock, time, node, lru, req, recent>>

TypeOK ==
    /\ clock \in Nat
    /\ time \in [Workers -> Nat]
    /\ node \in [IPs -> Node \cup {NoNode}]
    /\ lru \in Seq(IPs)
    /\ req \in [Requests -> Request \cup {NoReq}]
    /\ recent \in [IPs -> Seq(Nat)]

Init ==
    /\ clock = 1
    /\ time = [w \in Workers |-> 1]
    /\ node = [ip \in IPs |-> NoNode]
    /\ lru = << >>
    /\ req = [r \in Requests |-> NoReq]
    /\ recent = [ip \in IPs |-> << >>]

-----------------------------------------------------------------------------
\* A second passes; the workers in late have not turned their event loop yet.
Tick ==
    /\ clock < MaxClock
    /\ clock' = clock + 1
    /\ \E late \in SUBSET Workers :
            /\ \A w \in late : clock + 1 - time[w] <= MaxLag
            /\ time' = [w \in Workers |->
                            IF w \in late THEN time[w] ELSE clock + 1]
    /\ UNCHANGED <<node, lru, req, recent>>

UpdateTime(w) ==
    /\ time' = [time EXCEPT ![w] = clock]
    /\ UNCHANGED <<clock, node, lru, req, recent>>

-----------------------------------------------------------------------------
(* is_banned                                                               *)

Banned(ip, now) == node[ip] # NoNode /\ node[ip].banned_until > now

Refuse(w, ip) ==
    /\ Banned(ip, time[w])
    /\ UNCHANGED vars

Admit(r, w, ip, l) ==
    /\ req[r] = NoReq
    /\ ~Banned(ip, time[w])
    /\ req' = [req EXCEPT ![r] = [ip |-> ip, worker |-> w, loc |-> l]]
    /\ UNCHANGED <<clock, time, node, lru, recent>>

-----------------------------------------------------------------------------
(* record                                                                  *)

\* q without the members of S, in the order of q.
Without(q, S) ==
    LET Upto[i \in 0..Len(q)] ==
            IF i = 0 THEN << >>
            ELSE IF q[i] \in S THEN Upto[i - 1] ELSE Append(Upto[i - 1], q[i])
    IN  Upto[Len(q)]

Max(a, b) == IF a >= b THEN a ELSE b

\* Faulty Stale: a ban in force does not protect the node.
StaleThoughBanned(ip, now, window) ==
    node[ip].window_start + Max(window, StaleFloor) <= now

\* Faulty Stale: a node is stale as soon as it is not banned.
StaleUnlessBanned(ip, now, window) == node[ip].banned_until <= now

Stale(ip, now, window) ==
    /\ node[ip].banned_until <= now
    /\ node[ip].window_start + Max(window, StaleFloor) <= now

\* The stale nodes among the max oldest ones of q.
EvictStale(q, now, window, max) ==
    {ip \in {q[i] : i \in 1..Len(q) \cap 1..max} : Stale(ip, now, window)}

Evicted(now, window) ==
    LET first == EvictStale(lru, now, window, EvictSome)
        left == Without(lru, first)
    IN  IF Len(left) < Capacity
            THEN first
            ELSE first \cup EvictStale(left, now, window, EvictMany)

NewNode(now) == [window_start |-> now, banned_until |-> 0, count |-> 0]

\* Faulty Charge: the ban takes one failure more than the limit.
ChargeLate(n, now, conf) ==
    LET elapsed == n.window_start + conf.window <= now
        count == IF elapsed THEN 1 ELSE n.count + 1
    IN  [window_start |-> IF elapsed THEN now ELSE n.window_start,
         banned_until |-> IF count > conf.limit THEN now + conf.ban_time
                                                ELSE n.banned_until,
         count |-> count]

\* Faulty Charge: the window is one second short.
ChargeShortWindow(n, now, conf) ==
    LET elapsed == n.window_start + conf.window - 1 <= now
        count == IF elapsed THEN 1 ELSE n.count + 1
    IN  [window_start |-> IF elapsed THEN now ELSE n.window_start,
         banned_until |-> IF count >= conf.limit THEN now + conf.ban_time
                                                 ELSE n.banned_until,
         count |-> count]

\* Faulty Charge: a new window starts a window's length ago.
ChargeBackdated(n, now, conf) ==
    [window_start |-> now - conf.window - 1,
     banned_until |-> IF n.count + 1 >= conf.limit THEN now + conf.ban_time
                                                   ELSE n.banned_until,
     count |-> n.count + 1]

\* One more failure on node n.
Charge(n, now, conf) ==
    LET elapsed == n.window_start + conf.window <= now
        count == IF elapsed THEN 1 ELSE n.count + 1
    IN  [window_start |-> IF elapsed THEN now ELSE n.window_start,
         banned_until |-> IF count >= conf.limit THEN now + conf.ban_time
                                                 ELSE n.banned_until,
         count |-> count]

\* The failure is counted on node n, with the nodes of gone evicted.
Charged(r, n, gone) ==
    LET ip == req[r].ip
        w == req[r].worker
        conf == Conf[req[r].loc]
        charged == Charge(n, time[w], conf)
        banned == charged.count >= conf.limit
        past == 0..(clock - (conf.window - MaxLag))
    IN  /\ node' = [i \in IPs |-> IF i = ip THEN charged
                                 ELSE IF i \in gone THEN NoNode ELSE node[i]]
        /\ recent' = [recent EXCEPT ![ip] =
                        IF banned THEN << >>
                                  ELSE Append(Without(recent[ip], past), clock)]

Finish(r) ==
    /\ req[r] # NoReq
    /\ req' = [req EXCEPT ![r] = NoReq]
    /\ UNCHANGED <<clock, time>>

\* Faulty RecordSuccess: the node is freed but stays in the queue.
RecordSuccessQueued(r) ==
    LET ip == req[r].ip IN
    /\ Finish(r)
    /\ node' = [node EXCEPT ![ip] = NoNode]
    /\ recent' = [recent EXCEPT ![ip] = << >>]
    /\ UNCHANGED lru

RecordSuccess(r) ==
    LET ip == req[r].ip IN
    /\ Finish(r)
    /\ node' = [node EXCEPT ![ip] = NoNode]
    /\ lru' = Without(lru, {ip})
    /\ recent' = [recent EXCEPT ![ip] = << >>]

FailKnown(r) ==
    LET ip == req[r].ip IN
    /\ Finish(r)
    /\ node[ip] # NoNode
    /\ lru' = Append(Without(lru, {ip}), ip)
    /\ Charged(r, node[ip], {})

FailNew(r) ==
    LET ip == req[r].ip
        now == time[req[r].worker]
        gone == Evicted(now, Conf[req[r].loc].window)
    IN  /\ Finish(r)
        /\ node[ip] = NoNode
        /\ Len(Without(lru, gone)) < Capacity
        /\ lru' = Append(Without(lru, gone), ip)
        /\ Charged(r, NewNode(now), gone)

\* No room even after eviction: the failure is not counted, and appears in no
\* history.
FailSkipped(r) ==
    LET ip == req[r].ip
        gone == Evicted(time[req[r].worker], Conf[req[r].loc].window)
    IN  /\ Finish(r)
        /\ node[ip] = NoNode
        /\ Len(Without(lru, gone)) >= Capacity
        /\ node' = [i \in IPs |-> IF i \in gone THEN NoNode ELSE node[i]]
        /\ lru' = Without(lru, gone)
        /\ UNCHANGED recent

-----------------------------------------------------------------------------
\* nginx is stopped and started: the zone is created anew.  A reload keeps it:
\* init_zone takes over the old one as it is.
Restart ==
    /\ time' = [w \in Workers |-> clock]
    /\ node' = [ip \in IPs |-> NoNode]
    /\ lru' = << >>
    /\ req' = [r \in Requests |-> NoReq]
    /\ recent' = [ip \in IPs |-> << >>]
    /\ UNCHANGED clock

Record(r) ==
    \/ RecordSuccess(r)
    \/ FailKnown(r)
    \/ FailNew(r)
    \/ FailSkipped(r)

Next ==
    \/ Tick
    \/ \E w \in Workers : UpdateTime(w)
    \/ \E w \in Workers, ip \in IPs :
            \/ Refuse(w, ip)
            \/ \E r \in Requests, l \in Locations : Admit(r, w, ip, l)
    \/ \E r \in Requests : Record(r)
    \/ Restart

Spec == Init /\ [][Next]_vars

-----------------------------------------------------------------------------
\* The queue and the tree hold the same nodes after every operation: each
\* address with a node is queued exactly once.
ZoneConsistent ==
    /\ {lru[i] : i \in 1..Len(lru)} = {ip \in IPs : node[ip] # NoNode}
    /\ \A i, j \in 1..Len(lru) : lru[i] = lru[j] => i = j
    /\ Len(lru) <= Capacity

\* No interleaving of recorders loses a ban: an address at or over every
\* location's limit is banned from its window's start, up to the lag between two
\* workers' clocks, for the ban_time of some location, the one that counted
\* last.
OverLimitIsBanned ==
    \A ip \in IPs :
        /\ node[ip] # NoNode
        /\ \A l \in Locations : node[ip].count >= Conf[l].limit
        => \E m \in Locations :
              node[ip].banned_until + MaxLag
                  >= node[ip].window_start + Conf[m].ban_time

Cleared(ip) ==
    Restart \/ \E r \in Requests : RecordSuccess(r) /\ req[r].ip = ip

\* A failure of ip is counted by a location whose bans are shorter than another
\* one's; the address is still banned for that location's ban_time from now.
Curtailed(ip) ==
    \E r \in Requests, m \in Locations :
        LET ban_time == Conf[req[r].loc].ban_time IN
        /\ req[r] # NoReq /\ req[r].ip = ip /\ FailKnown(r)
        /\ ban_time < Conf[m].ban_time
        /\ node'[ip].banned_until + MaxLag >= clock + ban_time

\* A ban in force stays in force until it expires, unless a success of that
\* address or a restart clears it: eviction, a new window and failures of other
\* requests leave its end where it is or put it off, up to the lag between
\* two workers' clocks.  Only a failure let in before the ban and recorded by a
\* location with a shorter ban_time brings the end forward, and then no further
\* than that ban_time from now (record, evict_stale).  A reload keeps the zone
\* and is no step of its own.
BanNotShortened ==
    [][\A ip \in IPs : Banned(ip, clock) /\ ~Cleared(ip) =>
            /\ node'[ip] # NoNode
            /\ \/ node'[ip].banned_until + MaxLag >= node[ip].banned_until
               \/ Curtailed(ip)]_vars

\* evict_stale forgets nothing that still counts: a node it drops is charged by
\* no location differently from a node created afresh by the same worker.
EvictionForgetsNothing ==
    [][\A ip \in IPs :
            node[ip] # NoNode /\ node'[ip] = NoNode /\ ~Cleared(ip) =>
                \E w \in Workers :
                    /\ node[ip].banned_until <= time[w]
                    /\ \A l \in Locations :
                       node[ip].window_start + Conf[l].window <= time[w]]_vars

InSpan(ip, span) ==
    Cardinality({i \in DOMAIN recent[ip] : recent[ip][i] > clock - span})

\* Where all locations have one limit and one window.  The window of record()
\* starts at a failure and restarts at the first one after it has elapsed, so
\* an address may have 2 * limit - 3 failures counted within one window's
\* length, less the lag, before it is banned (limit - 1 if that is more); never
\* more, whatever is evicted in between.  Failures that find the zone full are
\* not counted, and nothing bounds them.
BurstBound ==
    \A ip \in IPs, l \in Locations :
        InSpan(ip, Conf[l].window - MaxLag)
            <= Max(Conf[l].limit - 1, 2 * Conf[l].limit - 3)

\* The window slides: an address with limit failures counted within a window's
\* length, and no success among them, has been banned (README.md on
\* pgp_auth_failure_limit and pgp_auth_failure_window, throttle.h).
WindowSlides ==
    \A ip \in IPs, l \in Locations :
        InSpan(ip, Conf[l].window - MaxLag) < Conf[l].limit
=============================================================================
