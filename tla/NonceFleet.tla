------------------------------ MODULE NonceFleet ------------------------------
(***************************************************************************)
(* The "redis" single-use store: check_and_set on the nodes of a fleet     *)
(* that share one Redis, each with its own shared-memory zone as a         *)
(* reject-only second line.  NonceZone models the inside of a zone; here a *)
(* zone is what NonceStore promises: it may drop a nonce once it expired,  *)
(* and it fails when it is full.                                           *)
(*                                                                         *)
(* A call is one run of validate_consume's second half on some node.  The  *)
(* network may lose or delay a SET or its reply, so a call can give up on  *)
(* a SET that Redis executes later.  Redis may lose keys (restart, flush,  *)
(* eviction) and a node may be started cold.                               *)
(***************************************************************************)
EXTENDS Integers, Sequences, FiniteSets

CONSTANTS
    Nodes,
    Nonces,
    Calls,      \* bound: verifications ever run
    Prelude,    \* between connect and SET: tls and auth, as configured
    Expiry,     \* the expiry signed into the challenges
    Capacity,   \* nonces a node's zone holds
    MaxLag,     \* seconds a node's clock may be behind Redis's
    MaxFaults,  \* bound: keys Redis loses plus cold starts
    MaxClock    \* bound: the clock stops here

ASSUME FleetAssumption ==
    /\ Prelude \in Seq({"tls", "auth"})
    /\ {Expiry, Capacity, MaxClock} \subseteq Nat \ {0}
    /\ {MaxLag, MaxFaults} \subseteq Nat

VARIABLES
    clock,      \* Redis's clock
    time,       \* time[d]: ngx_time() on node d
    zone,       \* zone[d]: nonces in node d's shared-memory zone
    redis,      \* redis[n]: when the key of n expires, 0 if it was never set
    wire,       \* calls whose SET is on its way to Redis
    reply,      \* reply[c]: first byte of the reply on its way to call c
    call,       \* call[c]: a run of check_and_set
    faults,     \* faults so far
    lost        \* history: nonces whose key Redis lost before its expiry

environment == <<clock, time, faults, lost>>
vars == <<environment, zone, redis, wire, reply, call>>

Idle == [pc |-> "idle"]

\* A run of check_and_set: what is still to be done before the SET, the
\* zone's answer (NONE again after a cold start), the TTL of the SET, the
\* result.
Run ==
    [pc : {"zone", "redis", "prelude", "wait", "over"},
     node : Nodes, nonce : Nonces, todo : Seq({"tls", "auth"}),
     local : {"NONE", "OK", "ERROR", "DECLINED"}, ttl : Nat,
     rc : {"NONE", "OK", "DECLINED", "ERROR"}]

TypeOK ==
    /\ clock \in 1..MaxClock
    /\ time \in [Nodes -> 1..MaxClock]
    /\ zone \in [Nodes -> SUBSET Nonces]
    /\ redis \in [Nonces -> Nat]
    /\ wire \subseteq Calls
    /\ reply \in [Calls -> {"none", "+", "$", "-"}]
    /\ \A c \in Calls : call[c] \in Run \cup {Idle}
    /\ faults \in 0..MaxFaults
    /\ lost \subseteq Nonces

Init ==
    /\ clock = 1
    /\ time = [d \in Nodes |-> 1]
    /\ zone = [d \in Nodes |-> {}]
    /\ redis = [n \in Nonces |-> 0]
    /\ wire = {}
    /\ reply = [c \in Calls |-> "none"]
    /\ call = [c \in Calls |-> Idle]
    /\ faults = 0
    /\ lost = {}

At(c, pc) == call[c].pc = pc
InRedis(n) == redis[n] > clock

-----------------------------------------------------------------------------
(* Time and faults.                                                         *)

Tick ==
    /\ clock < MaxClock
    /\ \A d \in Nodes : clock - time[d] < MaxLag
    /\ clock' = clock + 1
    /\ UNCHANGED <<time, faults, lost, zone, redis, wire, reply, call>>

UpdateTime(d) ==
    /\ time[d] < clock
    /\ time' = [time EXCEPT ![d] = clock]
    /\ UNCHANGED <<clock, faults, lost, zone, redis, wire, reply, call>>

RedisLoses(n) ==
    /\ faults < MaxFaults
    /\ InRedis(n)
    /\ redis' = [redis EXCEPT ![n] = 0]
    /\ faults' = faults + 1
    /\ lost' = lost \cup {n}
    /\ UNCHANGED <<clock, time, zone, wire, reply, call>>

\* A node is started cold: its zone is empty and its calls are gone, but what
\* they sent may still reach Redis.
ColdStart(d) ==
    /\ faults < MaxFaults
    /\ zone' = [zone EXCEPT ![d] = {}]
    /\ call' = [c \in Calls |->
                  IF call[c] # Idle /\ call[c].node = d
                     THEN [call[c] EXCEPT !.pc = "over", !.local = "NONE"]
                     ELSE call[c]]
    /\ faults' = faults + 1
    /\ UNCHANGED <<clock, time, lost, redis, wire, reply>>

-----------------------------------------------------------------------------
(* check_and_set.                                                           *)

\* validate_consume has found the challenge unexpired.
Begin(c, d, n) ==
    /\ At(c, "idle")
    /\ Expiry >= time[d]
    /\ call' = [call EXCEPT ![c] =
                  [pc |-> "zone", node |-> d, nonce |-> n, todo |-> Prelude,
                   local |-> "NONE", ttl |-> 0, rc |-> "NONE"]]
    /\ UNCHANGED <<environment, zone, redis, wire, reply>>

Return(c, rc) ==
    call' = [call EXCEPT ![c].pc = "over", ![c].todo = << >>, ![c].rc = rc]

\* Faulty Zone: the zone records the nonce but its verdict is ignored.
ZoneIgnored(c) ==
    LET d == call[c].node
        n == call[c].nonce
    IN /\ At(c, "zone")
       /\ zone' = [zone EXCEPT ![d] = @ \cup {n}]
       /\ call' = [call EXCEPT ![c].pc = "redis", ![c].local = "OK"]
       /\ UNCHANGED <<environment, redis, wire, reply>>

\* nonce_memory, in one step under the zone's mutex: expired entries may be
\* reclaimed first.  Only "already seen" decides; a full zone does not.
Zone(c) ==
    LET d == call[c].node
        n == call[c].nonce
        expired == IF Expiry <= time[d] THEN zone[d] ELSE {}
    IN /\ At(c, "zone")
       /\ \E dropped \in SUBSET expired :
             LET kept == zone[d] \ dropped IN
             \/ /\ n \in kept
                /\ zone' = [zone EXCEPT ![d] = kept]
                /\ call' = [call EXCEPT ![c].pc = "over",
                               ![c].local = "DECLINED", ![c].rc = "DECLINED"]
             \/ /\ n \notin kept /\ Cardinality(kept) < Capacity
                /\ zone' = [zone EXCEPT ![d] = kept \cup {n}]
                /\ call' = [call EXCEPT ![c].pc = "redis", ![c].local = "OK"]
             \/ /\ n \notin kept /\ Cardinality(kept) >= Capacity
                /\ zone' = [zone EXCEPT ![d] = kept]
                /\ call' = [call EXCEPT ![c].pc = "redis", ![c].local = "ERROR"]
       /\ UNCHANGED <<environment, redis, wire, reply>>

-----------------------------------------------------------------------------
(* nonce_redis.                                                             *)

Ttl(d) == Expiry - time[d]

\* A challenge that expired meanwhile is refused without asking Redis.
ExpiredMeanwhile(c) ==
    /\ At(c, "redis")
    /\ Ttl(call[c].node) <= 0
    /\ Return(c, "DECLINED")
    /\ UNCHANGED <<environment, zone, redis, wire, reply>>

\* Faulty Connect: the expiry is not checked again.
ConnectUnchecked(c) ==
    /\ At(c, "redis")
    /\ call' = [call EXCEPT ![c].pc = "prelude", ![c].ttl = Ttl(call[c].node)]
    /\ UNCHANGED <<environment, zone, redis, wire, reply>>

Connect(c) ==
    LET ttl == Ttl(call[c].node) IN
    /\ At(c, "redis")
    /\ ttl > 0
    /\ call' = [call EXCEPT ![c].pc = "prelude", ![c].ttl = ttl]
    /\ UNCHANGED <<environment, zone, redis, wire, reply>>

Proceed(c, step) ==
    /\ At(c, "prelude") /\ call[c].todo # << >> /\ Head(call[c].todo) = step
    /\ call' = [call EXCEPT ![c].todo = Tail(@)]
    /\ UNCHANGED <<environment, zone, redis, wire, reply>>

\* The handshake completes and the certificate is the one expected.
Handshake(c) == Proceed(c, "tls")

\* AUTH is answered with '+'.
Authenticate(c) == Proceed(c, "auth")

Unanswered(c) ==
    At(c, "prelude") \/ (At(c, "redis") /\ Ttl(call[c].node) > 0)

\* Faulty Fail: an unreachable Redis leaves the verdict to the zone.
FailOpen(c) ==
    /\ Unanswered(c)
    /\ Return(c, call[c].local)
    /\ UNCHANGED <<environment, zone, redis, wire, reply>>

\* Faulty Fail: an unreachable Redis is reported as a replay.
FailAsReplay(c) ==
    /\ Unanswered(c)
    /\ Return(c, "DECLINED")
    /\ UNCHANGED <<environment, zone, redis, wire, reply>>

\* No address, no socket, no connection in time, a TLS handshake that fails,
\* an AUTH that is not answered with '+', a SET that cannot be sent: whatever
\* the reason, check_and_set makes it NGX_ERROR.
Fail(c) ==
    /\ Unanswered(c)
    /\ Return(c, "ERROR")
    /\ UNCHANGED <<environment, zone, redis, wire, reply>>

SendSet(c) ==
    /\ At(c, "prelude") /\ call[c].todo = << >>
    /\ wire' = wire \cup {c}
    /\ call' = [call EXCEPT ![c].pc = "wait"]
    /\ UNCHANGED <<environment, zone, redis, reply>>

\* What the first byte of the reply says: a nil reply means the key was there.
Verdict(byte) ==
    CASE byte = "+" -> "OK"
      [] byte = "$" -> "DECLINED"
      [] byte = "-" -> "ERROR"

ReadReply(c) ==
    /\ At(c, "wait") /\ reply[c] # "none"
    /\ Return(c, Verdict(reply[c]))
    /\ reply' = [reply EXCEPT ![c] = "none"]
    /\ UNCHANGED <<environment, zone, redis, wire>>

\* No reply in time, or the connection broke.
GiveUp(c) ==
    /\ At(c, "wait")
    /\ Return(c, "ERROR")
    /\ UNCHANGED <<environment, zone, redis, wire, reply>>

-----------------------------------------------------------------------------
(* Redis and the network: SET key 1 NX EX ttl.                              *)

SetNx(c) ==
    LET n == call[c].nonce IN
    /\ c \in wire
    /\ wire' = wire \ {c}
    /\ \/ /\ ~InRedis(n)
          /\ redis' = [redis EXCEPT ![n] = clock + call[c].ttl]
          /\ reply' = [reply EXCEPT ![c] = "+"]
       \/ /\ InRedis(n)
          /\ reply' = [reply EXCEPT ![c] = "$"]
          /\ UNCHANGED redis
       \/ /\ reply' = [reply EXCEPT ![c] = "-"]    \* read-only, out of memory
          /\ UNCHANGED redis
    /\ UNCHANGED <<environment, zone, call>>

LoseSet(c) ==
    /\ c \in wire
    /\ wire' = wire \ {c}
    /\ UNCHANGED <<environment, zone, redis, reply, call>>

-----------------------------------------------------------------------------

Step(c) ==
    Zone(c) \/ ExpiredMeanwhile(c) \/ Connect(c) \/ Handshake(c)
        \/ Authenticate(c) \/ Fail(c) \/ SendSet(c) \/ ReadReply(c) \/ GiveUp(c)

Next ==
    \/ Tick
    \/ \E d \in Nodes : UpdateTime(d) \/ ColdStart(d)
    \/ \E n \in Nonces : RedisLoses(n)
    \/ \E c \in Calls :
          \/ \E d \in Nodes, n \in Nonces : Begin(c, d, n)
          \/ Step(c)
          \/ SetNx(c) \/ LoseSet(c)

Spec == Init /\ [][Next]_vars

-----------------------------------------------------------------------------
(* Properties.                                                              *)

Granted(n) == {c \in Calls : call[c] # Idle /\ call[c].nonce = n
                                /\ call[c].rc = "OK"}

\* Across the fleet a challenge is granted at most once before it expires, as
\* long as Redis keeps its key: whichever nodes verify it, however their clocks
\* lag, and although SETs are lost, delayed and executed after their call gave
\* up (nonce_redis, check_and_set).
FleetSingleUse ==
    \A n \in Nonces :
        Cardinality(Granted(n)) > 1 => clock >= Expiry \/ n \in lost

\* What the reject-only zone adds: a node never grants a challenge twice in one
\* life, also when Redis came back empty and also in the expiry second, unless
\* its zone was too full to record the first use (check_and_set ignores that).
NodeSingleUse ==
    \A n \in Nonces : \A c, e \in Granted(n) :
        c # e /\ call[c].node = call[e].node
            => call[c].local # "OK" \/ call[e].local # "OK"

\* Redis down is not a replay: a submission is told "already used", which the
\* throttle charges, only if another attempt used the nonce or it has expired.
\* An outage alone ends in NGX_ERROR (check_and_set's case 3).
ReplayHadAttempt ==
    \A c \in Calls :
        At(c, "over") /\ call[c].rc = "DECLINED"
            => \/ \E e \in Calls \ {c} :
                     call[e] # Idle /\ call[e].nonce = call[c].nonce
               \/ time[call[c].node] >= Expiry
=============================================================================
