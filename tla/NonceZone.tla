------------------------------ MODULE NonceZone ------------------------------
(***************************************************************************)
(* The "memory" single-use store: a slab-allocated shared zone that every  *)
(* worker of one nginx instance uses under one mutex, and the part of      *)
(* validate_consume that checks a challenge's expiry before consuming its  *)
(* nonce.                                                                  *)
(*                                                                         *)
(* A thread here is whatever runs validate_consume: the worker itself when *)
(* gpg runs synchronously, a pool thread when it does not.  It reads       *)
(* ngx_time() twice, once for the expiry check and once at the top of      *)
(* nonce_memory, before it takes the mutex.  ngx_time() is the worker's    *)
(* cached clock, which lags the wall clock until the event loop turns.     *)
(***************************************************************************)
EXTENDS Integers, Sequences

CONSTANTS
    Nonces,     \* challenges ever issued; the MAC ties each to one expiry
    NoNonce,    \* a thread that is consuming none
    Workers,
    Threads,
    WorkerOf,   \* WorkerOf[t] is the worker whose clock thread t reads
    Timeouts,   \* the pgp_challenge_timeout values of the locations
    Capacity,   \* nodes the slab pool holds
    EvictSome,  \* entries reclaimed on every call (8 in the code)
    EvictMany,  \* entries reclaimed when the zone is full (512)
    MaxClock    \* bound: the wall clock stops here

ASSUME ConstantsAssumption ==
    /\ NoNonce \notin Nonces
    /\ WorkerOf \in [Threads -> Workers]
    /\ Timeouts \subseteq Nat \ {0}
    /\ Capacity \in Nat \ {0}
    /\ EvictSome \in Nat \ {0}
    /\ EvictMany \in Nat \ {0}
    /\ MaxClock \in Nat

VARIABLES
    clock,      \* wall clock, in seconds
    time,       \* time[w]: ngx_time() as worker w has it cached
    exp,        \* exp[n]: expiry signed into the challenge, 0 before issue
    queue,      \* the zone's entries, oldest insertion first
    pc,         \* where each thread is
    nonce,      \* the nonce each thread is consuming
    now,        \* the time each thread read before taking the mutex
    used,       \* history: nonces accepted during this life of the zone
    reused      \* history: nonces accepted more than once in it

thread == <<pc, nonce, now>>
vars == <<clock, time, exp, queue, thread, used, reused>>

Idle == "idle"
Passed == "passed"      \* the expiry check succeeded
Locking == "locking"    \* now is read, the mutex is not held yet

Entry == [nonce : Nonces, expire : Nat]

\* Faulty Stored: a lookup that compares hashes only, and all collide.
StoredByHash(q) == IF q = << >> THEN {} ELSE Nonces

Stored(q) == {q[i].nonce : i \in 1..Len(q)}

TypeOK ==
    /\ clock \in Nat
    /\ time \in [Workers -> Nat]
    /\ exp \in [Nonces -> Nat]
    /\ queue \in Seq(Entry)
    /\ pc \in [Threads -> {Idle, Passed, Locking}]
    /\ nonce \in [Threads -> Nonces \cup {NoNonce}]
    /\ now \in [Threads -> Nat]
    /\ used \subseteq Nonces
    /\ reused \subseteq Nonces

Init ==
    /\ clock = 1
    /\ time = [w \in Workers |-> 1]
    /\ exp = [n \in Nonces |-> 0]
    /\ queue = << >>
    /\ pc = [t \in Threads |-> Idle]
    /\ nonce = [t \in Threads |-> NoNonce]
    /\ now = [t \in Threads |-> 0]
    /\ used = {}
    /\ reused = {}

-----------------------------------------------------------------------------
(* The environment: time passes, event loops turn, challenges are served.  *)

Tick ==
    /\ clock < MaxClock
    /\ clock' = clock + 1
    /\ UNCHANGED <<time, exp, queue, thread, used, reused>>

UpdateTime(w) ==
    /\ time' = [time EXCEPT ![w] = clock]
    /\ UNCHANGED <<clock, exp, queue, thread, used, reused>>

Issue(w, n, timeout) ==
    /\ exp[n] = 0
    /\ exp' = [exp EXCEPT ![n] = time[w] + timeout]
    /\ UNCHANGED <<clock, time, queue, thread, used, reused>>

-----------------------------------------------------------------------------
(* validate_consume, after the MAC has matched                             *)

Fresh(n, at) == exp[n] >= at

RejectExpired(t, n) ==
    /\ pc[t] = Idle
    /\ exp[n] # 0
    /\ ~Fresh(n, time[WorkerOf[t]])
    /\ UNCHANGED vars

PassExpiry(t, n) ==
    /\ pc[t] = Idle
    /\ exp[n] # 0
    /\ Fresh(n, time[WorkerOf[t]])
    /\ nonce' = [nonce EXCEPT ![t] = n]
    /\ pc' = [pc EXCEPT ![t] = Passed]
    /\ UNCHANGED <<clock, time, exp, queue, now, used, reused>>

ReadNow(t) ==
    /\ pc[t] = Passed
    /\ pc' = [pc EXCEPT ![t] = Locking]
    /\ now' = [now EXCEPT ![t] = time[WorkerOf[t]]]
    /\ UNCHANGED <<clock, time, exp, queue, nonce, used, reused>>

-----------------------------------------------------------------------------
(* nonce_memory, under the mutex                                           *)

\* Faulty Expired: off by one second.
ExpiredEarly(entry, at) == entry.expire <= at + 1

Expired(entry, at) == entry.expire <= at

\* The number of entries evict_expired removes: it stops at the first live
\* one, at the end of the queue, or after max.
Evictions(q, at, max) ==
    CHOOSE k \in 0..Len(q) :
        /\ k <= max
        /\ \A i \in 1..k : Expired(q[i], at)
        /\ k = Len(q) \/ k = max \/ ~Expired(q[k + 1], at)

EvictExpired(q, at, max) == SubSeq(q, Evictions(q, at, max) + 1, Len(q))

Return(t) ==
    /\ pc' = [pc EXCEPT ![t] = Idle]
    /\ nonce' = [nonce EXCEPT ![t] = NoNonce]
    /\ now' = [now EXCEPT ![t] = 0]

Allocatable(q) == Len(q) < Capacity

\* Faulty AfterFirstPass: the pass over expired entries is left out.
AfterNoPass(t) == queue

AfterFirstPass(t) == EvictExpired(queue, now[t], EvictSome)

\* Faulty AfterRetry: a full zone gives up its oldest entry, live or not.
AfterForcedRetry(t) ==
    IF Allocatable(AfterFirstPass(t))
        THEN AfterFirstPass(t)
        ELSE Tail(AfterFirstPass(t))

AfterRetry(t) ==
    IF Allocatable(AfterFirstPass(t))
        THEN AfterFirstPass(t)
        ELSE EvictExpired(AfterFirstPass(t), now[t], EvictMany)

Replay(t) ==
    /\ pc[t] = Locking
    /\ nonce[t] \in Stored(AfterFirstPass(t))
    /\ queue' = AfterFirstPass(t)
    /\ Return(t)
    /\ UNCHANGED <<clock, time, exp, used, reused>>

ZoneFull(t) ==
    /\ pc[t] = Locking
    /\ nonce[t] \notin Stored(AfterFirstPass(t))
    /\ ~Allocatable(AfterRetry(t))
    /\ queue' = AfterRetry(t)
    /\ Return(t)
    /\ UNCHANGED <<clock, time, exp, used, reused>>

\* Faulty Record: the node is never linked into the zone.
RecordUnlinked(t) ==
    LET n == nonce[t] IN
    /\ pc[t] = Locking
    /\ n \notin Stored(AfterFirstPass(t))
    /\ Allocatable(AfterRetry(t))
    /\ queue' = AfterRetry(t)
    /\ Return(t)
    /\ used' = used \cup {n}
    /\ reused' = IF n \in used THEN reused \cup {n} ELSE reused
    /\ UNCHANGED <<clock, time, exp>>

\* Faulty Record: the node's key is not copied in.
RecordKeyless(t) ==
    LET n == nonce[t] IN
    /\ pc[t] = Locking
    /\ n \notin Stored(AfterFirstPass(t))
    /\ Allocatable(AfterRetry(t))
    /\ queue' = Append(AfterRetry(t), [nonce |-> NoNonce, expire |-> exp[n]])
    /\ Return(t)
    /\ used' = used \cup {n}
    /\ reused' = IF n \in used THEN reused \cup {n} ELSE reused
    /\ UNCHANGED <<clock, time, exp>>

Record(t) ==
    LET n == nonce[t] IN
    /\ pc[t] = Locking
    /\ n \notin Stored(AfterFirstPass(t))
    /\ Allocatable(AfterRetry(t))
    /\ queue' = Append(AfterRetry(t), [nonce |-> n, expire |-> exp[n]])
    /\ Return(t)
    /\ used' = used \cup {n}
    /\ reused' = IF n \in used THEN reused \cup {n} ELSE reused
    /\ UNCHANGED <<clock, time, exp>>

-----------------------------------------------------------------------------
(* nginx is stopped and started: the zone is created anew.  A reload reuses *)
(* the old zone and so changes nothing here.                                *)

ColdStart ==
    /\ time' = [w \in Workers |-> clock]
    /\ queue' = << >>
    /\ pc' = [t \in Threads |-> Idle]
    /\ nonce' = [t \in Threads |-> NoNonce]
    /\ now' = [t \in Threads |-> 0]
    /\ used' = {}
    /\ reused' = {}
    /\ UNCHANGED <<clock, exp>>

Consume(t) ==
    \/ ReadNow(t)
    \/ Replay(t)
    \/ ZoneFull(t)
    \/ Record(t)

Next ==
    \/ Tick
    \/ \E w \in Workers : UpdateTime(w)
    \/ \E w \in Workers, n \in Nonces, d \in Timeouts : Issue(w, n, d)
    \/ \E t \in Threads, n \in Nonces : RejectExpired(t, n) \/ PassExpiry(t, n)
    \/ \E t \in Threads : Consume(t)
    \/ ColdStart

Spec == Init /\ [][Next]_vars

-----------------------------------------------------------------------------
\* A nonce the zone has accepted is still in it while its challenge lives,
\* whatever the workers' clocks say: evict_expired "never evict[s] a live one".
LiveRetained == \A n \in used : exp[n] > clock => n \in Stored(queue)

\* validate_consume accepts a challenge a second time only once the wall clock
\* has reached its expiry, for any interleaving of threads, lagging clocks and
\* evictions between the expiry check and the mutex.
NoReuseBeforeExpiry == \A n \in reused : exp[n] <= clock

\* The zone is a single-use store: what nonce.h promises of check_and_set.
Store == INSTANCE NonceStore WITH seen <- Stored(queue)
IsSingleUseStore == Store!Spec

\* nonce_memory reports a replay only for a nonce it accepted before: no first
\* use is ever turned down as "challenge already used".
ReplayIsGenuine ==
    [][\A t \in Threads : Replay(t) => nonce[t] \in used]_vars

\* The second eviction pass of nonce_memory ("try harder") never reclaims
\* anything: nodes have one size, so either the first pass freed a slot or the
\* oldest entry is live and stops both passes.
RetryReclaimsNothing ==
    \A t \in Threads : pc[t] = Locking => AfterRetry(t) = AfterFirstPass(t)

\* A challenge is accepted at most once (nonce.h: a "still-valid signed
\* challenge cannot be replayed within its lifetime").
SingleUse == reused = {}

=============================================================================
