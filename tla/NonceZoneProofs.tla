--------------------------- MODULE NonceZoneProofs ---------------------------
(***************************************************************************)
(* Proofs about the memory single-use store, for every number of workers,  *)
(* threads and nonces, every capacity and every pair of eviction limits.   *)
(***************************************************************************)
EXTENDS NonceZone, TLAPS, SequenceTheorems, WellFoundedInduction

-----------------------------------------------------------------------------
(* What evict_expired removes.                                             *)

\* A nonempty set of naturals has a least member.
LEMMA LeastNat ==
    ASSUME NEW S \in SUBSET Nat, S # {}
    PROVE  \E m \in S : \A k \in S : m <= k
<1>1. PICK m \in S : \A k \in S : ~(<<k, m>> \in OpToRel(<, Nat))
  BY NatLessThanWellFounded, WFMin
<1>2. \A k \in S : <<k, m>> \in OpToRel(<, Nat) <=> k < m
  BY DEF OpToRel
<1>3. \A k \in S : ~(k < m)
  BY <1>1, <1>2
<1>4. \A k \in S : k \in Nat
  OBVIOUS
<1> QED BY <1>3, <1>4

\* evict_expired stops: the number of entries it removes is well defined, all
\* of them have expired for the time the caller read, and it goes on as far as
\* its limit and the first live entry allow.
LEMMA EvictionsStops ==
    ASSUME NEW q \in Seq(Entry), NEW at \in Nat, NEW max \in Nat
    PROVE  LET k == Evictions(q, at, max) IN
           /\ k \in 0..Len(q)
           /\ k <= max
           /\ \A i \in 1..k : Expired(q[i], at)
           /\ k = Len(q) \/ k = max \/ ~Expired(q[k + 1], at)
<1> DEFINE Stop(k) == k = Len(q) \/ k = max \/ ~Expired(q[k + 1], at)
           Good(k) == /\ k <= max
                      /\ \A i \in 1..k : Expired(q[i], at)
                      /\ Stop(k)
           Stops == {k \in 0..Len(q) : Stop(k)}
<1>0. Len(q) \in Nat
  BY LenProperties
<1>1. Stops \in SUBSET Nat /\ Len(q) \in Stops
  BY <1>0
<1>2. PICK m \in Stops : \A k \in Stops : m <= k
  BY <1>1, LeastNat
<1> HIDE DEF Stop
<1>3. \A i \in 1..m : i - 1 \in 0..Len(q) /\ i - 1 \notin Stops
  <2>1. m \in 0..Len(q)
    OBVIOUS
  <2> HIDE DEF Stops
  <2>2. \A i \in 1..m : i - 1 \in Nat /\ i - 1 < m
    BY <2>1, <1>0
  <2> QED BY <2>1, <2>2, <1>0, <1>2
<1>4. \A i \in 1..m : Expired(q[i], at)
  <2> TAKE i \in 1..m
  <2>1. ~Stop(i - 1)
    BY <1>3
  <2>2. (i - 1) + 1 = i
    BY <1>0
  <2> QED BY <2>1, <2>2 DEF Stop
<1>5. m <= max
  <2>1. CASE m > max
    <3>1. max \in 0..Len(q) /\ max \in Stops
      BY <2>1, <1>0, <1>2 DEF Stop
    <3> QED BY <3>1, <1>2, <2>1
  <2> QED BY <2>1, <1>0, <1>2
<1>6. m \in 0..Len(q) /\ Good(m)
  BY <1>2, <1>4, <1>5
<1> HIDE DEF Good
<1>7. /\ (CHOOSE k \in 0..Len(q) : Good(k)) \in 0..Len(q)
      /\ Good(CHOOSE k \in 0..Len(q) : Good(k))
  BY <1>6
<1>8. Evictions(q, at, max) = CHOOSE k \in 0..Len(q) : Good(k)
  BY DEF Evictions, Good, Stop
<1> QED BY <1>7, <1>8 DEF Good, Stop

\* e is q without some entries that have expired at the given time.
Pruned(q, e, at) ==
    /\ e \in Seq(Entry)
    /\ Len(e) <= Len(q)
    /\ \A i \in 1..Len(e) : \E j \in 1..Len(q) : e[i] = q[j]
    /\ \A j \in 1..Len(q) :
          Expired(q[j], at) \/ \E i \in 1..Len(e) : e[i] = q[j]

\* evict_expired drops expired entries only, and leaves the queue in order.
LEMMA EvictExpiredPrunes ==
    ASSUME NEW q \in Seq(Entry), NEW at \in Nat, NEW max \in Nat
    PROVE  Pruned(q, EvictExpired(q, at, max), at)
<1> DEFINE k == Evictions(q, at, max)
           e == SubSeq(q, k + 1, Len(q))
<1>1. /\ k \in 0..Len(q)
      /\ \A i \in 1..k : Expired(q[i], at)
  BY EvictionsStops
<1>2. Len(q) \in Nat /\ \A i \in 1..Len(q) : q[i] \in Entry
  BY LenProperties, ElementOfSeq
<1> HIDE DEF k
<1>3. /\ e \in Seq(Entry)
      /\ Len(e) = Len(q) - k
      /\ \A i \in 1..(Len(q) - k) : e[i] = q[k + i]
  <2>1. /\ k + 1 \in Int /\ Len(q) \in Int
        /\ \A i \in (k + 1)..Len(q) : q[i] \in Entry
    BY <1>1, <1>2
  <2>2. /\ e \in Seq(Entry)
        /\ Len(e) = IF k + 1 <= Len(q) THEN Len(q) - (k + 1) + 1 ELSE 0
        /\ \A i \in 1..(Len(q) - (k + 1) + 1) : e[i] = q[(k + 1) + i - 1]
    BY <2>1, SubSeqProperties
  <2>3. Len(q) - (k + 1) + 1 = Len(q) - k
    BY <1>1, <1>2
  <2>4. \A i \in 1..(Len(q) - k) : (k + 1) + i - 1 = k + i
    BY <1>1, <1>2
  <2> HIDE DEF e
  <2> QED BY <1>1, <1>2, <2>2, <2>3, <2>4, SMTT(30)
<1> HIDE DEF e
<1>4. \A i \in 1..Len(e) : \E j \in 1..Len(q) : e[i] = q[j]
  <2> TAKE i \in 1..Len(e)
  <2>1. k + i \in 1..Len(q) /\ e[i] = q[k + i]
    BY <1>1, <1>2, <1>3
  <2> QED BY <2>1
<1>5. \A j \in 1..Len(q) :
         Expired(q[j], at) \/ \E i \in 1..Len(e) : e[i] = q[j]
  <2> TAKE j \in 1..Len(q)
  <2>1. CASE j \in 1..k
    BY <2>1, <1>1
  <2>2. CASE j \notin 1..k
    <3>1. j - k \in 1..Len(e) /\ k + (j - k) = j
      BY <2>2, <1>1, <1>2, <1>3
    <3>2. e[j - k] = q[j]
      BY <3>1, <1>3
    <3> QED BY <3>1, <3>2
  <2> QED BY <2>1, <2>2
<1>6. Len(e) <= Len(q)
  BY <1>1, <1>2, <1>3
<1> QED BY <1>3, <1>4, <1>5, <1>6 DEF Pruned, EvictExpired, e, k

\* Two prunings one after the other are one.
LEMMA PrunedTwice ==
    ASSUME NEW q \in Seq(Entry), NEW e, NEW f, NEW at,
           Pruned(q, e, at), Pruned(e, f, at)
    PROVE  Pruned(q, f, at)
<1>1. Len(q) \in Nat /\ Len(e) \in Nat /\ Len(f) \in Nat
  BY LenProperties DEF Pruned
<1> QED BY <1>1 DEF Pruned

\* Both versions of the queue that nonce_memory works on are prunings of it.
LEMMA ConsumePrunes ==
    ASSUME TypeOK, NEW t \in Threads
    PROVE  /\ Pruned(queue, AfterFirstPass(t), now[t])
           /\ Pruned(queue, AfterRetry(t), now[t])
           /\ Stored(AfterRetry(t)) \subseteq Stored(AfterFirstPass(t))
<1> DEFINE e == AfterFirstPass(t)
           f == AfterRetry(t)
<1>1. /\ queue \in Seq(Entry) /\ now[t] \in Nat
      /\ EvictSome \in Nat /\ EvictMany \in Nat
  BY ConstantsAssumption DEF TypeOK
<1>2. Pruned(queue, e, now[t])
  BY <1>1, EvictExpiredPrunes DEF AfterFirstPass
<1>3. e \in Seq(Entry)
  BY <1>2 DEF Pruned
<1> HIDE DEF e
<1>4. f = e \/ f = EvictExpired(e, now[t], EvictMany)
  BY DEF AfterRetry, e
<1>5. f = e \/ Pruned(e, f, now[t])
  BY <1>1, <1>3, <1>4, EvictExpiredPrunes
<1> HIDE DEF f
<1>6. Pruned(queue, f, now[t])
  BY <1>1, <1>2, <1>5, PrunedTwice
<1>7. Stored(f) \subseteq Stored(e)
  <2>1. CASE f = e
    BY <2>1
  <2>2. CASE Pruned(e, f, now[t])
    <3> SUFFICES ASSUME NEW i \in 1..Len(f)
                 PROVE  f[i].nonce \in Stored(e)
      BY DEF Stored
    <3>1. PICK j \in 1..Len(e) : f[i] = e[j]
      BY <2>2 DEF Pruned
    <3> QED BY <3>1 DEF Stored
  <2> QED BY <1>5, <2>1, <2>2
<1> QED BY <1>2, <1>6, <1>7 DEF e, f

-----------------------------------------------------------------------------
(* The inductive invariant.                                                *)

\* Every entry carries the expiry of an accepted nonce.
EntriesTrue(q) ==
    \A i \in 1..Len(q) : q[i].nonce \in used /\ q[i].expire = exp[q[i].nonce]

\* No clock a decision is based on runs ahead of the wall clock, every nonce a
\* thread holds or the zone has accepted was issued, and the entries are true:
\* then what a thread evicts, however late, has expired on the wall clock too.
IInv ==
    /\ TypeOK
    /\ \A w \in Workers : time[w] <= clock
    /\ \A t \in Threads : now[t] <= clock
    /\ \A t \in Threads :
          pc[t] # Idle => nonce[t] \in Nonces /\ exp[nonce[t]] # 0
    /\ \A n \in used : exp[n] # 0
    /\ EntriesTrue(queue)
    /\ Len(queue) <= Capacity
    /\ reused \subseteq used
    /\ LiveRetained
    /\ NoReuseBeforeExpiry

\* The strengthened invariant holds when nginx starts with an empty zone.
LEMMA InitIInv == Init => IInv
<1> SUFFICES ASSUME Init PROVE IInv
  OBVIOUS
<1>1. queue = << >> /\ Len(queue) = 0 /\ queue \in Seq(Entry)
  BY EmptySeq DEF Init
<1>2. TypeOK
  BY <1>1 DEF Init, TypeOK
<1> QED BY <1>1, <1>2, ConstantsAssumption
        DEF Init, IInv, EntriesTrue, LiveRetained, NoReuseBeforeExpiry

\* Pruning a true queue at a time the wall clock has passed keeps it true, and
\* drops no nonce whose challenge is alive.
LEMMA PrunedKeepsLive ==
    ASSUME IInv, NEW t \in Threads, NEW e, Pruned(queue, e, now[t])
    PROVE  /\ e \in Seq(Entry)
           /\ Len(e) \in Nat /\ Len(e) <= Capacity
           /\ EntriesTrue(e)
           /\ Stored(e) \subseteq Stored(queue)
           /\ \A n \in Stored(queue) : exp[n] > clock => n \in Stored(e)
<1>1. /\ queue \in Seq(Entry) /\ Len(queue) \in Nat
      /\ clock \in Nat /\ now[t] \in Nat /\ now[t] <= clock
      /\ exp \in [Nonces -> Nat] /\ used \subseteq Nonces
      /\ Capacity \in Nat /\ Len(queue) <= Capacity
      /\ EntriesTrue(queue)
  BY LenProperties, ConstantsAssumption DEF IInv, TypeOK
<1>2. e \in Seq(Entry) /\ Len(e) \in Nat /\ Len(e) <= Capacity
  BY <1>1, LenProperties DEF Pruned
<1>3. \A i \in 1..Len(e) : \E j \in 1..Len(queue) : e[i] = queue[j]
  BY DEF Pruned
<1>4. EntriesTrue(e)
  BY <1>1, <1>3 DEF EntriesTrue
<1>5. Stored(e) \subseteq Stored(queue)
  <2> SUFFICES ASSUME NEW i \in 1..Len(e) PROVE e[i].nonce \in Stored(queue)
    BY DEF Stored
  <2>1. PICK j \in 1..Len(queue) : e[i] = queue[j]
    BY <1>3
  <2> QED BY <2>1 DEF Stored
<1>6. ASSUME NEW n \in Stored(queue), exp[n] > clock
      PROVE  n \in Stored(e)
  <2>1. PICK j \in 1..Len(queue) : n = queue[j].nonce
    BY DEF Stored
  <2>2. queue[j].expire = exp[n] /\ n \in Nonces
    BY <1>1, <2>1 DEF EntriesTrue
  <2>3. exp[n] \in Nat
    BY <1>1, <2>2
  <2>4. ~Expired(queue[j], now[t])
    BY <1>1, <1>6, <2>2, <2>3 DEF Expired
  <2>5. PICK i \in 1..Len(e) : e[i] = queue[j]
    BY <2>4 DEF Pruned
  <2> QED BY <2>1, <2>5 DEF Stored
<1> QED BY <1>2, <1>4, <1>5, <1>6

\* The calls that end in a refusal: the queue is pruned, nothing is accepted.
LEMMA RefusalKeepsIInv ==
    ASSUME IInv, NEW t \in Threads, NEW e, Pruned(queue, e, now[t]),
           queue' = e, Return(t), UNCHANGED <<clock, time, exp, used, reused>>
    PROVE  IInv'
<1>1. /\ e \in Seq(Entry) /\ Len(e) <= Capacity /\ EntriesTrue(e)
      /\ \A n \in Stored(queue) : exp[n] > clock => n \in Stored(e)
  BY PrunedKeepsLive
<1>2. TypeOK'
  BY <1>1 DEF IInv, TypeOK, Return
<1>3. EntriesTrue(queue)' /\ (Len(queue) <= Capacity)'
  BY <1>1 DEF EntriesTrue
<1>4. LiveRetained'
  BY <1>1 DEF IInv, LiveRetained
<1>5. /\ \A w \in Workers : time'[w] <= clock'
      /\ \A u \in Threads : now'[u] <= clock'
      /\ \A u \in Threads :
             pc'[u] # Idle => nonce'[u] \in Nonces /\ exp'[nonce'[u]] # 0
  BY DEF IInv, TypeOK, Return
<1>6. /\ \A n \in used' : exp'[n] # 0
      /\ reused' \subseteq used'
      /\ NoReuseBeforeExpiry'
  BY DEF IInv, NoReuseBeforeExpiry
<1> QED BY <1>2, <1>3, <1>4, <1>5, <1>6 DEF IInv

\* The call that accepts a nonce: an accepted nonce whose challenge is alive
\* would have been found, so accepting it again means that it has expired.
LEMMA RecordKeepsIInv ==
    ASSUME IInv, NEW t \in Threads, Record(t)
    PROVE  IInv'
<1> DEFINE n == nonce[t]
           e == AfterRetry(t)
           entry == [nonce |-> n, expire |-> exp[n]]
<1>0. TypeOK
  BY DEF IInv
<1>1. /\ pc[t] = Locking /\ n \notin Stored(AfterFirstPass(t))
      /\ Len(e) < Capacity
      /\ queue' = Append(e, entry)
      /\ Return(t)
      /\ used' = used \cup {n}
      /\ reused' = IF n \in used THEN reused \cup {n} ELSE reused
      /\ UNCHANGED <<clock, time, exp>>
  BY DEF Record, Allocatable
<1>2. n \in Nonces /\ exp[n] \in Nat /\ exp[n] # 0 /\ entry \in Entry
  BY <1>1 DEF IInv, TypeOK, Locking, Idle, Entry
<1>3. /\ e \in Seq(Entry) /\ Len(e) \in Nat /\ EntriesTrue(e)
      /\ \A m \in Stored(queue) : exp[m] > clock => m \in Stored(e)
  BY <1>0, ConsumePrunes, PrunedKeepsLive
<1>4. \A m \in Stored(queue) : exp[m] > clock => m \in Stored(AfterFirstPass(t))
  BY <1>0, ConsumePrunes, PrunedKeepsLive
<1> HIDE DEF e, entry
<1>5. /\ queue' \in Seq(Entry) /\ Len(queue') = Len(e) + 1
      /\ \A i \in 1..Len(e) : queue'[i] = e[i]
      /\ queue'[Len(e) + 1] = entry
  BY <1>1, <1>2, <1>3, AppendProperties, SMTT(30)
<1>6. TypeOK'
  BY <1>1, <1>2, <1>5 DEF IInv, TypeOK, Return
<1>7. EntriesTrue(queue)'
  <2> SUFFICES ASSUME NEW i \in 1..(Len(e) + 1)
               PROVE  /\ queue'[i].nonce \in used'
                      /\ queue'[i].expire = exp'[queue'[i].nonce]
    BY <1>5 DEF EntriesTrue
  <2>1. CASE i = Len(e) + 1
    BY <2>1, <1>1, <1>2, <1>5 DEF entry
  <2>2. CASE i \in 1..Len(e)
    BY <2>2, <1>1, <1>3, <1>5 DEF EntriesTrue
  <2> QED BY <2>1, <2>2, <1>3
<1>8. (Len(queue) <= Capacity)'
  BY <1>1, <1>3, <1>5, ConstantsAssumption
<1>9. Stored(e) \cup {n} \subseteq Stored(queue')
  <2>1. n \in Stored(queue')
    <3>1. Len(e) + 1 \in 1..Len(queue') /\ queue'[Len(e) + 1].nonce = n
      BY <1>3, <1>5 DEF entry
    <3> QED BY <3>1 DEF Stored
  <2>2. ASSUME NEW i \in 1..Len(e) PROVE e[i].nonce \in Stored(queue')
    <3>1. i \in 1..Len(queue') /\ queue'[i].nonce = e[i].nonce
      BY <1>3, <1>5
    <3> QED BY <3>1 DEF Stored
  <2> QED BY <2>1, <2>2 DEF Stored
<1>10. LiveRetained'
  BY <1>1, <1>3, <1>9 DEF IInv, LiveRetained
<1>11. NoReuseBeforeExpiry'
  <2>1. n \in used => exp[n] <= clock
    BY <1>0, <1>1, <1>2, <1>4, SMTT(30) DEF IInv, LiveRetained, TypeOK
  <2> QED BY <2>1, <1>1 DEF IInv, NoReuseBeforeExpiry
<1>12. /\ \A w \in Workers : time'[w] <= clock'
       /\ \A u \in Threads : now'[u] <= clock'
       /\ \A u \in Threads :
             pc'[u] # Idle => nonce'[u] \in Nonces /\ exp'[nonce'[u]] # 0
  BY <1>1 DEF IInv, TypeOK, Return
<1>13. (\A m \in used' : exp'[m] # 0) /\ reused' \subseteq used'
  BY <1>1, <1>2, SMTT(30) DEF IInv
<1> QED BY <1>6, <1>7, <1>8, <1>10, <1>11, <1>12, <1>13, SMTT(30) DEF IInv

\* Every step preserves it: each outcome of nonce_memory, each step before it,
\* clocks, new challenges and a cold start.
LEMMA NextIInv == IInv /\ [Next]_vars => IInv'
<1> SUFFICES ASSUME IInv, [Next]_vars PROVE IInv'
  BY SMTT(30)
<1> USE DEF IInv, EntriesTrue, LiveRetained, NoReuseBeforeExpiry
<1>1. CASE Tick
  BY <1>1, SMTT(30) DEF Tick, TypeOK, thread
<1>2. CASE \E w \in Workers : UpdateTime(w)
  BY <1>2, SMTT(30) DEF UpdateTime, TypeOK, thread
<1>3. ASSUME NEW w \in Workers, NEW n \in Nonces, NEW d \in Timeouts,
             Issue(w, n, d)
      PROVE  IInv'
  <2>1. /\ exp[n] = 0 /\ n \notin used
        /\ exp' = [exp EXCEPT ![n] = time[w] + d]
        /\ UNCHANGED <<clock, time, queue, pc, nonce, now, used, reused>>
    BY <1>3 DEF Issue, thread
  <2>2. time[w] + d \in Nat /\ time[w] + d # 0
    BY ConstantsAssumption DEF TypeOK
  <2>3. TypeOK'
    BY <2>1, <2>2 DEF TypeOK
  <2>4. \A m \in Nonces : m # n => exp'[m] = exp[m]
    BY <2>1 DEF TypeOK
  <2>5. exp'[n] # 0
    BY <2>1, <2>2 DEF TypeOK
  <2>6. used \subseteq Nonces /\ reused \subseteq Nonces
    BY DEF TypeOK
  <2>7. \A m \in used : exp'[m] = exp[m]
    BY <2>1, <2>4, <2>6
  <2>8. EntriesTrue(queue)'
    BY <2>1, <2>7
  <2>9. LiveRetained' /\ NoReuseBeforeExpiry' /\ \A m \in used' : exp'[m] # 0
    BY <2>1, <2>7
  <2>10. \A t \in Threads :
             pc'[t] # Idle => nonce'[t] \in Nonces /\ exp'[nonce'[t]] # 0
    BY <2>1, <2>4, <2>5, SMTT(30)
  <2> QED BY <2>1, <2>3, <2>8, <2>9, <2>10, SMTT(30)
<1>4. ASSUME NEW t \in Threads, NEW n \in Nonces, PassExpiry(t, n)
      PROVE  IInv'
  BY <1>4, SMTT(30) DEF PassExpiry, TypeOK, Passed
<1>5. ASSUME NEW t \in Threads, ReadNow(t)
      PROVE  IInv'
  <2>1. WorkerOf[t] \in Workers
    BY ConstantsAssumption
  <2> QED BY <1>5, <2>1, Zenon DEF ReadNow, TypeOK, Passed, Idle, Locking
<1>6. ASSUME NEW t \in Threads, Replay(t) \/ ZoneFull(t)
      PROVE  IInv'
  BY <1>6, ConsumePrunes, RefusalKeepsIInv DEF Replay, ZoneFull
<1>7. ASSUME NEW t \in Threads, Record(t)
      PROVE  IInv'
  BY <1>7, RecordKeepsIInv
<1>8. CASE ColdStart
  <2>1. queue' = << >> /\ Len(queue') = 0 /\ queue' \in Seq(Entry)
    BY <1>8, EmptySeq DEF ColdStart
  <2>2. TypeOK'
    BY <1>8, <2>1 DEF ColdStart, TypeOK
  <2>3. clock \in Nat
    BY SMTT(30) DEF TypeOK
  <2> QED BY <1>8, <2>1, <2>2, <2>3, ConstantsAssumption, SMTT(30)
     DEF ColdStart
<1>9. CASE UNCHANGED vars
  BY <1>9 DEF vars, thread, TypeOK, Stored
<1> QED BY <1>1, <1>2, <1>3, <1>4, <1>5, <1>6, <1>7, <1>8, <1>9
        DEF Next, Consume, RejectExpired

\* The strengthened invariant holds of every behaviour of the zone.
THEOREM Invariance == Spec => []IInv
<1> QED BY InitIInv, NextIInv, PTL DEF Spec

\* Every variable of the zone model keeps its type.
THEOREM TypeCorrect == Spec => []TypeOK
<1>1. IInv => TypeOK
  BY DEF IInv
<1> QED BY <1>1, Invariance, PTL

\* evict_expired never makes the zone forget a nonce whose challenge is alive,
\* for any number of workers whose cached clocks lag by any amount.
THEOREM LiveNoncesRetained == Spec => []LiveRetained
<1>1. IInv => LiveRetained
  BY DEF IInv
<1> QED BY <1>1, Invariance, PTL

\* validate_consume with the memory store accepts no challenge twice before
\* its expiry second.
THEOREM SingleUseBeforeExpiry == Spec => []NoReuseBeforeExpiry
<1>1. IInv => NoReuseBeforeExpiry
  BY DEF IInv
<1> QED BY <1>1, Invariance, PTL

\* nonce_memory calls a nonce a replay only if it accepted it before.
THEOREM ReplaysAreGenuine == Spec => ReplayIsGenuine
<1>1. ASSUME IInv, NEW t \in Threads, Replay(t)
      PROVE  nonce[t] \in used
  <2>1. Pruned(queue, AfterFirstPass(t), now[t])
    BY <1>1, ConsumePrunes DEF IInv
  <2>2. EntriesTrue(AfterFirstPass(t))
    BY <1>1, <2>1, PrunedKeepsLive
  <2> QED BY <1>1, <2>2, SMTT(30) DEF Replay, Stored, EntriesTrue
<1>2. IInv /\ [Next]_vars
        => [\A t \in Threads : Replay(t) => nonce[t] \in used]_vars
  BY <1>1
<1> QED BY <1>2, Invariance, PTL DEF Spec, ReplayIsGenuine

\* A full zone whose first eviction pass freed nothing has a live oldest entry.
LEMMA FullAfterFirstPass ==
    ASSUME IInv, NEW t \in Threads, ~Allocatable(AfterFirstPass(t))
    PROVE  /\ AfterFirstPass(t) = queue
           /\ Len(queue) = Capacity
           /\ ~Expired(queue[1], now[t])
<1> DEFINE k == Evictions(queue, now[t], EvictSome)
<1>1. /\ queue \in Seq(Entry) /\ Len(queue) \in Nat /\ now[t] \in Nat
      /\ Len(queue) <= Capacity /\ Capacity \in Nat \ {0}
      /\ EvictSome \in Nat \ {0}
  BY ConstantsAssumption, LenProperties DEF IInv, TypeOK
<1>2. /\ k \in 0..Len(queue)
      /\ k = Len(queue) \/ k = EvictSome \/ ~Expired(queue[k + 1], now[t])
  BY <1>1, EvictionsStops
<1>3. AfterFirstPass(t) = SubSeq(queue, k + 1, Len(queue))
  BY DEF AfterFirstPass, EvictExpired
<1> HIDE DEF k
<1>4. \A i \in (k + 1)..Len(queue) : queue[i] \in Entry
  BY <1>1, <1>2, ElementOfSeq
<1>5. Len(AfterFirstPass(t)) =
          IF k + 1 <= Len(queue) THEN Len(queue) - (k + 1) + 1 ELSE 0
  BY <1>1, <1>2, <1>3, <1>4, SubSeqProperties
<1>6. ~(Len(AfterFirstPass(t)) < Capacity)
  BY DEF Allocatable
<1>7. k = 0 /\ Len(queue) = Capacity
  BY <1>1, <1>2, <1>5, <1>6
<1>8. SubSeq(queue, 1, Len(queue)) = queue
  BY <1>1, SubSeqFull
<1> QED BY <1>1, <1>2, <1>3, <1>7, <1>8

\* The "try harder" pass of nonce_memory reclaims nothing, for every zone size
\* and every pair of eviction limits: the first pass frees a slot or nothing can.
THEOREM RetryIsIdle == Spec => []RetryReclaimsNothing
<1>1. ASSUME IInv, NEW t \in Threads
      PROVE  AfterRetry(t) = AfterFirstPass(t)
  <2>1. CASE Allocatable(AfterFirstPass(t))
    BY <2>1 DEF AfterRetry
  <2>2. CASE ~Allocatable(AfterFirstPass(t))
    <3> DEFINE k == Evictions(queue, now[t], EvictMany)
    <3>1. /\ AfterFirstPass(t) = queue
          /\ ~Expired(queue[1], now[t])
      BY <1>1, <2>2, FullAfterFirstPass
    <3>2. /\ queue \in Seq(Entry) /\ Len(queue) \in Nat /\ now[t] \in Nat
          /\ EvictMany \in Nat
      BY <1>1, ConstantsAssumption, LenProperties DEF IInv, TypeOK
    <3>3. k \in 0..Len(queue) /\ \A i \in 1..k : Expired(queue[i], now[t])
      BY <3>2, EvictionsStops
    <3>4. AfterRetry(t) = SubSeq(queue, k + 1, Len(queue))
      BY <2>2, <3>1 DEF AfterRetry, EvictExpired
    <3> HIDE DEF k
    <3>5. k = 0
      BY <3>1, <3>2, <3>3
    <3>6. SubSeq(queue, 1, Len(queue)) = queue
      BY <3>2, SubSeqFull
    <3> QED BY <3>1, <3>4, <3>5, <3>6
  <2> QED BY <2>1, <2>2
<1>2. IInv => RetryReclaimsNothing
  BY <1>1 DEF RetryReclaimsNothing
<1> QED BY <1>2, Invariance, PTL

-----------------------------------------------------------------------------
(* The zone implements the single-use store.                               *)

\* What a call that prunes the queue to e may forget, the store may forget.
LEMMA PrunedForgets ==
    ASSUME IInv, NEW t \in Threads, NEW e, Pruned(queue, e, now[t])
    PROVE  /\ Stored(queue) \ Stored(e) \in SUBSET Store!Forgettable
           /\ Stored(e) = Stored(queue) \ (Stored(queue) \ Stored(e))
<1>1. /\ Stored(e) \subseteq Stored(queue)
      /\ \A n \in Stored(queue) : exp[n] > clock => n \in Stored(e)
  BY PrunedKeepsLive
<1>2. \A n \in Stored(queue) : n \in Nonces /\ exp[n] \in Nat
  BY DEF IInv, TypeOK, EntriesTrue, Stored
<1>3. clock \in Nat
  BY DEF IInv, TypeOK
<1>4. ASSUME NEW n \in Stored(queue) \ Stored(e)
      PROVE  n \in Nonces /\ exp[n] <= clock
  BY <1>1, <1>2, <1>3
<1> QED BY <1>1, <1>4 DEF Store!Forgettable

\* Every step of the zone is a step of the store or leaves it alone.
LEMMA StepSimulation == IInv /\ [Next]_vars => [Store!Next]_(Store!vars)
<1> SUFFICES ASSUME IInv, [Next]_vars PROVE [Store!Next]_(Store!vars)
  BY SMTT(30)
<1>0. TypeOK
  BY DEF IInv
<1>1. CASE Tick
  BY <1>1 DEF Tick, Store!Next, Store!Tick
<1>2. ASSUME NEW w \in Workers, NEW n \in Nonces, NEW d \in Timeouts,
             Issue(w, n, d)
      PROVE  Store!Issue
  <2>1. /\ exp[n] = 0
        /\ exp' = [exp EXCEPT ![n] = time[w] + d]
        /\ UNCHANGED <<clock, queue, used, reused>>
    BY <1>2 DEF Issue
  <2>2. time[w] + d \in Nat /\ exp \in [Nonces -> Nat]
    BY <1>0, ConstantsAssumption DEF TypeOK
  <2> QED BY <2>1, <2>2 DEF Store!Issue
<1>3. ASSUME NEW t \in Threads, Replay(t) \/ ZoneFull(t)
      PROVE  Store!Next
  <2>1. PICK e : Pruned(queue, e, now[t]) /\ queue' = e
    BY <1>0, <1>3, ConsumePrunes DEF Replay, ZoneFull
  <2> DEFINE F == Stored(queue) \ Stored(e)
  <2>2. F \in SUBSET Store!Forgettable /\ Stored(e) = Stored(queue) \ F
    BY <2>1, PrunedForgets
  <2>3. UNCHANGED <<clock, exp, used, reused>>
    BY <1>3 DEF Replay, ZoneFull
  <2> HIDE DEF F
  <2>4. Store!Refuse(F)
    BY <2>1, <2>2, <2>3 DEF Store!Refuse
  <2> QED BY <2>2, <2>4, SMTT(30) DEF Store!Next
<1>4. ASSUME NEW t \in Threads, Record(t)
      PROVE  Store!Next
  <2> DEFINE n == nonce[t]
             e == AfterRetry(t)
             F == Stored(queue) \ Stored(e)
             entry == [nonce |-> n, expire |-> exp[n]]
  <2>1. Pruned(queue, e, now[t]) /\ n \notin Stored(e)
    BY <1>0, <1>4, ConsumePrunes, SMTT(30) DEF Record
  <2>2. F \in SUBSET Store!Forgettable /\ Stored(e) = Stored(queue) \ F
    BY <2>1, PrunedForgets, SMTT(30)
  <2>3. n \in Nonces /\ entry \in Entry
    BY <1>0, <1>4, SMTT(30) DEF IInv, TypeOK, Record, Locking, Idle, Entry
  <2>4. e \in Seq(Entry) /\ Len(e) \in Nat
    BY <2>1, LenProperties DEF Pruned
  <2>5. queue' = Append(e, entry)
    BY <1>4 DEF Record
  <2> HIDE DEF e, entry
  <2>6. /\ Len(queue') = Len(e) + 1
        /\ \A i \in 1..Len(e) : queue'[i] = e[i]
        /\ queue'[Len(e) + 1] = entry
    BY <2>3, <2>4, <2>5, AppendProperties
  <2>7. Stored(queue') = Stored(e) \cup {n}
    <3>1. 1..Len(queue') = 1..Len(e) \cup {Len(e) + 1}
      BY <2>4, <2>6
    <3>2. entry.nonce = n
      BY SMTT(30) DEF entry
    <3> QED BY <3>1, <3>2, <2>6 DEF Stored
  <2>8. /\ used' = used \cup {n}
        /\ reused' = IF n \in used THEN reused \cup {n} ELSE reused
        /\ UNCHANGED <<clock, exp>>
    BY <1>4 DEF Record
  <2> HIDE DEF F, n
  <2>9. Store!Accept(n, F)
    BY <2>1, <2>2, <2>7, <2>8 DEF Store!Accept
  <2> QED BY <2>2, <2>3, <2>9, SMTT(30) DEF Store!Next
<1>5. CASE ColdStart
  <2>1. Stored(queue)' = {}
    BY <1>5, EmptySeq DEF ColdStart, Stored
  <2> QED BY <1>5, <2>1, SMTT(30) DEF ColdStart, Store!Next, Store!ColdStart
<1>6. ASSUME UNCHANGED <<clock, exp, queue, used, reused>>
      PROVE  UNCHANGED Store!vars
  BY <1>6 DEF Store!vars
<1>7. ASSUME NEW t \in Threads, NEW n \in Nonces,
             RejectExpired(t, n) \/ PassExpiry(t, n)
      PROVE  UNCHANGED Store!vars
  BY <1>6, <1>7 DEF RejectExpired, PassExpiry, vars
<1>8. ASSUME NEW t \in Threads, ReadNow(t)
      PROVE  UNCHANGED Store!vars
  BY <1>6, <1>8 DEF ReadNow
<1>9. ASSUME NEW w \in Workers, UpdateTime(w)
      PROVE  UNCHANGED Store!vars
  BY <1>6, <1>9 DEF UpdateTime
<1>10. CASE UNCHANGED vars
  BY <1>6, <1>10 DEF vars
<1> QED BY <1>1, <1>2, <1>3, <1>4, <1>5, <1>7, <1>8, <1>9, <1>10, SMTT(30)
        DEF Next, Consume, Store!Next

\* The memory backend keeps the contract of check_and_set: it implements the
\* abstract single-use store, whatever its size and its eviction limits.
THEOREM ImplementsStore == Spec => IsSingleUseStore
<1>1. Init => Store!Init
  BY EmptySeq DEF Init, Store!Init, Stored
<1> QED BY <1>1, Invariance, StepSimulation, PTL
       DEF Spec, IsSingleUseStore, Store!Spec
=============================================================================
