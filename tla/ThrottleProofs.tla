---------------------------- MODULE ThrottleProofs ----------------------------
(***************************************************************************)
(* Proofs about the failure throttle, for any number of addresses,         *)
(* workers, requests and locations, any capacity and any eviction limits.  *)
(*                                                                         *)
(* All but BurstBound hold however the locations are configured.           *)
(* BurstBound is about one limit and one window, and is proved for         *)
(* locations that count alike; their bans may differ.                      *)
(*                                                                         *)
(* BurstBound needs to know which of the failures of an address belong to  *)
(* its node's window: BurstOf says that they are the last node.count of    *)
(* them, and that the first one came when the window started.  When the    *)
(* window is over, that first one is out of the span, and everything       *)
(* before it: at most limit - 2 failures are carried into the next window. *)
(***************************************************************************)
EXTENDS Throttle, TLAPS, FiniteSetTheorems, WellFoundedInduction

\* One limit and one window for the whole zone.
CountAlike ==
    \A l, m \in Locations :
        Conf[l].limit = Conf[m].limit /\ Conf[l].window = Conf[m].window

\* A cached clock lags at most MaxLag seconds and never leads.
TimeInv ==
    \A w \in Workers : time[w] <= clock /\ clock <= time[w] + MaxLag

\* A node exists from its first failure on, and its window has begun.
NodeInv ==
    \A ip \in IPs : node[ip] # NoNode =>
        node[ip].window_start <= clock /\ node[ip].count >= 1

\* A ban ends within some location's ban_time from now, and a node over every
\* limit is banned for some location's ban_time from its window's start.
BanOf(n, now) ==
    n # NoNode =>
        /\ \E l \in Locations : n.banned_until <= now + Conf[l].ban_time
        /\ (\A l \in Locations : n.count >= Conf[l].limit) =>
              \E m \in Locations :
                  n.banned_until + MaxLag >= n.window_start + Conf[m].ban_time

BanInv == \A ip \in IPs : BanOf(node[ip], clock)

Sorted(q) == \A i, j \in 1..Len(q) : i <= j => q[i] <= q[j]

\* Times up to now, in their order.
Chronicle(q, now) ==
    q \in Seq(Nat) /\ Sorted(q) /\ \A i \in 1..Len(q) : q[i] <= now

\* What is known of the failures of an address without its node.
History(q, conf, now) ==
    /\ Chronicle(q, now)
    /\ Len(q) <= Max(conf.limit - 1, 2 * conf.limit - 3)

\* How many failures of a window may still count when the next one starts.
Carried(limit) == Max(limit - 2, 0)

\* No more of the failures q than a window carries over are within the span.
Faded(q, conf, now) ==
    \/ Len(q) <= Carried(conf.limit)
    \/ q[Len(q) - Carried(conf.limit)] <= now - (conf.window - MaxLag)

\* The failures q end in those of node n's window, unless n is banned.
BurstOf(n, q, conf) ==
    IF n.count >= conf.limit
        THEN q = << >>
        ELSE /\ Len(q) <= conf.limit - 2 + n.count
             /\ n.count <= Len(q) =>
                    q[Len(q) - n.count + 1] <= n.window_start + MaxLag

BurstInv ==
    \A ip \in IPs, l \in Locations :
        /\ History(recent[ip], Conf[l], clock)
        /\ IF node[ip] = NoNode
               THEN Faded(recent[ip], Conf[l], clock)
               ELSE BurstOf(node[ip], recent[ip], Conf[l])

ZoneInv == TypeOK /\ ZoneConsistent /\ TimeInv /\ NodeInv

IInv == ZoneInv /\ BurstInv

-----------------------------------------------------------------------------
(* What is left of a queue.                                                 *)

\* A nonempty set of naturals has a least member.
LEMMA LeastNat ==
    ASSUME NEW S \in SUBSET Nat, S # {}
    PROVE  \E m \in S : \A k \in S : m <= k
<1>1. PICK m \in S : \A k \in S : ~(<<k, m>> \in OpToRel(<, Nat))
    BY NatLessThanWellFounded, WFMin
<1>2. \A k \in S : <<k, m>> \in OpToRel(<, Nat) <=> k < m
    BY DEF OpToRel
<1>3. \A k \in S : ~(k < m) /\ k \in Nat /\ m \in Nat
    BY <1>1, <1>2
<1> QED  BY <1>3

\* The set S of naturals has everything that its members lead to.
LEMMA Induction ==
    ASSUME NEW n \in Nat, NEW S, 0 \in S,
           \A i \in 1..n : i - 1 \in S => i \in S
    PROVE  \A i \in 0..n : i \in S
<1> DEFINE Missing == {i \in 0..n : i \notin S}
<1> SUFFICES ASSUME Missing # {}
             PROVE  FALSE
    OBVIOUS
<1>1. PICK m \in Missing : \A k \in Missing : m <= k
  <2>1. Missing \in SUBSET Nat
      OBVIOUS
  <2> QED  BY <2>1, LeastNat, Zenon
<1>2. m \in 1..n /\ m - 1 \in 0..n /\ m - 1 \notin Missing
    BY <1>1
<1> QED  BY <1>2

\* f[i] is what is left of the first i elements of q.
Filters(f, q, S, n) ==
    f = [i \in 0..n |-> IF i = 0 THEN << >>
                        ELSE IF q[i] \in S THEN f[i - 1]
                             ELSE Append(f[i - 1], q[i])]

\* The recursion in Without is well founded.
LEMMA FilterExists ==
    ASSUME NEW n \in Nat, NEW q, NEW S
    PROVE  \E f : Filters(f, q, S, n)
<1> DEFINE Good == {i \in 0..n : \E f : Filters(f, q, S, i)}
<1>1. 0 \in Good
  <2> DEFINE f == [i \in 0..0 |-> << >>]
  <2>1. Filters(f, q, S, 0)
      BY DEF Filters
  <2> QED  BY <2>1
<1>2. ASSUME NEW i \in 1..n, i - 1 \in Good
      PROVE  i \in Good
  <2>1. PICK f : Filters(f, q, S, i - 1)
      BY <1>2
  <2> DEFINE g == [j \in 0..i |-> IF j < i THEN f[j]
                                  ELSE IF q[i] \in S THEN f[i - 1]
                                       ELSE Append(f[i - 1], q[i])]
  <2>2. \A j \in 0..(i - 1) : g[j] = f[j]
      OBVIOUS
  <2>3. \A j \in 0..i :
            g[j] = IF j = 0 THEN << >>
                   ELSE IF q[j] \in S THEN g[j - 1]
                        ELSE Append(g[j - 1], q[j])
    <3> TAKE j \in 0..i
    <3>1. CASE j = i
        BY <3>1
    <3>2. CASE j # i
      <4>1. /\ j \in 0..(i - 1)
            /\ j # 0 => j - 1 \in 0..(i - 1)
          BY <3>2
      <4>2. f[j] = IF j = 0 THEN << >>
                   ELSE IF q[j] \in S THEN f[j - 1]
                        ELSE Append(f[j - 1], q[j])
          BY <2>1, <4>1, ZenonT(40) DEF Filters
      <4> HIDE DEF g
      <4> QED  BY <2>2, <4>1, <4>2
    <3> QED  BY <3>1, <3>2
  <2>4. DOMAIN g = 0..i /\ g = [j \in 0..i |-> g[j]]
      OBVIOUS
  <2> HIDE DEF g
  <2>5. Filters(g, q, S, i)
      BY <2>3, <2>4, ZenonT(40) DEF Filters
  <2> QED  BY <2>5
<1>3. n \in Good
  <2> HIDE DEF Good
  <2>1. \A i \in 0..n : i \in Good
      BY <1>1, <1>2, Induction
  <2> QED  BY <2>1
<1> QED  BY <1>3

\* Without is the last value of that recursion.
LEMMA WithoutFilters ==
    ASSUME NEW T, NEW q \in Seq(T), NEW S
    PROVE  \E f : Filters(f, q, S, Len(q)) /\ Without(q, S) = f[Len(q)]
<1> DEFINE f == CHOOSE f : Filters(f, q, S, Len(q))
<1>1. Filters(f, q, S, Len(q))
  <2>1. Len(q) \in Nat
      OBVIOUS
  <2> QED  BY <2>1, FilterExists, Zenon
<1>2. Without(q, S) = f[Len(q)]
    BY Zenon DEF Without, Filters
<1> QED  BY <1>1, <1>2, Zenon
Distinct(q) == \A i, j \in 1..Len(q) : q[i] = q[j] => i = j

Members(q) == {q[i] : i \in 1..Len(q)}

\* p is what is left of the first n elements of q without S.
LeftOf(p, q, S, n) ==
    /\ Len(p) <= n
    /\ \A j \in 1..Len(p) : \E k \in 1..n : p[j] = q[k] /\ q[k] \notin S
    /\ \A k \in 1..n : q[k] \notin S => \E j \in 1..Len(p) : p[j] = q[k]
    /\ (\E k \in 1..n : q[k] \in S) => Len(p) < n
    /\ Distinct(q) => Distinct(p)

\* One more element of q is looked at.
LEMMA OneMore ==
    ASSUME NEW T, NEW q \in Seq(T), NEW S, NEW i \in 1..Len(q),
           NEW p \in Seq(T), LeftOf(p, q, S, i - 1),
           NEW r, r = IF q[i] \in S THEN p ELSE Append(p, q[i])
    PROVE  r \in Seq(T) /\ LeftOf(r, q, S, i)
<1>1. /\ i \in Nat /\ i - 1 \in Nat /\ i \notin 1..(i - 1)
      /\ 1..i = (1..(i - 1)) \cup {i} /\ q[i] \in T
    OBVIOUS
<1>2. CASE q[i] \in S
  <2>1. r = p /\ Len(r) \in Nat
      BY <1>2
  <2>2. Len(r) < i /\ Len(r) <= i
      BY <1>1, <2>1 DEF LeftOf
  <2> QED  BY <1>1, <1>2, <2>1, <2>2, Zenon DEF LeftOf
<1>3. CASE q[i] \notin S
  <2>1. /\ r \in Seq(T) /\ Len(r) = Len(p) + 1 /\ Len(p) \in Nat
        /\ r[Len(p) + 1] = q[i]
        /\ \A j \in 1..Len(p) : r[j] = p[j]
        /\ 1..Len(r) = (1..Len(p)) \cup {Len(p) + 1}
      BY <1>1, <1>3
  <2>2. /\ Len(r) <= i
        /\ (\E k \in 1..i : q[k] \in S) => Len(r) < i
      BY <1>1, <1>3, <2>1 DEF LeftOf
  <2>3. /\ \A j \in 1..Len(r) : \E k \in 1..i : r[j] = q[k] /\ q[k] \notin S
        /\ \A k \in 1..i : q[k] \notin S => \E j \in 1..Len(r) : r[j] = q[k]
    <3>1. ASSUME NEW j \in 1..Len(r)
          PROVE  \E k \in 1..i : r[j] = q[k] /\ q[k] \notin S
      <4>1. CASE j \in 1..Len(p)
        <5>1. PICK k \in 1..(i - 1) : p[j] = q[k] /\ q[k] \notin S
            BY <4>1, Zenon DEF LeftOf
        <5>2. k \in 1..i
            BY <1>1, Zenon
        <5> QED  BY <2>1, <4>1, <5>1, <5>2, Zenon
      <4>2. CASE j = Len(p) + 1
          BY <1>1, <1>3, <2>1, <4>2, Zenon
      <4> QED  BY <2>1, <4>1, <4>2, Zenon
    <3>2. ASSUME NEW k \in 1..i, q[k] \notin S
          PROVE  \E j \in 1..Len(r) : r[j] = q[k]
      <4>1. CASE k \in 1..(i - 1)
          BY <2>1, <3>2, <4>1, Zenon DEF LeftOf
      <4>2. CASE k = i
          BY <2>1, <4>2, Zenon
      <4> QED  BY <1>1, <4>1, <4>2, Zenon
    <3> QED  BY <3>1, <3>2, Zenon
  <2>4. ASSUME Distinct(q)
        PROVE  Distinct(r)
    <3>1. \A j \in 1..Len(p) : r[j] # q[i]
      <4> TAKE j \in 1..Len(p)
      <4>1. PICK k \in 1..(i - 1) : p[j] = q[k]
          BY Zenon DEF LeftOf
      <4>2. k \in 1..Len(q) /\ k # i
          BY <1>1
      <4> QED  BY <2>1, <2>4, <4>1, <4>2, Zenon DEF Distinct
    <3>2. \A j, k \in 1..Len(p) : r[j] = r[k] => j = k
      <4>1. Distinct(p)
          BY <2>4, Zenon DEF LeftOf
      <4> QED  BY <2>1, <4>1, ZenonT(40) DEF Distinct
    <3>3. ASSUME NEW j \in 1..Len(r), NEW k \in 1..Len(r), r[j] = r[k]
          PROVE  j = k
        BY <2>1, <3>1, <3>2, <3>3, SMTT(30)
    <3> QED  BY <3>3, Zenon DEF Distinct
  <2> QED  BY <2>1, <2>2, <2>3, <2>4, Zenon DEF LeftOf
<1> QED  BY <1>2, <1>3, Zenon

\* Removing nodes from a queue keeps the others, in their order and once each.
LEMMA WithoutLeaves ==
    ASSUME NEW T, NEW q \in Seq(T), NEW S
    PROVE  /\ Without(q, S) \in Seq(T)
           /\ Members(Without(q, S)) = Members(q) \ S
           /\ Distinct(q) => Distinct(Without(q, S))
           /\ Len(Without(q, S)) <= Len(q)
           /\ S \cap Members(q) # {} => Len(Without(q, S)) < Len(q)
<1>1. PICK f : Filters(f, q, S, Len(q)) /\ Without(q, S) = f[Len(q)]
    BY WithoutFilters, Zenon
<1> DEFINE Good == {i \in 0..Len(q) : f[i] \in Seq(T) /\ LeftOf(f[i], q, S, i)}
<1>2. Len(q) \in Nat
    OBVIOUS
<1>3. 0 \in Good
  <2>1. f[0] = << >> /\ 1..0 = {} /\ 0 \in 0..Len(q)
      BY <1>1, <1>2 DEF Filters
  <2>2. << >> \in Seq(T) /\ Len(<< >>) = 0 /\ 0 <= 0
      OBVIOUS
  <2> QED  BY <2>1, <2>2, Zenon DEF LeftOf, Distinct
<1>4. ASSUME NEW i \in 1..Len(q), i - 1 \in Good
      PROVE  i \in Good
  <2>2. i \in 0..Len(q) /\ i # 0
      BY <1>2
  <2>1. f[i] = IF q[i] \in S THEN f[i - 1] ELSE Append(f[i - 1], q[i])
      BY <1>1, <2>2, ZenonT(40) DEF Filters
  <2>3. f[i] \in Seq(T) /\ LeftOf(f[i], q, S, i)
      BY <1>4, <2>1, OneMore, Zenon
  <2> QED  BY <2>2, <2>3
<1>5. Len(q) \in Good
  <2> HIDE DEF Good
  <2>1. \A i \in 0..Len(q) : i \in Good
      BY <1>2, <1>3, <1>4, Induction, Zenon
  <2> QED  BY <1>2, <2>1
<1>6. Without(q, S) \in Seq(T) /\ LeftOf(Without(q, S), q, S, Len(q))
    BY <1>1, <1>5, Zenon
<1>7. Members(Without(q, S)) = Members(q) \ S
  <2> DEFINE p == Without(q, S)
  <2>0. /\ \A j \in 1..Len(p) :
               \E k \in 1..Len(q) : p[j] = q[k] /\ q[k] \notin S
        /\ \A k \in 1..Len(q) :
               q[k] \notin S => \E j \in 1..Len(p) : p[j] = q[k]
      BY <1>6, Zenon DEF LeftOf
  <2> HIDE DEF p
  <2>1. ASSUME NEW x \in Members(p)
        PROVE  x \in Members(q) /\ x \notin S
    <3>1. PICK j \in 1..Len(p) : x = p[j]
        BY Zenon DEF Members
    <3>2. PICK k \in 1..Len(q) : p[j] = q[k] /\ q[k] \notin S
        BY <2>0, Zenon
    <3> QED  BY <3>1, <3>2, Zenon DEF Members
  <2>2. ASSUME NEW x \in Members(q), x \notin S
        PROVE  x \in Members(p)
    <3>1. PICK k \in 1..Len(q) : x = q[k]
        BY Zenon DEF Members
    <3>2. PICK j \in 1..Len(p) : p[j] = q[k]
        BY <2>0, <2>2, <3>1, Zenon
    <3> QED  BY <3>1, <3>2, Zenon DEF Members
  <2>3. Members(p) = Members(q) \ S
      BY <2>1, <2>2, Zenon
  <2> QED  BY <2>3, Zenon DEF p
<1>8. S \cap Members(q) # {} => \E k \in 1..Len(q) : q[k] \in S
    BY Zenon DEF Members
<1> QED  BY <1>6, <1>7, <1>8, Zenon DEF LeftOf

\* p is q without its first k elements.
TailOf(p, q, k) ==
    /\ k \in 0..Len(q) /\ Len(p) = Len(q) - k
    /\ \A j \in 1..Len(p) : p[j] = q[j + k]

\* Of failures in the order of time, those up to t are the first ones.
LEMMA Pruned ==
    ASSUME NEW q \in Seq(Nat), Sorted(q), NEW t \in Int
    PROVE  \E k : /\ TailOf(Without(q, 0..t), q, k)
                  /\ \A i \in 1..Len(q) : q[i] <= t => i <= k
<1>1. PICK f : Filters(f, q, 0..t, Len(q)) /\ Without(q, 0..t) = f[Len(q)]
    BY WithoutFilters, Zenon
<1>2. Len(q) \in Nat /\ \A i \in 1..Len(q) : q[i] \in Nat
    OBVIOUS
<1> DEFINE Stops == {i \in 0..Len(q) : i = Len(q) \/ q[i + 1] > t}
<1>3. PICK k \in Stops : \A i \in Stops : k <= i
  <2>1. Stops \in SUBSET Nat /\ Len(q) \in Stops
      BY <1>2
  <2> QED  BY <2>1, LeastNat, Zenon
<1>4. k \in 0..Len(q) /\ (k = Len(q) \/ q[k + 1] > t)
    OBVIOUS
<1>5. \A i \in 1..Len(q) : i <= k => q[i] \in 0..t
  <2> SUFFICES ASSUME NEW i \in 1..Len(q), i <= k
               PROVE  q[i] <= t
      BY <1>2
  <2>1. i - 1 \in 0..Len(q) /\ i - 1 \notin Stops /\ (i - 1) + 1 = i
      BY <1>2, <1>3, <1>4
  <2> QED  BY <1>2, <2>1
<1>6. \A i \in 1..Len(q) : i > k => q[i] > t
  <2> SUFFICES ASSUME NEW i \in 1..Len(q), i > k
               PROVE  q[i] > t
      OBVIOUS
  <2>1. k + 1 \in 1..Len(q) /\ k + 1 <= i /\ q[k + 1] > t
      BY <1>2, <1>4
  <2>2. q[k + 1] <= q[i]
      BY <2>1 DEF Sorted
  <2> QED  BY <1>2, <2>1, <2>2
<1> HIDE DEF Stops
<1> DEFINE Left(i) == IF i <= k THEN 0 ELSE i - k
           Good == {i \in 0..Len(q) :
                        /\ f[i] \in Seq(Nat) /\ Len(f[i]) = Left(i)
                        /\ \A j \in 1..Left(i) : f[i][j] = q[j + k]}
<1>7. 0 \in Good
  <2>1. f[0] = << >> /\ 0 \in 0..Len(q)
      BY <1>1, <1>2 DEF Filters
  <2>2. Left(0) = 0 /\ << >> \in Seq(Nat) /\ Len(<< >>) = 0
      BY <1>4
  <2>3. \A j \in 1..Left(0) : FALSE
      BY <2>2
  <2> HIDE DEF Left
  <2> QED  BY <2>1, <2>2, <2>3, Zenon
<1>8. ASSUME NEW i \in 1..Len(q), i - 1 \in Good
      PROVE  i \in Good
  <2>1. i \in 0..Len(q) /\ i # 0
      BY <1>2
  <2>2. f[i] = IF q[i] \in 0..t THEN f[i - 1] ELSE Append(f[i - 1], q[i])
      BY <1>1, <2>1, ZenonT(40) DEF Filters
  <2>3. /\ f[i - 1] \in Seq(Nat) /\ Len(f[i - 1]) = Left(i - 1)
        /\ \A j \in 1..Left(i - 1) : f[i - 1][j] = q[j + k]
      BY <1>8
  <2>4. CASE i <= k
    <3>1. f[i] = f[i - 1] /\ Left(i) = 0 /\ Left(i - 1) = 0
        BY <1>4, <1>5, <2>2, <2>4
    <3> QED  BY <2>1, <2>3, <3>1
  <2>5. CASE i > k
    <3>1. /\ f[i] = Append(f[i - 1], q[i])
          /\ Left(i) = i - k /\ Left(i - 1) = Left(i) - 1
      <4>1. q[i] \notin 0..t
          BY <1>2, <1>6, <2>5
      <4>2. Left(i) = i - k /\ Left(i - 1) = Left(i) - 1
          BY <1>4, <2>5
      <4> QED  BY <2>2, <4>1, <4>2, Zenon
    <3>2. /\ f[i] \in Seq(Nat) /\ Len(f[i]) = Left(i)
          /\ f[i][Left(i)] = q[i]
          /\ \A j \in 1..Left(i - 1) : f[i][j] = f[i - 1][j]
      <4>1. Left(i - 1) \in Nat /\ Left(i - 1) + 1 = Left(i) /\ q[i] \in Nat
          BY <1>2, <1>4, <2>5
      <4> HIDE DEF Left, Good
      <4>2. PICK g \in Seq(Nat) : g = f[i - 1]
          BY <2>3
      <4> QED  BY <2>3, <3>1, <4>1, <4>2, SMTT(30)
    <3>3. \A j \in 1..Left(i) :
              j \in 1..Left(i - 1) \/ (j = Left(i) /\ j + k = i)
        BY <1>4, <3>1
    <3>4. \A j \in 1..Left(i) : f[i][j] = q[j + k]
        BY <2>3, <3>2, <3>3, Zenon
    <3> QED  BY <2>1, <3>2, <3>4, Zenon
  <2> QED  BY <1>4, <2>4, <2>5
<1>9. Len(q) \in Good
  <2> HIDE DEF Good
  <2>1. \A i \in 0..Len(q) : i \in Good
      BY <1>2, <1>7, <1>8, Induction, Zenon
  <2> QED  BY <1>2, <2>1
<1>10. Left(Len(q)) = Len(q) - k
    BY <1>2, <1>4
<1>11. TailOf(Without(q, 0..t), q, k)
    BY <1>1, <1>4, <1>9, <1>10, Zenon DEF TailOf
<1>12. \A i \in 1..Len(q) : q[i] <= t => i <= k
    BY <1>2, <1>4, <1>6
<1> QED  BY <1>11, <1>12, Zenon

\* A node is inserted at the tail.
LEMMA AppendOf ==
    ASSUME NEW q \in Seq(IPs), Distinct(q), NEW ip \in IPs, ip \notin Members(q)
    PROVE  /\ Append(q, ip) \in Seq(IPs) /\ Len(Append(q, ip)) = Len(q) + 1
           /\ Distinct(Append(q, ip))
           /\ Members(Append(q, ip)) = Members(q) \cup {ip}
<1> DEFINE p == Append(q, ip)
<1>1. /\ p \in Seq(IPs) /\ Len(p) = Len(q) + 1 /\ Len(q) \in Nat
      /\ p[Len(q) + 1] = ip
      /\ \A j \in 1..Len(q) : p[j] = q[j]
      /\ 1..Len(p) = (1..Len(q)) \cup {Len(q) + 1}
    OBVIOUS
<1> HIDE DEF p
<1>2. \A j \in 1..Len(q) : p[j] # ip
    BY <1>1, Zenon DEF Members
<1>3. ASSUME NEW j \in 1..Len(p), NEW k \in 1..Len(p), p[j] = p[k]
      PROVE  j = k
  <2>1. \A i, m \in 1..Len(q) : p[i] = p[m] => i = m
      BY <1>1, Zenon DEF Distinct
  <2> QED  BY <1>1, <1>2, <1>3, <2>1
<1>4. Members(p) = Members(q) \cup {ip}
  <2>1. \A x \in Members(p) : x \in Members(q) \/ x = ip
    <3> TAKE x \in Members(p)
    <3>1. PICK j \in 1..Len(p) : x = p[j]
        BY Zenon DEF Members
    <3> QED  BY <1>1, <3>1, Zenon DEF Members
  <2>2. \A x \in Members(q) : x \in Members(p)
    <3> TAKE x \in Members(q)
    <3>1. PICK j \in 1..Len(q) : x = q[j]
        BY Zenon DEF Members
    <3> QED  BY <1>1, <3>1, Zenon DEF Members
  <2>3. ip \in Members(p)
      BY <1>1, Zenon DEF Members
  <2> QED  BY <2>1, <2>2, <2>3, Zenon
<1> QED  BY <1>1, <1>3, <1>4, Zenon DEF p, Distinct
-----------------------------------------------------------------------------
(* What record() does to a node.                                            *)

\* What merge_loc_conf makes of the settings of a location.
LEMMA Ranges ==
    ASSUME NEW l \in Locations
    PROVE  /\ Conf[l].limit \in Nat /\ Conf[l].limit >= 1
           /\ Conf[l].window \in Nat /\ Conf[l].window >= 1
           /\ Conf[l].window <= StaleFloor
           /\ Conf[l].ban_time \in Nat /\ Conf[l].ban_time >= 1
           /\ StaleFloor \in Nat /\ MaxLag \in Nat /\ Capacity \in Nat
    BY ConfAssumption

\* c is node n with one more failure.
OneMoreOn(c, n, now, l) == c = Charge(n, now, Conf[l])

\* Charge by its fields.
LEMMA ChargeOf ==
    ASSUME NEW n \in Node, NEW now \in Nat, NEW l \in Locations,
           NEW c, OneMoreOn(c, n, now, l)
    PROVE  /\ c \in Node /\ c # NoNode /\ c.count >= 1
           /\ \/ /\ n.window_start + Conf[l].window <= now
                 /\ c.window_start = now /\ c.count = 1
              \/ /\ ~(n.window_start + Conf[l].window <= now)
                 /\ c.window_start = n.window_start /\ c.count = n.count + 1
           /\ c.banned_until = IF c.count >= Conf[l].limit
                                   THEN now + Conf[l].ban_time
                                   ELSE n.banned_until
<1>1. /\ n.window_start \in Nat /\ n.banned_until \in Nat /\ n.count \in Nat
    BY DEF Node
<1>2. /\ c.window_start = IF n.window_start + Conf[l].window <= now
                              THEN now ELSE n.window_start
      /\ c.count = IF n.window_start + Conf[l].window <= now
                       THEN 1 ELSE n.count + 1
      /\ c.banned_until = IF c.count >= Conf[l].limit
                              THEN now + Conf[l].ban_time ELSE n.banned_until
      /\ c = [window_start |-> c.window_start, banned_until |-> c.banned_until,
              count |-> c.count]
    BY DEF Charge, OneMoreOn
<1>3. c.window_start \in Nat /\ c.count \in Nat /\ c.banned_until \in Nat
    BY <1>1, <1>2, Ranges
<1>4. c \in Node
    BY <1>2, <1>3 DEF Node
<1>5. c # NoNode
    BY <1>4, ConfAssumption, Zenon
<1> QED  BY <1>1, <1>2, <1>4, <1>5

\* evict_stale takes queued nodes whose ban and whose window, as any location
\* counts it, are over for the worker that evicts.
LEMMA EvictedOver ==
    ASSUME TypeOK, ZoneConsistent, NEW now \in Nat, NEW l \in Locations,
           NEW ip \in Evicted(now, Conf[l].window)
    PROVE  /\ ip \in IPs /\ node[ip] # NoNode
           /\ node[ip].banned_until <= now
           /\ \A m \in Locations : node[ip].window_start + Conf[m].window <= now
<1> DEFINE first == EvictStale(lru, now, Conf[l].window, EvictSome)
           left == Without(lru, first)
<1>1. left \in Seq(IPs) /\ Members(left) \subseteq Members(lru)
  <2>1. lru \in Seq(IPs)
      BY Zenon DEF TypeOK
  <2>2. left \in Seq(IPs) /\ Members(left) = Members(lru) \ first
      BY <2>1, WithoutLeaves, ZenonT(40)
  <2> QED  BY <2>2, Zenon
<1>2. /\ \A i \in 1..Len(lru) : lru[i] \in Members(lru)
      /\ \A i \in 1..Len(left) : left[i] \in Members(left)
    BY Zenon DEF Members
<1>3. ip \in first \/ ip \in EvictStale(left, now, Conf[l].window, EvictMany)
    BY Zenon DEF Evicted
<1> HIDE DEF left
<1>4. Stale(ip, now, Conf[l].window) /\ ip \in Members(lru)
    BY <1>1, <1>2, <1>3, Zenon DEF EvictStale
<1>5. ip \in IPs /\ node[ip] # NoNode
    BY <1>4, Zenon DEF ZoneConsistent, Members
<1>6. node[ip].window_start \in Nat /\ node[ip].banned_until \in Nat
    BY <1>5 DEF TypeOK, Node
<1>7. /\ node[ip].banned_until <= now
      /\ node[ip].window_start + StaleFloor <= now
    BY <1>4, <1>6, Ranges DEF Stale, Max
<1>8. \A m \in Locations : node[ip].window_start + Conf[m].window <= now
    BY <1>6, <1>7, Ranges
<1> QED  BY <1>5, <1>7, <1>8
-----------------------------------------------------------------------------
(* What a step does to one address.                                         *)

\* A node that no location counts on any more.
Over(ip, now) ==
    /\ node[ip] # NoNode /\ node[ip].banned_until <= now
    /\ \A m \in Locations : node[ip].window_start + Conf[m].window <= now

\* The recorder of another address leaves the node alone or evicts it.
Left(ip, now) ==
    /\ recent'[ip] = recent[ip]
    /\ node'[ip] = node[ip] \/ (node'[ip] = NoNode /\ Over(ip, now))

\* The node of the address, a new one if it has none.
NodeOf(ip, now) == IF node[ip] = NoNode THEN NewNode(now) ELSE node[ip]

\* A failure of the address is counted by location l.
Counted(ip, now, l) ==
    \E n \in Node :
        /\ n = NodeOf(ip, now)
        /\ node'[ip] = Charge(n, now, Conf[l])
        /\ recent'[ip] =
              IF node'[ip].count >= Conf[l].limit THEN << >>
              ELSE Append(Without(recent[ip],
                                  0..(clock - (Conf[l].window - MaxLag))),
                          clock)

Forgiven(ip) == node'[ip] = NoNode /\ recent'[ip] = << >>

\* What the recorder of r does to address ip.
Recorded(ip, r) ==
    \/ Left(ip, time[req[r].worker])
    \/ ip = req[r].ip /\ Counted(ip, time[req[r].worker], req[r].loc)
    \/ ip = req[r].ip /\ Forgiven(ip) /\ RecordSuccess(r)

\* A request in hand, and the cached clock of its worker.
LEMMA InHand ==
    ASSUME ZoneInv, NEW r \in Requests, req[r] # NoReq
    PROVE  /\ req[r].ip \in IPs /\ req[r].worker \in Workers
           /\ req[r].loc \in Locations
           /\ time[req[r].worker] \in Nat /\ clock \in Nat
           /\ time[req[r].worker] <= clock
           /\ clock <= time[req[r].worker] + MaxLag
<1>1. /\ req[r].ip \in IPs /\ req[r].worker \in Workers
      /\ req[r].loc \in Locations
  <2>1. req[r] \in Request
      BY Zenon DEF ZoneInv, TypeOK
  <2> QED  BY <2>1 DEF Request
<1>2. /\ time \in [Workers -> Nat] /\ clock \in Nat /\ TimeInv
    BY Zenon DEF ZoneInv, TypeOK
<1> QED  BY <1>1, <1>2, Zenon DEF TimeInv

\* Finish gives the slot of the request back.
LEMMA FinishOf ==
    ASSUME ZoneInv, NEW r \in Requests, Finish(r)
    PROVE  /\ req' \in [Requests -> Request \cup {NoReq}]
           /\ time' \in [Workers -> Nat] /\ clock' \in Nat /\ TimeInv'
           /\ time' = time /\ clock' = clock
<1>1. req \in [Requests -> Request \cup {NoReq}]
    BY Zenon DEF ZoneInv, TypeOK
<1>2. req' \in [Requests -> Request \cup {NoReq}]
    BY <1>1, Zenon DEF Finish
<1>3. time' = time /\ clock' = clock
    BY Zenon DEF Finish
<1> QED  BY <1>2, <1>3, Zenon DEF ZoneInv, TypeOK, TimeInv

\* The recorder of r counts a failure on node n and evicts gone.
Counts(r, n, gone) ==
    /\ Finish(r) /\ Charged(r, n, gone)
    /\ n \in Node /\ n.window_start <= clock
    /\ n = NodeOf(req[r].ip, time[req[r].worker])
    /\ \A i \in gone : i \in IPs /\ Over(i, time[req[r].worker])

\* A failure is counted on node n.
LEMMA ChargedOf ==
    ASSUME ZoneInv, NEW r \in Requests, NEW gone, NEW n, Counts(r, n, gone)
    PROVE  /\ node' \in [IPs -> Node \cup {NoNode}]
           /\ recent' \in [IPs -> Seq(Nat)]
           /\ NodeInv'
           /\ node'[req[r].ip] # NoNode
           /\ \A i \in IPs : i # req[r].ip =>
                 node'[i] = IF i \in gone THEN NoNode ELSE node[i]
           /\ \A i \in IPs : Recorded(i, r)
<1>0. /\ Finish(r) /\ Charged(r, n, gone)
      /\ n \in Node /\ n.window_start <= clock
      /\ n = NodeOf(req[r].ip, time[req[r].worker])
      /\ \A i \in gone : i \in IPs /\ Over(i, time[req[r].worker])
    BY Zenon DEF Counts
<1>1. PICK ip, w, l : ip = req[r].ip /\ w = req[r].worker /\ l = req[r].loc
    BY Zenon
<1>2. PICK now : now = time[w]
    BY Zenon
<1>3. /\ ip \in IPs /\ l \in Locations /\ now \in Nat /\ clock \in Nat
      /\ now <= clock /\ clock' = clock
    BY <1>0, <1>1, <1>2, InHand, FinishOf, Zenon DEF Finish
<1>4. PICK c : c = Charge(n, now, Conf[l])
    BY Zenon
<1>5. PICK past : past = 0..(clock - (Conf[l].window - MaxLag))
    BY Zenon
<1>6. /\ node' = [i \in IPs |-> IF i = ip THEN c
                               ELSE IF i \in gone THEN NoNode ELSE node[i]]
      /\ recent' = [recent EXCEPT ![ip] =
                        IF c.count >= Conf[l].limit THEN << >>
                        ELSE Append(Without(recent[ip], past), clock)]
    BY <1>0, <1>1, <1>2, <1>4, <1>5, Zenon DEF Charged
<1>7. /\ c \in Node /\ c # NoNode /\ c.count >= 1
      /\ c.window_start = now \/ c.window_start = n.window_start
  <2>1. OneMoreOn(c, n, now, l)
      BY <1>4, Zenon DEF OneMoreOn
  <2> QED  BY <1>0, <1>3, <2>1, ChargeOf
<1>8. /\ node \in [IPs -> Node \cup {NoNode}] /\ recent \in [IPs -> Seq(Nat)]
      /\ NodeInv
    BY Zenon DEF ZoneInv, TypeOK
<1>9. /\ node'[ip] = c
      /\ \A i \in IPs : i # ip =>
            node'[i] = IF i \in gone THEN NoNode ELSE node[i]
      /\ node' \in [IPs -> Node \cup {NoNode}]
    BY <1>3, <1>6, <1>7, <1>8, Zenon
<1>10. Append(Without(recent[ip], past), clock) \in Seq(Nat)
  <2>1. recent[ip] \in Seq(Nat)
      BY <1>3, <1>8, Zenon
  <2>2. Without(recent[ip], past) \in Seq(Nat)
      BY <2>1, WithoutLeaves, Zenon
  <2> QED  BY <1>3, <2>2
<1>11. /\ recent' \in [IPs -> Seq(Nat)]
       /\ recent'[ip] = IF c.count >= Conf[l].limit THEN << >>
                        ELSE Append(Without(recent[ip], past), clock)
       /\ \A i \in IPs : i # ip => recent'[i] = recent[i]
    BY <1>3, <1>6, <1>8, <1>10
<1>12. NodeInv'
  <2>1. ASSUME NEW i \in IPs, node'[i] # NoNode
        PROVE  node'[i].window_start <= clock' /\ node'[i].count >= 1
    <3>1. CASE i = ip
        BY <1>0, <1>3, <1>7, <1>9, <3>1, Zenon
    <3>2. CASE i # ip
        BY <1>3, <1>8, <1>9, <2>1, <3>2, Zenon DEF NodeInv
    <3> QED  BY <3>1, <3>2
  <2> QED  BY <2>1, Zenon DEF NodeInv
<1>13. ASSUME NEW i \in IPs
       PROVE  Recorded(i, r)
  <2>1. CASE i = ip
    <3>1. Counted(ip, now, l)
        BY <1>0, <1>1, <1>2, <1>4, <1>5, <1>9, <1>11, Zenon DEF Counted
    <3> QED  BY <1>1, <1>2, <2>1, <3>1, Zenon DEF Recorded
  <2>2. CASE i # ip
    <3>1. Left(i, now)
        BY <1>0, <1>1, <1>2, <1>9, <1>11, <2>2, Zenon DEF Left
    <3> QED  BY <1>1, <1>2, <3>1, Zenon DEF Recorded
  <2> QED  BY <2>1, <2>2
<1> QED  BY <1>1, <1>7, <1>9, <1>11, <1>12, <1>13, Zenon

\* Consistency of the zone, in terms of the queue's members.
LEMMA ZoneOf ==
    /\ ZoneConsistent <=> /\ Members(lru) = {i \in IPs : node[i] # NoNode}
                          /\ Distinct(lru) /\ Len(lru) <= Capacity
    /\ ZoneConsistent' <=> /\ Members(lru') = {i \in IPs : node'[i] # NoNode}
                           /\ Distinct(lru') /\ Len(lru') <= Capacity
    BY Zenon DEF ZoneConsistent, Members, Distinct

\* Nodes are taken out of the queue and of the tree.
LEMMA Removed ==
    ASSUME ZoneInv, NEW gone
    PROVE  /\ lru \in Seq(IPs) /\ Len(lru) \in Nat
           /\ Without(lru, gone) \in Seq(IPs)
           /\ Len(Without(lru, gone)) \in Nat
           /\ Len(Without(lru, gone)) <= Capacity
           /\ Distinct(Without(lru, gone))
           /\ \A i : i \in Members(Without(lru, gone))
                        <=> i \in IPs /\ node[i] # NoNode /\ i \notin gone
<1>1. lru \in Seq(IPs) /\ ZoneConsistent
    BY Zenon DEF ZoneInv, TypeOK
<1>2. /\ Without(lru, gone) \in Seq(IPs)
      /\ Members(Without(lru, gone)) = Members(lru) \ gone
      /\ Distinct(lru) => Distinct(Without(lru, gone))
      /\ Len(Without(lru, gone)) <= Len(lru)
    BY <1>1, WithoutLeaves, Zenon
<1>3. /\ Members(lru) = {i \in IPs : node[i] # NoNode}
      /\ Distinct(lru) /\ Len(lru) <= Capacity
    BY <1>1, ZoneOf, Zenon
<1>4. Len(lru) \in Nat /\ Len(Without(lru, gone)) \in Nat
    BY <1>1, <1>2
<1>5. Len(Without(lru, gone)) <= Capacity
    BY <1>2, <1>3, <1>4, ConfAssumption
<1> QED  BY <1>1, <1>2, <1>3, <1>4, <1>5, Zenon

\* record() of a success: the node is freed and leaves the queue.
LEMMA RecordSuccessStep ==
    ASSUME ZoneInv, NEW r \in Requests, RecordSuccess(r)
    PROVE  ZoneInv' /\ \A i \in IPs : Recorded(i, r)
<1>1. PICK ip : ip = req[r].ip
    BY Zenon
<1>2. /\ Finish(r) /\ req[r] # NoReq
      /\ node' = [node EXCEPT ![ip] = NoNode]
      /\ lru' = Without(lru, {ip})
      /\ recent' = [recent EXCEPT ![ip] = << >>]
    BY <1>1, Zenon DEF RecordSuccess, Finish
<1>3. ip \in IPs
    BY <1>1, <1>2, InHand, Zenon
<1>4. /\ node \in [IPs -> Node \cup {NoNode}] /\ recent \in [IPs -> Seq(Nat)]
      /\ NodeInv
    BY Zenon DEF ZoneInv, TypeOK
<1>5. << >> \in Seq(Nat)
    OBVIOUS
<1>6. /\ node' \in [IPs -> Node \cup {NoNode}] /\ recent' \in [IPs -> Seq(Nat)]
      /\ node'[ip] = NoNode /\ recent'[ip] = << >>
      /\ \A i \in IPs : i # ip => node'[i] = node[i] /\ recent'[i] = recent[i]
    BY <1>2, <1>3, <1>4, <1>5, Zenon
<1>7. /\ req' \in [Requests -> Request \cup {NoReq}]
      /\ time' \in [Workers -> Nat] /\ clock' \in Nat /\ TimeInv'
      /\ time' = time /\ clock' = clock
    BY <1>2, FinishOf, Zenon
<1>8. /\ lru' \in Seq(IPs) /\ Len(lru') <= Capacity /\ Distinct(lru')
      /\ \A i : i \in Members(lru') <=> i \in IPs /\ node[i] # NoNode /\ i # ip
    BY <1>2, Removed, Zenon
<1>9. ZoneConsistent'
  <2>1. Members(lru') = {i \in IPs : node'[i] # NoNode}
      BY <1>6, <1>8, Zenon
  <2> QED  BY <1>8, <2>1, ZoneOf, Zenon
<1>10. NodeInv'
    BY <1>4, <1>6, <1>7, Zenon DEF NodeInv
<1>11. \A i \in IPs : Recorded(i, r)
    BY <1>1, <1>6, Zenon DEF Recorded, Forgiven, Left
<1> QED  BY <1>6, <1>7, <1>8, <1>9, <1>10, <1>11, Zenon DEF ZoneInv, TypeOK

\* record() of a failure, with a node: the node moves to the tail.
LEMMA FailKnownStep ==
    ASSUME ZoneInv, NEW r \in Requests, FailKnown(r)
    PROVE  ZoneInv' /\ \A i \in IPs : Recorded(i, r)
<1>1. PICK ip, n, gone : ip = req[r].ip /\ n = node[ip] /\ gone = {}
    BY Zenon
<1>2. /\ Finish(r) /\ req[r] # NoReq /\ n # NoNode
      /\ lru' = Append(Without(lru, {ip}), ip)
      /\ Charged(r, n, gone)
    BY <1>1, Zenon DEF FailKnown, Finish
<1>3. ip \in IPs
    BY <1>1, <1>2, InHand, Zenon
<1>4. n \in Node /\ n.window_start <= clock
    BY <1>1, <1>2, <1>3, Zenon DEF ZoneInv, TypeOK, NodeInv
<1>5. /\ node' \in [IPs -> Node \cup {NoNode}] /\ recent' \in [IPs -> Seq(Nat)]
      /\ NodeInv' /\ node'[ip] # NoNode
      /\ \A i \in IPs : i # ip => node'[i] = node[i]
      /\ \A i \in IPs : Recorded(i, r)
  <2>1. Counts(r, n, gone)
      BY <1>1, <1>2, <1>4, Zenon DEF NodeOf, Counts
  <2>2. /\ node' \in [IPs -> Node \cup {NoNode}]
        /\ recent' \in [IPs -> Seq(Nat)]
        /\ NodeInv' /\ node'[req[r].ip] # NoNode
        /\ \A i \in IPs : i # req[r].ip =>
              node'[i] = IF i \in gone THEN NoNode ELSE node[i]
        /\ \A i \in IPs : Recorded(i, r)
      BY <2>1, ChargedOf, Zenon
  <2> QED  BY <1>1, <2>2, Zenon
<1>6. /\ req' \in [Requests -> Request \cup {NoReq}]
      /\ time' \in [Workers -> Nat] /\ clock' \in Nat /\ TimeInv'
    BY <1>2, FinishOf, Zenon
<1> DEFINE q == Without(lru, {ip})
<1>7. /\ q \in Seq(IPs) /\ Distinct(q) /\ Len(q) \in Nat
      /\ \A i : i \in Members(q) <=> i \in IPs /\ node[i] # NoNode /\ i # ip
      /\ lru \in Seq(IPs) /\ Len(lru) \in Nat
    BY Removed, Zenon
<1>8. Len(q) < Len(lru) /\ Len(lru) <= Capacity
  <2>1. /\ Members(lru) = {i \in IPs : node[i] # NoNode}
        /\ Len(lru) <= Capacity
      BY ZoneOf, Zenon DEF ZoneInv
  <2>2. {ip} \cap Members(lru) # {}
      BY <1>1, <1>2, <1>3, <2>1, Zenon
  <2> QED  BY <1>7, <2>1, <2>2, WithoutLeaves, Zenon
<1> HIDE DEF q
<1>9. /\ lru' \in Seq(IPs) /\ Len(lru') = Len(q) + 1 /\ Distinct(lru')
      /\ Members(lru') = Members(q) \cup {ip}
    BY <1>2, <1>3, <1>7, AppendOf, Zenon DEF q
<1>10. ZoneConsistent'
  <2>1. Members(lru') = {i \in IPs : node'[i] # NoNode}
      BY <1>3, <1>5, <1>7, <1>9, Zenon
  <2>2. Len(lru') <= Capacity
      BY <1>7, <1>8, <1>9, ConfAssumption
  <2> QED  BY <1>9, <2>1, <2>2, ZoneOf, Zenon
<1> QED  BY <1>5, <1>6, <1>9, <1>10, Zenon DEF ZoneInv, TypeOK

\* record() of a failure, with room for a new node.
LEMMA FailNewStep ==
    ASSUME ZoneInv, NEW r \in Requests, FailNew(r)
    PROVE  ZoneInv' /\ \A i \in IPs : Recorded(i, r)
<1>1. PICK ip, now, l : ip = req[r].ip /\ now = time[req[r].worker]
                        /\ l = req[r].loc
    BY Zenon
<1>2. PICK gone : gone = Evicted(now, Conf[l].window)
    BY Zenon
<1> DEFINE q == Without(lru, gone)
<1>3. /\ Finish(r) /\ req[r] # NoReq /\ node[ip] = NoNode
      /\ Len(q) < Capacity /\ lru' = Append(q, ip)
      /\ Charged(r, NewNode(now), gone)
    BY <1>1, <1>2, Zenon DEF FailNew, Finish
<1>4. /\ ip \in IPs /\ l \in Locations /\ now \in Nat /\ clock \in Nat
      /\ now <= clock
    BY <1>1, <1>3, InHand, Zenon
<1>5. \A i \in gone : i \in IPs /\ Over(i, now)
    BY <1>2, <1>4, EvictedOver, Zenon DEF Over, ZoneInv
<1>6. NewNode(now) \in Node /\ NewNode(now).window_start <= clock
    BY <1>4 DEF NewNode, Node
<1>7. /\ node' \in [IPs -> Node \cup {NoNode}] /\ recent' \in [IPs -> Seq(Nat)]
      /\ NodeInv' /\ node'[ip] # NoNode
      /\ \A i \in IPs : i # ip =>
            node'[i] = IF i \in gone THEN NoNode ELSE node[i]
      /\ \A i \in IPs : Recorded(i, r)
  <2>1. Counts(r, NewNode(now), gone)
      BY <1>1, <1>3, <1>5, <1>6, Zenon DEF NodeOf, Counts
  <2> QED  BY <1>1, <2>1, ChargedOf, Zenon
<1>8. /\ req' \in [Requests -> Request \cup {NoReq}]
      /\ time' \in [Workers -> Nat] /\ clock' \in Nat /\ TimeInv'
    BY <1>3, FinishOf, Zenon
<1>9. /\ q \in Seq(IPs) /\ Distinct(q) /\ Len(q) \in Nat
      /\ \A i : i \in Members(q)
                   <=> i \in IPs /\ node[i] # NoNode /\ i \notin gone
    BY Removed, Zenon
<1> HIDE DEF q
<1>10. /\ lru' \in Seq(IPs) /\ Len(lru') = Len(q) + 1 /\ Distinct(lru')
       /\ Members(lru') = Members(q) \cup {ip}
    BY <1>3, <1>4, <1>9, AppendOf, ZenonT(40)
<1>11. ZoneConsistent'
  <2>1. Members(lru') = {i \in IPs : node'[i] # NoNode}
      BY <1>3, <1>4, <1>7, <1>9, <1>10, Zenon
  <2>2. Len(lru') <= Capacity
      BY <1>3, <1>9, <1>10, ConfAssumption
  <2> QED  BY <1>10, <2>1, <2>2, ZoneOf, Zenon
<1> QED  BY <1>7, <1>8, <1>10, <1>11, Zenon DEF ZoneInv, TypeOK

\* record() of a failure, with no room: what was evicted stays evicted.
LEMMA FailSkippedStep ==
    ASSUME ZoneInv, NEW r \in Requests, FailSkipped(r)
    PROVE  ZoneInv' /\ \A i \in IPs : Recorded(i, r)
<1>1. PICK now, l : now = time[req[r].worker] /\ l = req[r].loc
    BY Zenon
<1>2. PICK gone : gone = Evicted(now, Conf[l].window)
    BY Zenon
<1>3. /\ Finish(r) /\ req[r] # NoReq
      /\ node' = [i \in IPs |-> IF i \in gone THEN NoNode ELSE node[i]]
      /\ lru' = Without(lru, gone) /\ recent' = recent
    BY <1>1, <1>2, Zenon DEF FailSkipped, Finish
<1>4. l \in Locations /\ now \in Nat
    BY <1>1, <1>3, InHand, Zenon
<1>5. \A i \in gone : i \in IPs /\ Over(i, now)
    BY <1>2, <1>4, EvictedOver, Zenon DEF Over, ZoneInv
<1>6. /\ node \in [IPs -> Node \cup {NoNode}] /\ recent \in [IPs -> Seq(Nat)]
      /\ NodeInv
    BY Zenon DEF ZoneInv, TypeOK
<1>7. /\ node' \in [IPs -> Node \cup {NoNode}] /\ recent' \in [IPs -> Seq(Nat)]
      /\ \A i \in IPs : node'[i] = IF i \in gone THEN NoNode ELSE node[i]
    BY <1>3, <1>6, Zenon
<1>8. /\ req' \in [Requests -> Request \cup {NoReq}]
      /\ time' \in [Workers -> Nat] /\ clock' \in Nat /\ TimeInv'
      /\ clock' = clock
    BY <1>3, FinishOf, Zenon
<1>9. /\ lru' \in Seq(IPs) /\ Distinct(lru') /\ Len(lru') <= Capacity
      /\ \A i : i \in Members(lru')
                   <=> i \in IPs /\ node[i] # NoNode /\ i \notin gone
    BY <1>3, Removed, Zenon
<1>10. ZoneConsistent'
  <2>1. Members(lru') = {i \in IPs : node'[i] # NoNode}
      BY <1>7, <1>9, Zenon
  <2> QED  BY <1>9, <2>1, ZoneOf, Zenon
<1>11. NodeInv'
    BY <1>6, <1>7, <1>8, Zenon DEF NodeInv
<1>12. \A i \in IPs : Recorded(i, r)
    BY <1>1, <1>3, <1>5, <1>7, Zenon DEF Recorded, Left
<1> QED  BY <1>7, <1>8, <1>9, <1>10, <1>11, <1>12, Zenon DEF ZoneInv, TypeOK

\* The wall clock goes on, a worker reads it, a request is admitted or refused.
Outside ==
    \/ Tick
    \/ \E w \in Workers : UpdateTime(w)
    \/ \E w \in Workers, ip \in IPs :
            \/ Refuse(w, ip)
            \/ \E r \in Requests, l \in Locations : Admit(r, w, ip, l)
    \/ UNCHANGED vars

\* None of this touches the zone.
LEMMA OutsideStep ==
    ASSUME ZoneInv, Outside
    PROVE  /\ ZoneInv'
           /\ clock' \in Nat /\ clock <= clock'
           /\ node' = node /\ recent' = recent
<1>1. /\ clock \in Nat /\ time \in [Workers -> Nat] /\ TimeInv
      /\ req \in [Requests -> Request \cup {NoReq}]
      /\ node \in [IPs -> Node \cup {NoNode}] /\ NodeInv
    BY Zenon DEF ZoneInv, TypeOK
<1> DEFINE Goal == /\ clock' \in Nat /\ clock <= clock'
                   /\ time' \in [Workers -> Nat] /\ TimeInv'
                   /\ req' \in [Requests -> Request \cup {NoReq}]
                   /\ node' = node /\ recent' = recent /\ lru' = lru
<1>2. ASSUME Tick
      PROVE  Goal
  <2>1. PICK late \in SUBSET Workers :
            /\ \A w \in late : clock + 1 - time[w] <= MaxLag
            /\ time' = [w \in Workers |->
                           IF w \in late THEN time[w] ELSE clock + 1]
      BY <1>2, Zenon DEF Tick
  <2>2. /\ clock' = clock + 1 /\ req' = req
        /\ node' = node /\ recent' = recent /\ lru' = lru
      BY <1>2, Zenon DEF Tick
  <2>3. clock + 1 \in Nat /\ clock <= clock + 1
      BY <1>1
  <2>4. time' \in [Workers -> Nat]
      BY <1>1, <2>1, <2>3, Zenon
  <2>5. ASSUME NEW w \in Workers
        PROVE  time'[w] <= clock' /\ clock' <= time'[w] + MaxLag
    <3>1. time[w] \in Nat /\ time[w] <= clock
        BY <1>1, Zenon DEF TimeInv
    <3>2. CASE w \in late
        BY <1>1, <2>1, <2>2, <3>1, <3>2, ConfAssumption
    <3>3. CASE w \notin late
        BY <1>1, <2>1, <2>2, <3>3, ConfAssumption
    <3> QED  BY <3>2, <3>3
  <2> QED  BY <1>1, <2>2, <2>3, <2>4, <2>5, Zenon DEF TimeInv
<1>3. ASSUME NEW w \in Workers, UpdateTime(w)
      PROVE  Goal
  <2>1. /\ time' = [time EXCEPT ![w] = clock] /\ clock' = clock /\ req' = req
        /\ node' = node /\ recent' = recent /\ lru' = lru
      BY <1>3, Zenon DEF UpdateTime
  <2>2. clock <= clock /\ clock <= clock + MaxLag
      BY <1>1, ConfAssumption
  <2>3. /\ time' \in [Workers -> Nat] /\ time'[w] = clock
        /\ \A v \in Workers : v # w => time'[v] = time[v]
      BY <1>1, <2>1, Zenon
  <2> QED  BY <1>1, <2>1, <2>2, <2>3, Zenon DEF TimeInv
<1>4. ASSUME UNCHANGED vars
      PROVE  Goal
  <2>1. clock <= clock
      BY <1>1
  <2> QED  BY <1>1, <1>4, <2>1, Zenon DEF vars, TimeInv
<1>5. ASSUME NEW w \in Workers, NEW ip \in IPs, NEW r \in Requests,
             NEW l \in Locations, Admit(r, w, ip, l)
      PROVE  Goal
  <2> DEFINE q == [ip |-> ip, worker |-> w, loc |-> l]
  <2>1. q \in Request
      BY DEF Request
  <2> HIDE DEF q
  <2>2. /\ req' = [req EXCEPT ![r] = q] /\ clock' = clock /\ time' = time
        /\ node' = node /\ recent' = recent /\ lru' = lru
      BY <1>5, Zenon DEF Admit, q
  <2>3. req' \in [Requests -> Request \cup {NoReq}] /\ clock <= clock
      BY <1>1, <2>1, <2>2
  <2> QED  BY <1>1, <2>2, <2>3, Zenon DEF TimeInv
<1>6. Goal
  <2> HIDE DEF Goal
  <2>1. ASSUME NEW w \in Workers, NEW ip \in IPs, Refuse(w, ip)
        PROVE  Goal
      BY <1>4, <2>1, Zenon DEF Refuse
  <2> QED  BY <1>2, <1>3, <1>4, <1>5, <2>1, Zenon DEF Outside
<1>7. NodeInv'
  <2>1. ASSUME NEW i \in IPs, node'[i] # NoNode
        PROVE  node'[i].window_start <= clock' /\ node'[i].count >= 1
    <3>1. /\ node[i].window_start \in Nat /\ node[i].window_start <= clock
          /\ node[i].count >= 1
        BY <1>1, <1>6, <2>1 DEF NodeInv, Node
    <3> QED  BY <1>1, <1>6, <3>1
  <2> QED  BY <2>1, Zenon DEF NodeInv
<1>8. TypeOK' /\ ZoneConsistent'
  <2>1. TypeOK'
      BY <1>6, Zenon DEF ZoneInv, TypeOK
  <2>2. ZoneConsistent'
      BY <1>6 DEF ZoneInv, ZoneConsistent
  <2> QED  BY <2>1, <2>2
<1> QED  BY <1>6, <1>7, <1>8, Zenon DEF ZoneInv

\* nginx is stopped and started.
LEMMA RestartStep ==
    ASSUME ZoneInv, Restart
    PROVE  /\ ZoneInv' /\ clock' = clock
           /\ \A i \in IPs : node'[i] = NoNode /\ recent'[i] = << >>
<1>1. clock \in Nat
    BY Zenon DEF ZoneInv, TypeOK
<1>2. /\ clock' = clock /\ time' = [w \in Workers |-> clock]
      /\ node' = [i \in IPs |-> NoNode] /\ lru' = << >>
      /\ req' = [r \in Requests |-> NoReq]
      /\ recent' = [i \in IPs |-> << >>]
    BY Zenon DEF Restart
<1>3. /\ \A i \in IPs : node'[i] = NoNode /\ recent'[i] = << >>
      /\ \A w \in Workers : time'[w] = clock
    BY <1>2, Zenon
<1>4. TypeOK'
    BY <1>1, <1>2 DEF TypeOK
<1>5. ZoneConsistent'
  <2>1. Len(<< >>) = 0 /\ 1..0 = {} /\ 0 <= Capacity
      BY ConfAssumption
  <2>2. Members(lru') = {i \in IPs : node'[i] # NoNode} /\ Distinct(lru')
      BY <1>2, <1>3, <2>1, Zenon DEF Members, Distinct
  <2> QED  BY <1>2, <2>1, <2>2, ZoneOf, Zenon
<1>6. clock <= clock /\ clock <= clock + MaxLag
    BY <1>1, ConfAssumption
<1> QED  BY <1>2, <1>3, <1>4, <1>5, <1>6, Zenon DEF ZoneInv, TimeInv, NodeInv

\* Every way to record a request keeps the zone.
LEMMA RecordStep ==
    ASSUME ZoneInv, NEW r \in Requests, Record(r)
    PROVE  /\ ZoneInv' /\ req[r] # NoReq /\ clock' = clock
           /\ \A i \in IPs : Recorded(i, r)
<1>1. Finish(r)
    BY Zenon DEF Record, RecordSuccess, FailKnown, FailNew, FailSkipped
<1>2. req[r] # NoReq /\ clock' = clock
    BY <1>1, Zenon DEF Finish
<1> QED  BY <1>2, RecordSuccessStep, FailKnownStep, FailNewStep,
            FailSkippedStep, Zenon DEF Record

\* A step records a request, empties the zone or leaves it alone.
LEMMA Steps ==
    ASSUME [Next]_vars
    PROVE  Outside \/ Restart \/ \E r \in Requests : Record(r)
    BY Zenon DEF Next, Outside

\* The zone is consistent, in every state of every configuration.
LEMMA ZoneInvariance == Spec => []ZoneInv
<1>1. Init => ZoneInv
  <2> SUFFICES ASSUME Init
               PROVE  ZoneInv
      OBVIOUS
  <2>1. /\ clock = 1 /\ time = [w \in Workers |-> 1]
        /\ node = [i \in IPs |-> NoNode] /\ lru = << >>
        /\ req = [r \in Requests |-> NoReq]
        /\ recent = [i \in IPs |-> << >>]
      BY Zenon DEF Init
  <2>2. TypeOK /\ TimeInv
      BY <2>1, ConfAssumption DEF TypeOK, TimeInv
  <2>3. \A i \in IPs : node[i] = NoNode
      BY <2>1, Zenon
  <2>4. Len(<< >>) = 0 /\ 1..0 = {} /\ 0 <= Capacity
      BY ConfAssumption
  <2>5. ZoneConsistent
      BY <2>1, <2>3, <2>4, Zenon DEF ZoneConsistent
  <2> QED  BY <2>2, <2>3, <2>5, Zenon DEF ZoneInv, NodeInv
<1>2. ZoneInv /\ [Next]_vars => ZoneInv'
    BY Steps, OutsideStep, RestartStep, RecordStep, Zenon
<1> QED  BY <1>1, <1>2, PTL DEF Spec

\* Every variable keeps its type, for every configuration of the throttle.
THEOREM TypeCorrect == Spec => []TypeOK
<1>1. ZoneInv => TypeOK
    BY Zenon DEF ZoneInv
<1> QED  BY <1>1, ZoneInvariance, PTL

\* Whatever workers check and record in whatever order, and whatever the two
\* passes of evict_stale remove, the queue and the tree of the zone hold the
\* same addresses, each once, and no more than the slab pool has room for.
THEOREM TreeAndQueueAgree == Spec => []ZoneConsistent
<1>1. ZoneInv => ZoneConsistent
    BY Zenon DEF ZoneInv
<1> QED  BY <1>1, ZoneInvariance, PTL

\* evict_stale forgets nothing: the node it drops is over for every location
\* of the zone, whatever their windows, not only for the one that evicts.
THEOREM NothingForgotten == Spec => EvictionForgetsNothing
<1>1. ASSUME ZoneInv, [Next]_vars, NEW ip \in IPs,
             node[ip] # NoNode, node'[ip] = NoNode, ~Cleared(ip)
      PROVE  \E w \in Workers :
                 /\ node[ip].banned_until <= time[w]
                 /\ \A l \in Locations :
                        node[ip].window_start + Conf[l].window <= time[w]
  <2>1. ~Restart /\ ~Outside
      BY <1>1, OutsideStep, Zenon DEF Cleared
  <2>2. PICK r \in Requests : Record(r)
      BY <1>1, <2>1, Steps, Zenon
  <2>3. Recorded(ip, r) /\ req[r] # NoReq
      BY <1>1, <2>2, RecordStep, Zenon
  <2>4. /\ req[r].worker \in Workers /\ req[r].loc \in Locations
        /\ time[req[r].worker] \in Nat
      BY <1>1, <2>3, InHand, Zenon
  <2>5. ~Counted(ip, time[req[r].worker], req[r].loc)
    <3>1. PICK now, l : now = time[req[r].worker] /\ l = req[r].loc
        BY Zenon
    <3>2. ASSUME NEW n \in Node, node'[ip] = Charge(n, now, Conf[l])
          PROVE  FALSE
      <4>1. PICK c : OneMoreOn(c, n, now, l)
          BY Zenon DEF OneMoreOn
      <4>2. c # NoNode
          BY <2>4, <3>1, <4>1, ChargeOf
      <4> QED  BY <1>1, <3>2, <4>1, <4>2, Zenon DEF OneMoreOn
    <3> QED  BY <3>1, <3>2, Zenon DEF Counted
  <2>6. ~(ip = req[r].ip /\ RecordSuccess(r))
      BY <1>1, <2>2, Zenon DEF Cleared
  <2>7. Over(ip, time[req[r].worker])
      BY <1>1, <2>3, <2>5, <2>6, Zenon DEF Recorded, Left
  <2> QED  BY <2>4, <2>7, Zenon DEF Over
<1>2. ZoneInv /\ [Next]_vars =>
        [\A ip \in IPs :
            node[ip] # NoNode /\ node'[ip] = NoNode /\ ~Cleared(ip) =>
                \E w \in Workers :
                    /\ node[ip].banned_until <= time[w]
                    /\ \A l \in Locations :
                       node[ip].window_start + Conf[l].window <= time[w]]_vars
    BY <1>1, Zenon
<1> QED  BY <1>2, ZoneInvariance, PTL DEF Spec, EvictionForgetsNothing
-----------------------------------------------------------------------------
(* The failures of one address, under one limit and one window.             *)

\* When its window is over, a node's failures but limit - 2 have faded.
LEMMA FadedWhenOver ==
    ASSUME NEW q \in Seq(Nat), Sorted(q), NEW n \in Node, n.count >= 1,
           NEW l \in Locations, BurstOf(n, q, Conf[l]), NEW now \in Nat,
           n.window_start + Conf[l].window <= now
    PROVE  Faded(q, Conf[l], now)
<1>1. PICK C, W, k, s : /\ C = Conf[l].limit /\ W = Conf[l].window
                        /\ k = n.count /\ s = n.window_start
    BY Zenon
<1>2. /\ C \in Nat /\ C >= 1 /\ W \in Nat /\ W >= 1 /\ MaxLag \in Nat
      /\ k \in Nat /\ k >= 1 /\ s \in Nat /\ s + W <= now
      /\ Len(q) \in Nat /\ \A i \in 1..Len(q) : q[i] \in Nat
  <2>1. n.count \in Nat /\ n.window_start \in Nat
      BY DEF Node
  <2>2. Len(q) \in Nat /\ \A i \in 1..Len(q) : q[i] \in Nat
      OBVIOUS
  <2> QED  BY <1>1, <2>1, <2>2, Ranges, Zenon
<1>3. CASE k >= C
  <2>1. Len(q) = 0 /\ Carried(C) >= 0
      BY <1>1, <1>2, <1>3 DEF BurstOf, Carried, Max
  <2> QED  BY <1>1, <2>1 DEF Faded
<1>4. CASE ~(k >= C)
  <2>1. /\ Len(q) <= C - 2 + k
        /\ k <= Len(q) => q[Len(q) - k + 1] <= s + MaxLag
      BY <1>1, <1>4, Zenon DEF BurstOf
  <2>2. Carried(C) = C - 2
      BY <1>2, <1>4 DEF Carried, Max
  <2>3. CASE Len(q) <= C - 2
      BY <1>1, <2>2, <2>3, Zenon DEF Faded
  <2>4. CASE ~(Len(q) <= C - 2)
    <3>1. /\ k <= Len(q)
          /\ Len(q) - (C - 2) \in 1..Len(q) /\ Len(q) - k + 1 \in 1..Len(q)
          /\ Len(q) - (C - 2) <= Len(q) - k + 1
        BY <1>2, <1>4, <2>4, SMTT(30)
    <3>2. q[Len(q) - (C - 2)] <= q[Len(q) - k + 1]
        BY <3>1, Zenon DEF Sorted
    <3>3. q[Len(q) - k + 1] <= s + MaxLag
        BY <2>1, <3>1, Zenon
    <3>4. q[Len(q) - (C - 2)] \in Nat /\ q[Len(q) - k + 1] \in Nat
        BY <1>2, <3>1, Zenon
    <3>5. q[Len(q) - (C - 2)] <= now - (W - MaxLag)
        BY <1>2, <3>2, <3>3, <3>4, SMTT(30)
    <3> QED  BY <1>1, <2>2, <3>5, Zenon DEF Faded
  <2> QED  BY <2>3, <2>4
<1> QED  BY <1>3, <1>4

\* p is q with one more failure, at the time now, and without those up to t.
Prolongs(p, q, t, now) == p = Append(Without(q, 0..t), now)

\* Of q, k failures and all those up to t are dropped.
Drops(p, q, t, k) ==
    /\ k \in Nat /\ k <= Len(q) /\ Len(p) = Len(q) - k + 1
    /\ \A i \in 1..(Len(q) - k) : p[i] = q[i + k]
    /\ \A i \in 1..Len(q) : q[i] <= t => i <= k

\* One more failure, with those out of the span dropped.
LEMMA Prolonged ==
    ASSUME NEW q, NEW now \in Nat, NEW t \in Int, Chronicle(q, now),
           NEW p, Prolongs(p, q, t, now)
    PROVE  /\ Chronicle(p, now) /\ p[Len(p)] = now
           /\ \E k : Drops(p, q, t, k)
<1>0. /\ q \in Seq(Nat) /\ Sorted(q)
      /\ \A i \in 1..Len(q) : q[i] <= now
    BY Zenon DEF Chronicle
<1>1. PICK u : u = Without(q, 0..t)
    BY Zenon
<1>2. u \in Seq(Nat)
    BY <1>0, <1>1, WithoutLeaves, Zenon
<1>3. PICK k : TailOf(u, q, k) /\ \A i \in 1..Len(q) : q[i] <= t => i <= k
    BY <1>0, <1>1, Pruned, Zenon
<1>4. /\ k \in 0..Len(q) /\ Len(u) = Len(q) - k /\ Len(q) \in Nat
      /\ \A i \in 1..(Len(q) - k) : u[i] = q[i + k]
  <2>1. /\ k \in 0..Len(q) /\ Len(u) = Len(q) - k
        /\ \A i \in 1..Len(u) : u[i] = q[i + k]
      BY <1>3, Zenon DEF TailOf
  <2>2. Len(q) \in Nat
      BY <1>0
  <2> QED  BY <2>1, <2>2, Zenon
<1>5. /\ p \in Seq(Nat) /\ Len(p) = Len(u) + 1 /\ p[Len(u) + 1] = now
      /\ \A i \in 1..Len(u) : p[i] = u[i]
  <2>1. p = Append(u, now)
      BY <1>1, Zenon DEF Prolongs
  <2> QED  BY <1>2, <2>1
<1>6. /\ Len(p) = Len(q) - k + 1 /\ p[Len(p)] = now
      /\ \A i \in 1..(Len(q) - k) : p[i] = q[i + k]
    BY <1>4, <1>5
<1>7. \A i \in 1..Len(p) : p[i] <= now
  <2> TAKE i \in 1..Len(p)
  <2>1. CASE i = Len(p)
      BY <1>6, <2>1
  <2>2. CASE i # Len(p)
    <3>1. i \in 1..(Len(q) - k) /\ i + k \in 1..Len(q)
        BY <1>4, <1>6, <2>2
    <3> QED  BY <1>0, <1>6, <3>1, Zenon
  <2> QED  BY <2>1, <2>2
<1>8. Sorted(p)
  <2> SUFFICES ASSUME NEW i \in 1..Len(p), NEW j \in 1..Len(p), i <= j
               PROVE  p[i] <= p[j]
      BY Zenon DEF Sorted
  <2>1. CASE j = Len(p)
      BY <1>6, <1>7, <2>1, Zenon
  <2>2. CASE j # Len(p)
    <3>1. /\ i \in 1..(Len(q) - k) /\ j \in 1..(Len(q) - k)
          /\ i + k \in 1..Len(q) /\ j + k \in 1..Len(q) /\ i + k <= j + k
      <4>1. PICK a, b : a = Len(p) /\ b = Len(q)
          BY Zenon
      <4>2. /\ i \in 1..a /\ j \in 1..a /\ j # a
            /\ a = b - k + 1 /\ b \in Nat /\ k \in 0..b
          BY <1>4, <1>6, <2>2, <4>1, Zenon
      <4>3. /\ i \in 1..(b - k) /\ j \in 1..(b - k)
            /\ i + k \in 1..b /\ j + k \in 1..b /\ i + k <= j + k
          BY <4>2
      <4> QED  BY <4>1, <4>3, Zenon
    <3> QED  BY <1>0, <1>6, <3>1, Zenon DEF Sorted
  <2> QED  BY <2>1, <2>2
<1>9. Drops(p, q, t, k)
  <2>1. k \in Nat /\ k <= Len(q)
      BY <1>4
  <2> QED  BY <1>3, <1>6, <2>1, Zenon DEF Drops
<1> QED  BY <1>5, <1>6, <1>7, <1>8, <1>9, Zenon DEF Chronicle

\* A failure is counted, and not enough of them for a ban.
LEMMA BurstGrows ==
    ASSUME NEW l \in Locations, NEW q, NEW n \in Node, NEW now \in Nat,
           NEW at \in Nat, now <= at, at <= now + MaxLag,
           History(q, Conf[l], at),
           \/ n = NewNode(now) /\ Faded(q, Conf[l], at)
           \/ n.count >= 1 /\ BurstOf(n, q, Conf[l]),
           NEW c, OneMoreOn(c, n, now, l), ~(c.count >= Conf[l].limit),
           NEW p, Prolongs(p, q, at - (Conf[l].window - MaxLag), at)
    PROVE  History(p, Conf[l], at) /\ BurstOf(c, p, Conf[l])
<1>1. PICK C, W, t : /\ C = Conf[l].limit /\ W = Conf[l].window
                     /\ t = at - (W - MaxLag)
    BY Zenon
<1>2. C \in Nat /\ W \in Nat /\ W >= 1 /\ MaxLag \in Nat /\ t \in Int
  <2>1. C \in Nat /\ W \in Nat /\ W >= 1 /\ MaxLag \in Nat
      BY <1>1, Ranges, Zenon
  <2> QED  BY <1>1, <2>1
<1>3. /\ Chronicle(q, at) /\ q \in Seq(Nat) /\ Sorted(q)
      /\ Len(q) \in Nat
    BY DEF History, Chronicle
<1>4. /\ c.count \in Nat /\ c.count >= 1 /\ c.window_start \in Nat
      /\ n.count \in Nat /\ n.window_start \in Nat
      /\ \/ /\ n.window_start + W <= now
            /\ c.window_start = now /\ c.count = 1
         \/ /\ ~(n.window_start + W <= now)
            /\ c.window_start = n.window_start /\ c.count = n.count + 1
  <2>1. /\ c \in Node /\ c.count >= 1
        /\ \/ /\ n.window_start + Conf[l].window <= now
              /\ c.window_start = now /\ c.count = 1
           \/ /\ ~(n.window_start + Conf[l].window <= now)
              /\ c.window_start = n.window_start /\ c.count = n.count + 1
      BY ChargeOf
  <2>2. /\ c.count \in Nat /\ c.window_start \in Nat
        /\ n.count \in Nat /\ n.window_start \in Nat
      BY <2>1 DEF Node
  <2> QED  BY <1>1, <2>1, <2>2, Zenon
<1> Prolongs(p, q, t, at)
    BY <1>1, Zenon
<1>0. PICK k : Drops(p, q, t, k) /\ Chronicle(p, at) /\ p[Len(p)] = at
    BY <1>2, <1>3, Prolonged, Zenon
<1>5. /\ k \in Nat /\ k <= Len(q) /\ Len(p) = Len(q) - k + 1
      /\ \A i \in 1..(Len(q) - k) : p[i] = q[i + k]
      /\ \A i \in 1..Len(q) : q[i] <= t => i <= k
    BY <1>0, Zenon DEF Drops
<1>6. Chronicle(p, at) /\ p[Len(p)] = at
    BY <1>0, ZenonT(40)
<1>7. k \in Nat /\ k <= Len(q) /\ Len(p) \in Nat /\ c.count < C /\ C >= 2
  <2>1. c.count < C /\ C >= 2
      BY <1>1, <1>2, <1>4
  <2> QED  BY <1>3, <1>5, <2>1, SMTT(30)
<1>8. CASE Faded(q, Conf[l], at) /\ c.count = 1 /\ c.window_start = now
  <2>1. Carried(C) = C - 2
      BY <1>2, <1>7 DEF Carried, Max
  <2>2. Len(q) <= C - 2 \/ q[Len(q) - (C - 2)] <= t
      BY <1>1, <1>8, <2>1, Zenon DEF Faded
  <2>3. Len(p) <= C - 1
    <3>1. CASE Len(q) <= C - 2
        BY <1>2, <1>3, <1>5, <1>7, <3>1, SMTT(30)
    <3>2. CASE ~(Len(q) <= C - 2)
      <4>1. Len(q) - (C - 2) \in 1..Len(q)
          BY <1>2, <1>3, <1>7, <3>2
      <4>2. Len(q) - (C - 2) <= k
          BY <1>5, <2>2, <3>2, <4>1, Zenon
      <4> QED  BY <1>2, <1>3, <1>5, <1>7, <4>2, SMTT(30)
    <3> QED  BY <3>1, <3>2
  <2>4. /\ Len(p) <= Max(C - 1, 2 * C - 3)
        /\ Len(p) <= C - 2 + c.count
        /\ Len(p) - c.count + 1 = Len(p)
      BY <1>2, <1>7, <1>8, <2>3, SMTT(30) DEF Max
  <2>5. p[Len(p) - c.count + 1] <= c.window_start + MaxLag
      BY <1>6, <1>8, <2>4
  <2> QED  BY <1>1, <1>6, <1>8, <2>4, <2>5, ZenonT(40) DEF History, BurstOf
<1>9. CASE /\ n.count >= 1 /\ BurstOf(n, q, Conf[l])
           /\ c.window_start = n.window_start /\ c.count = n.count + 1
  <2>1. ~(n.count >= C)
      BY <1>2, <1>4, <1>7, <1>9
  <2>2. /\ Len(q) <= C - 2 + n.count
        /\ n.count <= Len(q) =>
              q[Len(q) - n.count + 1] <= n.window_start + MaxLag
      BY <1>1, <1>9, <2>1, Zenon DEF BurstOf
  <2>3. /\ Len(p) <= C - 2 + c.count
        /\ Len(p) <= Max(C - 1, 2 * C - 3)
    <3>1. Len(p) = Len(q) - k + 1 /\ Len(q) <= C - 2 + n.count
        BY <1>5, <2>2, Zenon
    <3>2. PICK a, b : a = n.count /\ b = c.count
        BY Zenon
    <3>3. /\ a \in Nat /\ b = a + 1 /\ b < C
          /\ Len(p) = Len(q) - k + 1 /\ Len(q) <= C - 2 + a
        BY <1>4, <1>7, <1>9, <3>1, <3>2, ZenonT(40)
    <3>4. Len(p) <= C - 2 + b /\ Len(p) <= Max(C - 1, 2 * C - 3)
        BY <1>2, <1>3, <1>7, <3>3, SMTT(30) DEF Max
    <3> QED  BY <3>2, <3>4, Zenon
  <2>4. ASSUME c.count <= Len(p)
        PROVE  p[Len(p) - c.count + 1] <= c.window_start + MaxLag
    <3>1. PICK j : j = Len(p) - c.count + 1
        BY Zenon
    <3>2. /\ n.count <= Len(q) /\ j \in 1..(Len(q) - k)
          /\ j + k = Len(q) - n.count + 1
      <4>1. PICK a : a = n.count
          BY Zenon
      <4>2. /\ Len(p) = Len(q) - k + 1 /\ c.count = a + 1
            /\ a \in Nat /\ a >= 1
          BY <1>4, <1>5, <1>9, <4>1, Zenon
      <4>3. a + 1 <= Len(p) /\ j = Len(p) - (a + 1) + 1
          BY <2>4, <3>1, <4>2, Zenon
      <4>4. a <= Len(q) /\ j \in 1..(Len(q) - k) /\ j + k = Len(q) - a + 1
          BY <1>3, <1>7, <4>2, <4>3
      <4> QED  BY <4>1, <4>4, Zenon
    <3>3. p[j] = q[j + k]
        BY <1>5, <3>2, Zenon
    <3> QED  BY <1>9, <2>2, <3>1, <3>2, <3>3, Zenon
  <2> QED  BY <1>1, <1>6, <1>9, <2>3, <2>4, ZenonT(40) DEF History, BurstOf
<1>10. CASE n = NewNode(now) /\ Faded(q, Conf[l], at)
  <2>1. n.window_start = now /\ n.count = 0
      BY <1>10 DEF NewNode
  <2>2. c.count = 1 /\ c.window_start = now
      BY <1>2, <1>4, <2>1
  <2> QED  BY <1>8, <1>10, <2>2, Zenon
<1>11. CASE n.count >= 1 /\ BurstOf(n, q, Conf[l])
  <2>1. CASE n.window_start + W <= now
    <3>1. n.window_start + W <= at
        BY <1>2, <1>4, <2>1
    <3>2. Faded(q, Conf[l], at)
        BY <1>1, <1>3, <1>11, <3>1, FadedWhenOver, Zenon
    <3> QED  BY <1>4, <1>8, <2>1, <3>2, ZenonT(40)
  <2>2. CASE ~(n.window_start + W <= now)
      BY <1>4, <1>9, <1>11, <2>2, Zenon
  <2> QED  BY <2>1, <2>2
<1> QED  BY <1>10, <1>11
-----------------------------------------------------------------------------
(* Locations that count alike.                                              *)

\* What BurstInv says of one address.
Address(n, q, l, now) ==
    /\ History(q, Conf[l], now)
    /\ n = NoNode => Faded(q, Conf[l], now)
    /\ n # NoNode => BurstOf(n, q, Conf[l])

AddressInv ==
    \A ip \in IPs, l \in Locations : Address(node[ip], recent[ip], l, clock)

\* The inductive invariant, address by address.
LEMMA InvOf ==
    /\ IInv <=> ZoneInv /\ AddressInv
    /\ IInv' <=> ZoneInv' /\ AddressInv'
  BY Zenon DEF IInv, AddressInv, Address, BurstInv

\* Nothing has failed yet.
LEMMA Blank ==
    ASSUME NEW l \in Locations, NEW now \in Nat
    PROVE  Address(NoNode, << >>, l, now)
<1>1. << >> \in Seq(Nat) /\ Len(<< >>) = 0 /\ 1..0 = {}
    OBVIOUS
<1>2. 0 <= Max(Conf[l].limit - 1, 2 * Conf[l].limit - 3)
    BY Ranges DEF Max
<1>3. 0 <= Carried(Conf[l].limit)
    BY Ranges DEF Carried, Max
<1> QED  BY <1>1, <1>2, <1>3, Zenon
         DEF Address, History, Chronicle, Sorted, Faded

\* Time only makes failures fade.
LEMMA Later ==
    ASSUME NEW l \in Locations, NEW q, NEW n \in Node \cup {NoNode},
           NEW now \in Nat, NEW at \in Nat, now <= at, Address(n, q, l, now)
    PROVE  Address(n, q, l, at)
<1>1. q \in Seq(Nat) /\ Len(q) \in Nat /\ \A i \in 1..Len(q) : q[i] \in Nat
    BY DEF Address, History, Chronicle
<1>2. History(q, Conf[l], at)
  <2>1. ASSUME NEW i \in 1..Len(q)
        PROVE  q[i] <= at
    <3>1. q[i] <= now /\ q[i] \in Nat
        BY <1>1, Zenon DEF Address, History, Chronicle
    <3> QED  BY <3>1
  <2> QED  BY <2>1, Zenon DEF Address, History, Chronicle
<1>3. n = NoNode => Faded(q, Conf[l], at)
  <2> SUFFICES ASSUME n = NoNode
               PROVE  Faded(q, Conf[l], at)
      OBVIOUS
  <2>1. PICK d, W : d = Carried(Conf[l].limit) /\ W = Conf[l].window
      BY Zenon
  <2>2. d \in Nat /\ W \in Nat /\ MaxLag \in Nat
      BY <2>1, Ranges DEF Carried, Max
  <2>3. Len(q) <= d \/ q[Len(q) - d] <= now - (W - MaxLag)
      BY <2>1, Zenon DEF Address, Faded
  <2>4. CASE Len(q) <= d
      BY <2>1, <2>4, Zenon DEF Faded
  <2>5. CASE ~(Len(q) <= d)
    <3>1. q[Len(q) - d] \in Nat
        BY <1>1, <2>2, <2>5
    <3>2. q[Len(q) - d] <= at - (W - MaxLag)
        BY <2>2, <2>3, <2>5, <3>1
    <3> QED  BY <2>1, <3>2, Zenon DEF Faded
  <2> QED  BY <2>4, <2>5
<1> QED  BY <1>2, <1>3, Zenon DEF Address

\* A node is evicted: its failures have faded.
LEMMA EvictedAddress ==
    ASSUME NEW l \in Locations, NEW q, NEW n \in Node, n # NoNode,
           n.count >= 1, NEW now \in Nat, Address(n, q, l, now),
           n.window_start + Conf[l].window <= now
    PROVE  Address(NoNode, q, l, now)
<1>1. q \in Seq(Nat) /\ Sorted(q) /\ BurstOf(n, q, Conf[l])
    BY Zenon DEF Address, History, Chronicle
<1>2. Faded(q, Conf[l], now)
    BY <1>1, FadedWhenOver, Zenon
<1> QED  BY <1>2, Zenon DEF Address
\* n is the node a failure is counted on when the address has n0.
BaseOf(n, n0, now) == n = IF n0 = NoNode THEN NewNode(now) ELSE n0

\* q becomes p when a failure is counted and node c is the result.
Follows(p, q, c, l, at) ==
    p = IF c.count >= Conf[l].limit THEN << >>
        ELSE Append(Without(q, 0..(at - (Conf[l].window - MaxLag))), at)

\* A failure is counted, with or without a ban.
LEMMA CountedAddress ==
    ASSUME NEW l \in Locations, NEW q, NEW n0 \in Node \cup {NoNode},
           NEW now \in Nat, NEW at \in Nat, now <= at, at <= now + MaxLag,
           Address(n0, q, l, at),
           n0 # NoNode => n0.count >= 1 /\ n0.window_start <= at,
           NEW n \in Node, BaseOf(n, n0, now),
           NEW c, OneMoreOn(c, n, now, l),
           NEW p, Follows(p, q, c, l, at)
    PROVE  Address(c, p, l, at)
<1>1. c \in Node /\ c # NoNode
    BY ChargeOf, SMTT(30)
<1>2. History(p, Conf[l], at) /\ BurstOf(c, p, Conf[l])
  <2>1. CASE c.count >= Conf[l].limit
    <3>1. p = << >>
        BY <2>1, Zenon DEF Follows
    <3>2. History(<< >>, Conf[l], at)
        BY Blank, ZenonT(40) DEF Address
    <3> QED  BY <2>1, <3>1, <3>2, Zenon DEF BurstOf
  <2>2. CASE ~(c.count >= Conf[l].limit)
    <3>1. Prolongs(p, q, at - (Conf[l].window - MaxLag), at)
        BY <2>2, Zenon DEF Follows, Prolongs
    <3>2. \/ n = NewNode(now) /\ Faded(q, Conf[l], at)
          \/ n.count >= 1 /\ BurstOf(n, q, Conf[l])
        BY Zenon DEF BaseOf, Address
    <3>3. History(q, Conf[l], at)
        BY Zenon DEF Address
    <3> QED  BY <2>2, <3>1, <3>2, <3>3, BurstGrows, ZenonT(40)
  <2> QED  BY <2>1, <2>2
<1> QED  BY <1>1, <1>2, ZenonT(40) DEF Address

\* What one location knows of an address, all of them do.
LEMMA Alike ==
    ASSUME CountAlike, NEW l \in Locations, NEW m \in Locations,
           NEW n, NEW q, NEW now, Address(n, q, m, now)
    PROVE  Address(n, q, l, now)
<1>1. Conf[l].limit = Conf[m].limit /\ Conf[l].window = Conf[m].window
    BY Zenon DEF CountAlike
<1> QED  BY <1>1, Zenon DEF Address, History, Faded, BurstOf

\* A recorded request leaves every address as AddressInv says.
LEMMA RecordedAddress ==
    ASSUME CountAlike, ZoneInv, AddressInv, NEW r \in Requests, Record(r),
           NEW ip \in IPs, NEW l \in Locations
    PROVE  Address(node'[ip], recent'[ip], l, clock')
<1>1. PICK now, m, at, n0, q : /\ now = time[req[r].worker] /\ m = req[r].loc
                               /\ at = clock /\ n0 = node[ip] /\ q = recent[ip]
    BY Zenon
<1>2. PICK n1, p : n1 = node'[ip] /\ p = recent'[ip]
    BY Zenon
<1>3. Recorded(ip, r) /\ req[r] # NoReq /\ clock' = at
    BY <1>1, RecordStep, Zenon
<1>4. /\ m \in Locations /\ now \in Nat /\ at \in Nat
      /\ now <= at /\ at <= now + MaxLag
    BY <1>1, <1>3, InHand, Zenon
<1>5. /\ n0 \in Node \cup {NoNode} /\ Address(n0, q, l, at)
      /\ Address(n0, q, m, at)
      /\ n0 # NoNode => n0.count >= 1 /\ n0.window_start <= at
    BY <1>1, <1>4, Zenon DEF ZoneInv, TypeOK, NodeInv, AddressInv
<1>6. CASE Left(ip, now)
  <2>1. CASE n1 = n0
      BY <1>1, <1>2, <1>3, <1>5, <1>6, <2>1, Zenon DEF Left
  <2>2. CASE n1 # n0
    <3>1. /\ n1 = NoNode /\ p = q /\ n0 # NoNode
          /\ n0.window_start + Conf[l].window <= now
        BY <1>1, <1>2, <1>6, <2>2, Zenon DEF Left, Over
    <3>2. n0 \in Node /\ n0.window_start \in Nat
        BY <1>5, <3>1 DEF Node
    <3>3. n0.window_start + Conf[l].window <= at
        BY <1>4, <3>1, <3>2, Ranges
    <3>4. Address(NoNode, q, l, at)
        BY <1>4, <1>5, <3>1, <3>2, <3>3, EvictedAddress, Zenon
    <3> QED  BY <1>2, <1>3, <3>1, <3>4, Zenon
  <2> QED  BY <2>1, <2>2
<1>7. CASE Counted(ip, now, m)
  <2>1. PICK n \in Node :
            /\ n = NodeOf(ip, now)
            /\ node'[ip] = Charge(n, now, Conf[m])
            /\ recent'[ip] =
                  IF node'[ip].count >= Conf[m].limit THEN << >>
                  ELSE Append(Without(recent[ip],
                                      0..(clock - (Conf[m].window - MaxLag))),
                              clock)
      BY <1>7, Zenon DEF Counted
  <2>2. /\ BaseOf(n, n0, now) /\ OneMoreOn(n1, n, now, m)
        /\ Follows(p, q, n1, m, at)
      BY <1>1, <1>2, <2>1, Zenon DEF NodeOf, BaseOf, OneMoreOn, Follows
  <2>3. Address(n1, p, m, at)
      BY <1>4, <1>5, <2>2, CountedAddress, Zenon
  <2>4. Address(n1, p, l, at)
      BY <1>4, <2>3, Alike, Zenon
  <2> QED  BY <1>2, <1>3, <2>4, Zenon
<1>8. CASE Forgiven(ip)
    BY <1>3, <1>4, <1>8, Blank, Zenon DEF Forgiven
<1> QED  BY <1>1, <1>3, <1>6, <1>7, <1>8, Zenon DEF Recorded

\* The inductive invariant, for locations that count alike.
LEMMA Invariance == CountAlike => (Spec => []IInv)
<1> SUFFICES ASSUME CountAlike
             PROVE  Spec => []IInv
    OBVIOUS
<1>1. Init => AddressInv
  <2> SUFFICES ASSUME Init, NEW ip \in IPs, NEW l \in Locations
               PROVE  Address(node[ip], recent[ip], l, clock)
      BY Zenon DEF AddressInv
  <2>1. node[ip] = NoNode /\ recent[ip] = << >> /\ clock = 1 /\ 1 \in Nat
      BY DEF Init
  <2> QED  BY <2>1, Blank, Zenon
<1>2. ASSUME ZoneInv, AddressInv, [Next]_vars
      PROVE  AddressInv'
  <2> SUFFICES ASSUME NEW ip \in IPs, NEW l \in Locations
               PROVE  Address(node'[ip], recent'[ip], l, clock')
      BY Zenon DEF AddressInv
  <2>1. CASE Outside
    <3>1. PICK n, q, now, at : /\ n = node[ip] /\ q = recent[ip]
                               /\ now = clock /\ at = clock'
        BY Zenon
    <3>2. /\ node'[ip] = n /\ recent'[ip] = q
          /\ at \in Nat /\ now <= at
        BY <1>2, <2>1, <3>1, OutsideStep, Zenon
    <3>3. n \in Node \cup {NoNode} /\ now \in Nat /\ Address(n, q, l, now)
        BY <1>2, <3>1, Zenon DEF ZoneInv, TypeOK, AddressInv
    <3>4. Address(n, q, l, at)
        BY <3>2, <3>3, Later, Zenon
    <3> QED  BY <3>1, <3>2, <3>4, Zenon
  <2>2. CASE Restart
    <3>1. /\ node'[ip] = NoNode /\ recent'[ip] = << >>
          /\ clock' = clock /\ clock \in Nat
        BY <1>2, <2>2, RestartStep, Zenon DEF ZoneInv, TypeOK
    <3> QED  BY <3>1, Blank, Zenon
  <2>3. ASSUME NEW r \in Requests, Record(r)
        PROVE  Address(node'[ip], recent'[ip], l, clock')
      BY <1>2, <2>3, RecordedAddress, Zenon
  <2> QED  BY <1>2, <2>1, <2>2, <2>3, Steps, Zenon
<1>3. ZoneInv /\ AddressInv /\ [Next]_vars => AddressInv'
    BY <1>2, Zenon
<1>4. ZoneInv /\ AddressInv => IInv
    BY InvOf, Zenon
<1> QED  BY <1>1, <1>3, <1>4, ZoneInvariance, PTL DEF Spec

-----------------------------------------------------------------------------
(* Bans.                                                                    *)

\* A failure is counted: its location bans from now on, or had the ban that
\* was there already.
LEMMA CountedBan ==
    ASSUME NEW l \in Locations, NEW n0 \in Node \cup {NoNode},
           NEW now \in Nat, NEW at \in Nat, now <= at, at <= now + MaxLag,
           BanOf(n0, at), n0 # NoNode => n0.window_start <= at,
           NEW n \in Node, BaseOf(n, n0, now),
           NEW c, OneMoreOn(c, n, now, l)
    PROVE  BanOf(c, at)
<1>1. /\ c \in Node /\ c # NoNode
      /\ c.window_start = now \/ c.window_start = n.window_start
      /\ c.banned_until = IF c.count >= Conf[l].limit
                              THEN now + Conf[l].ban_time
                              ELSE n.banned_until
    BY ChargeOf
<1>2. /\ n.window_start \in Nat /\ n.banned_until \in Nat
      /\ c.window_start \in Nat /\ c.banned_until \in Nat
    BY <1>1 DEF Node
<1>3. n.window_start <= at /\ \E m \in Locations :
         n.banned_until <= at + Conf[m].ban_time
  <2>1. CASE n0 = NoNode
    <3>1. n.window_start = now /\ n.banned_until = 0
        BY <2>1 DEF BaseOf, NewNode
    <3>2. 0 <= at + Conf[l].ban_time
        BY Ranges
    <3> QED  BY <3>1, <3>2, Zenon
  <2>2. CASE n0 # NoNode
      BY <2>2, Zenon DEF BaseOf, BanOf
  <2> QED  BY <2>1, <2>2, Zenon
<1>4. CASE c.count >= Conf[l].limit
  <2>1. /\ c.banned_until <= at + Conf[l].ban_time
        /\ c.banned_until + MaxLag >= c.window_start + Conf[l].ban_time
      BY <1>1, <1>2, <1>3, <1>4, Ranges, SMTT(30)
  <2> QED  BY <2>1, Zenon DEF BanOf
<1>5. CASE ~(c.count >= Conf[l].limit)
    BY <1>1, <1>3, <1>5, Zenon DEF BanOf
<1> QED  BY <1>4, <1>5, Zenon

\* Every recorded request leaves every ban as BanOf says.
LEMMA RecordedBan ==
    ASSUME ZoneInv, BanInv, NEW r \in Requests, Record(r), NEW ip \in IPs
    PROVE  BanOf(node'[ip], clock')
<1>1. PICK now, m, at, n0, n1 :
         /\ now = time[req[r].worker] /\ m = req[r].loc
         /\ at = clock /\ n0 = node[ip] /\ n1 = node'[ip]
    BY Zenon
<1>2. Recorded(ip, r) /\ req[r] # NoReq /\ clock' = at
    BY <1>1, RecordStep, Zenon
<1>3. /\ m \in Locations /\ now \in Nat /\ at \in Nat
      /\ now <= at /\ at <= now + MaxLag
    BY <1>1, <1>2, InHand, Zenon
<1>4. /\ n0 \in Node \cup {NoNode} /\ BanOf(n0, at)
      /\ n0 # NoNode => n0.window_start <= at
    BY <1>1, Zenon DEF ZoneInv, TypeOK, NodeInv, BanInv
<1>5. CASE n1 = n0 \/ n1 = NoNode
    BY <1>1, <1>2, <1>4, <1>5, Zenon DEF BanOf
<1>6. CASE Counted(ip, now, m)
  <2>1. PICK n \in Node : /\ n = NodeOf(ip, now)
                          /\ node'[ip] = Charge(n, now, Conf[m])
      BY <1>6, Zenon DEF Counted
  <2>2. BaseOf(n, n0, now) /\ OneMoreOn(n1, n, now, m)
      BY <1>1, <2>1, Zenon DEF NodeOf, BaseOf, OneMoreOn
  <2>3. BanOf(n1, at)
      BY <1>3, <1>4, <2>2, CountedBan, Zenon
  <2> QED  BY <1>1, <1>2, <2>3, Zenon
<1>7. Left(ip, now) \/ Forgiven(ip) => n1 = n0 \/ n1 = NoNode
    BY <1>1, Zenon DEF Left, Forgiven
<1> QED  BY <1>1, <1>2, <1>5, <1>6, <1>7, Zenon DEF Recorded

\* Bans are as BanOf says, however the locations are configured.
LEMMA BanInvariance == Spec => [](ZoneInv /\ BanInv)
<1>1. Init => BanInv
    BY Zenon DEF Init, BanInv, BanOf
<1>2. ASSUME ZoneInv, BanInv, [Next]_vars
      PROVE  BanInv'
  <2> SUFFICES ASSUME NEW ip \in IPs
               PROVE  BanOf(node'[ip], clock')
      BY Zenon DEF BanInv
  <2>1. CASE Outside
    <3>1. PICK n, now, at : n = node[ip] /\ now = clock /\ at = clock'
        BY Zenon
    <3>2. node'[ip] = n /\ at \in Nat /\ now <= at
        BY <1>2, <2>1, <3>1, OutsideStep, Zenon
    <3>3. n \in Node \cup {NoNode} /\ now \in Nat /\ BanOf(n, now)
        BY <1>2, <3>1, Zenon DEF ZoneInv, TypeOK, BanInv
    <3>4. ASSUME n # NoNode
          PROVE  \E l \in Locations : n.banned_until <= at + Conf[l].ban_time
      <4>1. PICK l \in Locations : n.banned_until <= now + Conf[l].ban_time
          BY <3>3, <3>4, Zenon DEF BanOf
      <4>2. n.banned_until \in Nat
          BY <3>3, <3>4 DEF Node
      <4>3. n.banned_until <= at + Conf[l].ban_time
          BY <3>2, <3>3, <4>1, <4>2, Ranges
      <4> QED  BY <4>3, Zenon
    <3>5. BanOf(n, at)
        BY <3>3, <3>4, Zenon DEF BanOf
    <3> QED  BY <3>1, <3>2, <3>5, Zenon
  <2>2. CASE Restart
    <3>1. node'[ip] = NoNode
        BY <1>2, <2>2, RestartStep, Zenon DEF ZoneInv, TypeOK
    <3> QED  BY <3>1, Zenon DEF BanOf
  <2>3. ASSUME NEW r \in Requests, Record(r)
        PROVE  BanOf(node'[ip], clock')
      BY <1>2, <2>3, RecordedBan, Zenon
  <2> QED  BY <1>2, <2>1, <2>2, <2>3, Steps, Zenon
<1>3. ZoneInv /\ BanInv /\ [Next]_vars => BanInv'
    BY <1>2, Zenon
<1> QED  BY <1>1, <1>3, ZoneInvariance, PTL DEF Spec

\* No interleaving of recorders loses a ban, however the locations differ: an
\* address over every limit is banned for some location's ban_time from the
\* start of its window, up to the lag between two workers' clocks.
THEOREM LimitMeansBan == Spec => []OverLimitIsBanned
<1>1. BanInv => OverLimitIsBanned
    BY Zenon DEF BanInv, BanOf, OverLimitIsBanned
<1> QED  BY <1>1, BanInvariance, PTL

\* A ban in force survives every eviction and new window, for locations of any
\* limits, windows and ban times: only a failure recorded by a location with a
\* shorter ban_time than another's brings its end forward by more than the lag
\* between two workers' clocks, and then the address is still banned for that
\* ban_time from now.
THEOREM BansLast == Spec => BanNotShortened
<1>1. ASSUME ZoneInv, BanInv, [Next]_vars, NEW ip \in IPs,
             Banned(ip, clock), ~Cleared(ip)
      PROVE  /\ node'[ip] # NoNode
             /\ \/ node'[ip].banned_until + MaxLag >= node[ip].banned_until
                \/ Curtailed(ip)
  <2>1. PICK n0, at : n0 = node[ip] /\ at = clock
      BY Zenon
  <2>2. /\ n0 \in Node /\ n0 # NoNode /\ at \in Nat
        /\ n0.banned_until > at
      BY <1>1, <2>1, Zenon DEF ZoneInv, TypeOK, Banned
  <2>3. n0.banned_until \in Nat /\ MaxLag \in Nat
      BY <2>2, ConfAssumption DEF Node
  <2>4. CASE node'[ip] = node[ip]
    <3>1. n0.banned_until + MaxLag >= n0.banned_until
        BY <2>3
    <3> QED  BY <2>1, <2>2, <2>4, <3>1, Zenon
  <2>5. CASE node'[ip] # node[ip]
    <3>1. ~Restart /\ ~Outside
        BY <1>1, <2>2, <2>5, OutsideStep, Zenon DEF Cleared
    <3>2. PICK r \in Requests : Record(r)
        BY <1>1, <3>1, Steps, Zenon
    <3>3. PICK now, l : now = time[req[r].worker] /\ l = req[r].loc
        BY Zenon
    <3>4. Recorded(ip, r) /\ req[r] # NoReq
        BY <1>1, <3>2, RecordStep, Zenon
    <3>5. /\ l \in Locations /\ now \in Nat /\ now <= at
          /\ at <= now + MaxLag
        BY <1>1, <2>1, <3>3, <3>4, InHand, ZenonT(40)
    <3>6. ~Left(ip, now)
      <4>1. ~(n0.banned_until <= now)
          BY <2>2, <2>3, <3>5
      <4> QED  BY <2>1, <2>5, <4>1, Zenon DEF Left, Over
    <3>7. ~(ip = req[r].ip /\ RecordSuccess(r))
        BY <1>1, <3>2, Zenon DEF Cleared
    <3>8. Counted(ip, now, l) /\ ip = req[r].ip
        BY <3>3, <3>4, <3>6, <3>7, Zenon DEF Recorded
    <3>9. PICK c : c = node'[ip] /\ OneMoreOn(c, n0, now, l)
        BY <2>1, <2>2, <3>8, Zenon DEF Counted, NodeOf, OneMoreOn
    <3>10. /\ c # NoNode
           /\ c.banned_until = IF c.count >= Conf[l].limit
                                   THEN now + Conf[l].ban_time
                                   ELSE n0.banned_until
        BY <2>2, <3>5, <3>9, ChargeOf
    <3>11. PICK m \in Locations : n0.banned_until <= at + Conf[m].ban_time
        BY <1>1, <2>1, <2>2, Zenon DEF BanInv, BanOf
    <3>12. CASE ~(Conf[l].ban_time < Conf[m].ban_time)
      <4>1. c.banned_until + MaxLag >= n0.banned_until
          BY <2>2, <2>3, <3>5, <3>10, <3>11, <3>12, Ranges, SMTT(30)
      <4> QED  BY <2>1, <3>9, <3>10, <4>1, Zenon
    <3>13. CASE Conf[l].ban_time < Conf[m].ban_time
      <4>1. CASE c.count >= Conf[l].limit
        <5>1. c.banned_until + MaxLag >= at + Conf[l].ban_time
            BY <2>2, <2>3, <3>5, <3>10, <4>1, Ranges, SMTT(30)
        <5>2. FailKnown(r)
            BY <2>1, <2>2, <3>2, <3>7, <3>8, Zenon
               DEF Record, FailNew, FailSkipped
        <5>3. Curtailed(ip)
            BY <2>1, <3>3, <3>4, <3>8, <3>9, <3>13, <5>1, <5>2, ZenonT(40)
               DEF Curtailed
        <5> QED  BY <3>9, <3>10, <5>3, Zenon
      <4>2. CASE ~(c.count >= Conf[l].limit)
        <5>1. c.banned_until + MaxLag >= n0.banned_until
            BY <2>3, <3>10, <4>2
        <5> QED  BY <2>1, <3>9, <3>10, <5>1, Zenon
      <4> QED  BY <4>1, <4>2
    <3> QED  BY <3>12, <3>13
  <2> QED  BY <2>4, <2>5
<1>2. ZoneInv /\ BanInv /\ [Next]_vars =>
        [\A ip \in IPs : Banned(ip, clock) /\ ~Cleared(ip) =>
            /\ node'[ip] # NoNode
            /\ \/ node'[ip].banned_until + MaxLag >= node[ip].banned_until
               \/ Curtailed(ip)]_vars
    BY <1>1, Zenon
<1> QED  BY <1>2, BanInvariance, PTL DEF Spec, BanNotShortened

-----------------------------------------------------------------------------
\* Where all locations have one limit and one window, at most 2 * limit - 3
\* failures of an address are counted within one window's length, less the lag,
\* before it is banned (limit - 1 if that is more): two windows share a burst,
\* and the first failure of the earlier one is out.  Failures that record() does
\* not count, because the zone is full, are not part of it.
THEOREM BurstsBounded == CountAlike => (Spec => []BurstBound)
<1>1. IInv => BurstBound
  <2> SUFFICES ASSUME IInv, NEW ip \in IPs, NEW l \in Locations
               PROVE  InSpan(ip, Conf[l].window - MaxLag)
                        <= Max(Conf[l].limit - 1, 2 * Conf[l].limit - 3)
      BY Zenon DEF BurstBound
  <2> DEFINE q == recent[ip]
             late == {i \in DOMAIN q : q[i] > clock - (Conf[l].window - MaxLag)}
             most == Max(Conf[l].limit - 1, 2 * Conf[l].limit - 3)
  <2>1. q \in Seq(Nat) /\ Len(q) <= most
      BY Zenon DEF IInv, BurstInv, History, Chronicle
  <2>2. Len(q) \in Nat /\ late \subseteq 1..Len(q) /\ most \in Int
    <3>1. Len(q) \in Nat /\ DOMAIN q = 1..Len(q)
        BY <2>1
    <3>2. most \in Int
        BY Ranges DEF Max
    <3> QED  BY <3>1, <3>2, Zenon
  <2>3. InSpan(ip, Conf[l].window - MaxLag) = Cardinality(late)
      BY Zenon DEF InSpan
  <2> HIDE DEF q, late, most
  <2>4. IsFiniteSet(1..Len(q)) /\ Cardinality(1..Len(q)) = Len(q)
      BY <2>2, FS_Interval, SMTT(30)
  <2>5. /\ Cardinality(late) <= Len(q) /\ Cardinality(late) \in Nat
      BY <2>2, <2>4, FS_Subset, FS_CardinalityType, ZenonT(40)
  <2>6. Cardinality(late) <= most
      BY <2>1, <2>2, <2>5
  <2> QED  BY <2>3, <2>6, Zenon DEF most
<1> QED  BY <1>1, Invariance, PTL
=============================================================================
