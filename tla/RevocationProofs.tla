-------------------------- MODULE RevocationProofs --------------------------
(***************************************************************************)
(* Proofs about the cached revocation list, for any number of workers, any *)
(* keys and contents of the file, and any size limit.                      *)
(*                                                                         *)
(* The argument is about time.  A cached copy is stat'ed no earlier than   *)
(* the second of its mtime.  If it was stat'ed later than that, an edit    *)
(* after the stat gives the file another mtime: a copy that still has the  *)
(* file's mtime has its lines (CacheInv).  CheckInv is the same fact about *)
(* a copy that is still being read.                                        *)
(***************************************************************************)
EXTENDS Revocation, TLAPS, SequenceTheorems

Lines == Seq(Keys \cup {Comment})

CacheRec ==
    [loaded : BOOLEAN, lines : Lines, mtime : 0..MaxClock, at : 0..MaxClock]

CheckRec ==
    [pc : Pc, key : Keys, mtime : 0..MaxClock, size : Nat, at : 0..MaxClock,
     read : BOOLEAN, always : BOOLEAN, ever : BOOLEAN, edited : BOOLEAN]

\* The types, with the domains that TypeOK leaves out.
TypeInv ==
    /\ clock \in 1..MaxClock
    /\ file \in [state : {"ok", "unreadable", "missing"}, lines : Lists,
                 mtime : 1..MaxClock]
    /\ cache \in [Workers -> CacheRec]
    /\ check \in [Workers -> CheckRec]

\* A copy that was stat'ed after the second of its mtime is the file, as long
\* as the file has that mtime.
CacheOK(c) ==
    /\ c.mtime <= c.at /\ c.at <= clock
    /\ c.loaded /\ c.at # c.mtime /\ c.mtime = file.mtime
          => c.lines = file.lines
    /\ MaxSize # 0 => Len(c.lines) <= MaxSize

\* A reload that is under way, and what is known when an edit overlaps it.
ReloadOK(c) ==
    /\ c.mtime <= c.at /\ c.at <= clock
    /\ IF c.edited THEN c.at <= file.mtime
       ELSE c.mtime = file.mtime /\ c.size = Len(file.lines)
    /\ c.always => Listed(file.lines, c.key)
    /\ Listed(file.lines, c.key) => c.ever
    /\ ~c.read

CacheInv == file.mtime <= clock /\ \A w \in Workers : CacheOK(cache[w])

CheckInv ==
    \A w \in Workers : check[w].pc \in Loading => ReloadOK(check[w])

\* WrongOnlyByRace, of one check c and its worker's copy k.
RaceOK(c, k) ==
    c.pc \in {"passed", "refused"} /\ c.read =>
        \/ k.at = k.mtime
        \/ /\ c.pc = "passed" => ~c.always \/ c.edited
           /\ c.pc = "refused" => c.ever

\* FailsClosed, of the same.
ClosedOK(c, k) ==
    ~FailOpen /\ c.pc = "passed" =>
        k.loaded /\ k.mtime = c.mtime /\ ~Listed(k.lines, c.key)

VerdictOK(c, k) == RaceOK(c, k) /\ ClosedOK(c, k)

VerdictInv == \A w \in Workers : VerdictOK(check[w], cache[w])

IInv == TypeInv /\ CacheInv /\ CheckInv /\ VerdictInv

-----------------------------------------------------------------------------
(* The operator and the clock.                                             *)

\* Time passes: a copy that was stat'ed by now was stat'ed by then.
LEMMA TickStep ==
    ASSUME IInv, Tick
    PROVE  IInv'
<1>1. /\ clock' = clock + 1 /\ clock < MaxClock
      /\ file' = file /\ cache' = cache /\ check' = check
  BY Zenon DEF Tick
<1>2. TypeInv'
  BY <1>1, RevocationAssumption DEF IInv, TypeInv
<1>3. /\ clock \in Nat /\ file.mtime \in Nat
      /\ \A w \in Workers : cache[w].at \in Nat /\ check[w].at \in Nat
  BY RevocationAssumption DEF IInv, TypeInv, CacheRec, CheckRec
<1>4. CacheInv'
  BY <1>1, <1>3 DEF IInv, CacheInv, CacheOK
<1>5. CheckInv' /\ VerdictInv'
  BY <1>1, <1>3 DEF IInv, CheckInv, ReloadOK, VerdictInv, VerdictOK, RaceOK,
     ClosedOK
<1> QED BY <1>2, <1>4, <1>5, Zenon DEF IInv

\* An edit gives the file the mtime of the present second: no copy stat'ed
\* after the second of its own mtime has that one.
LEMMA EditStep ==
    ASSUME IInv, NEW l \in Lists, Edit(l)
    PROVE  IInv'
<1> DEFINE edited(c) == [c EXCEPT
                           !.always = @ /\ Listed(l, c.key),
                           !.ever = @ \/ Listed(l, c.key),
                           !.edited = TRUE]
<1>1. /\ clock' = clock /\ cache' = cache
      /\ file' = [file EXCEPT !.lines = l, !.mtime = clock]
      /\ check' = [w \in Workers |-> IF check[w].pc \in Loading
                                       THEN edited(check[w]) ELSE check[w]]
  BY Zenon DEF Edit
<1>2. /\ file' \in [state : {"ok", "unreadable", "missing"}, lines : Lists,
                    mtime : 1..MaxClock]
      /\ file'.lines = l /\ file'.mtime = clock
  BY <1>1, Zenon DEF IInv, TypeInv
<1>3. ASSUME NEW c \in CheckRec
      PROVE  /\ edited(c) \in CheckRec
             /\ edited(c).pc = c.pc /\ edited(c).key = c.key
             /\ edited(c).mtime = c.mtime /\ edited(c).at = c.at
             /\ edited(c).always => Listed(l, c.key)
             /\ Listed(l, c.key) => edited(c).ever
             /\ edited(c).edited /\ edited(c).read = c.read
  <2> DEFINE a == c.always /\ Listed(l, c.key)
             e == c.ever \/ Listed(l, c.key)
             d == [c EXCEPT !.always = a, !.ever = e, !.edited = TRUE]
  <2>1. a \in BOOLEAN /\ e \in BOOLEAN
    BY Zenon
  <2>2. edited(c) = d
    BY Zenon
  <2>3. (a => Listed(l, c.key)) /\ (Listed(l, c.key) => e)
    BY Zenon
  <2> HIDE DEF a, e, edited
  <2>4. /\ d \in CheckRec /\ d.pc = c.pc /\ d.key = c.key
        /\ d.mtime = c.mtime /\ d.at = c.at /\ d.always = a /\ d.ever = e
        /\ d.edited = TRUE /\ d.read = c.read
    BY <2>1, Zenon DEF CheckRec
  <2> QED BY <2>2, <2>3, <2>4, Zenon
<1> HIDE DEF edited
<1>4. TypeInv'
  BY <1>1, <1>2, <1>3, Zenon DEF IInv, TypeInv
<1>5. /\ clock \in Nat /\ file.mtime \in Nat
      /\ \A w \in Workers : cache[w].at \in Nat /\ cache[w].mtime \in Nat
                               /\ check[w].at \in Nat /\ check[w] \in CheckRec
  BY RevocationAssumption DEF IInv, TypeInv, CacheRec, CheckRec
<1>6. CacheInv'
  BY <1>1, <1>2, <1>5 DEF IInv, CacheInv, CacheOK
<1>7. ASSUME NEW w \in Workers
      PROVE  /\ (check[w].pc \in Loading => ReloadOK(check[w]))'
             /\ VerdictOK(check[w], cache[w])'
  <2>1. CASE check[w].pc \in Loading
    <3>1. check'[w] = edited(check[w]) /\ check[w] \in CheckRec
      BY <1>1, <1>5, <2>1, Zenon
    <3>2. ReloadOK(check[w])'
      BY <1>1, <1>2, <1>3, <1>5, <2>1, <3>1, Zenon DEF IInv, CheckInv, ReloadOK
    <3>3. VerdictOK(check[w], cache[w])'
      BY <1>3, <2>1, <3>1, Zenon DEF VerdictOK, RaceOK, ClosedOK, Loading
    <3> QED BY <3>2, <3>3, Zenon
  <2>2. CASE check[w].pc \notin Loading
    BY <1>1, <2>2, Zenon DEF IInv, VerdictInv, VerdictOK, RaceOK, ClosedOK
  <2> QED BY <2>1, <2>2, Zenon
<1> QED BY <1>4, <1>6, <1>7, Zenon DEF IInv, CheckInv, VerdictInv

\* The file goes away or comes back with the mtime and the lines it had.
LEMMA AccessStep ==
    ASSUME IInv, NEW state \in {"ok", "unreadable", "missing"}, Access(state)
    PROVE  IInv'
<1>1. /\ clock' = clock /\ cache' = cache /\ check' = check
      /\ file' \in [state : {"ok", "unreadable", "missing"}, lines : Lists,
                    mtime : 1..MaxClock]
      /\ file'.lines = file.lines /\ file'.mtime = file.mtime
  BY Zenon DEF Access, IInv, TypeInv
<1>2. TypeInv'
  BY <1>1, Zenon DEF IInv, TypeInv
<1> QED
  BY <1>1, <1>2, ZenonT(40) DEF IInv, CacheInv, CacheOK, CheckInv, ReloadOK,
     VerdictInv, VerdictOK, RaceOK, ClosedOK

-----------------------------------------------------------------------------
(* is_revoked.                                                             *)

\* The invariant after a step that changes only w's check.
LEMMA OneCheck ==
    ASSUME IInv, NEW w \in Workers, NEW c \in CheckRec,
           check' = [check EXCEPT ![w] = c], UNCHANGED <<clock, file, cache>>,
           c.pc \in Loading => ReloadOK(c), VerdictOK(c, cache[w])
    PROVE  IInv'
<1>1. /\ check' \in [Workers -> CheckRec] /\ check'[w] = c
      /\ \A v \in Workers \ {w} : check'[v] = check[v]
  BY Zenon DEF IInv, TypeInv
<1>2. TypeInv' /\ CacheInv'
  BY <1>1, Zenon DEF IInv, TypeInv, CacheInv, CacheOK
<1>3. CheckInv'
  BY <1>1, Zenon DEF IInv, CheckInv, ReloadOK
<1>4. VerdictInv'
  BY <1>1, Zenon DEF IInv, VerdictInv, VerdictOK, RaceOK, ClosedOK
<1> QED BY <1>2, <1>3, <1>4, Zenon DEF IInv

\* A check as it starts.
LEMMA Started ==
    ASSUME IInv, NEW w \in Workers, NEW k \in Keys, NEW pc \in Pc
    PROVE  LET c == Start(w, k, pc)
           IN /\ c \in CheckRec /\ c.pc = pc /\ c.key = k /\ c.at = clock
              /\ ~c.read /\ ~c.edited
              /\ c.always = Listed(file.lines, k)
              /\ c.ever = Listed(file.lines, k)
<1> DEFINE listed == Listed(file.lines, k)
<1>1. listed \in BOOLEAN /\ clock \in 0..MaxClock /\ 0 \in 0..MaxClock
  BY RevocationAssumption DEF Listed, IInv, TypeInv
<1> HIDE DEF listed
<1>2. Start(w, k, pc) =
        [pc |-> pc, key |-> k, mtime |-> 0, size |-> 0, at |-> clock,
         read |-> FALSE, always |-> listed, ever |-> listed,
         edited |-> FALSE]
  BY Zenon DEF Start, listed
<1> QED BY <1>1, <1>2 DEF CheckRec, listed

\* The stat fails: the policy decides, and no list was read.
LEMMA StatFailsStep ==
    ASSUME IInv, NEW w \in Workers, NEW k \in Keys, StatFails(w, k)
    PROVE  IInv'
<1> DEFINE c == Start(w, k, Denial)
<1>1. /\ Denial \in Pc /\ Denial \notin Loading
      /\ Denial = "passed" => FailOpen
  BY Zenon DEF Denial, Pc, Loading
<1>2. c \in CheckRec /\ c.pc = Denial /\ ~c.read
  BY <1>1, Started, Zenon
<1>3. check' = [check EXCEPT ![w] = c] /\ UNCHANGED <<clock, file, cache>>
  BY Zenon DEF StatFails
<1> HIDE DEF c
<1> QED BY <1>1, <1>2, <1>3, OneCheck, Zenon DEF VerdictOK, RaceOK, ClosedOK

\* The same for a reload that fails; the cache is left alone.
LEMMA ReloadFailsStep ==
    ASSUME IInv, NEW w \in Workers, ReloadFails(w)
    PROVE  IInv'
<1> DEFINE c == [check[w] EXCEPT !.pc = Denial]
<1>1. /\ Denial \in Pc /\ Denial \notin Loading
      /\ Denial = "passed" => FailOpen
  BY Zenon DEF Denial, Pc, Loading
<1>2. check' = [check EXCEPT ![w] = c] /\ UNCHANGED <<clock, file, cache>>
  BY Zenon DEF ReloadFails, IInv, TypeInv
<1>3. check[w] \in CheckRec /\ check[w].pc \in Loading
  BY Zenon DEF ReloadFails, IInv, TypeInv
<1>4. /\ c \in CheckRec /\ c.pc = Denial /\ c.read = check[w].read
      /\ c.always = check[w].always /\ c.edited = check[w].edited
      /\ c.ever = check[w].ever
  BY <1>1, <1>3, Zenon DEF CheckRec
<1> HIDE DEF c
<1>5. ~check[w].read
  BY <1>3, Zenon DEF IInv, CheckInv, ReloadOK
<1> QED BY <1>1, <1>2, <1>4, <1>5, OneCheck, Zenon
        DEF VerdictOK, RaceOK, ClosedOK

\* The file is opened: what the stat said still goes with the read to come.
LEMMA OpenListStep ==
    ASSUME IInv, NEW w \in Workers, OpenList(w)
    PROVE  IInv'
<1> DEFINE c == [check[w] EXCEPT !.pc = "open"]
<1>1. check' = [check EXCEPT ![w] = c] /\ UNCHANGED <<clock, file, cache>>
  BY Zenon DEF OpenList, IInv, TypeInv
<1>2. check[w] \in CheckRec /\ check[w].pc \in Loading
  BY Zenon DEF OpenList, IInv, TypeInv, Loading
<1>3. /\ c \in CheckRec /\ c.pc = "open" /\ c.read = check[w].read
      /\ c.always = check[w].always /\ c.edited = check[w].edited
      /\ c.ever = check[w].ever /\ c.mtime = check[w].mtime
      /\ c.at = check[w].at /\ c.size = check[w].size
      /\ c.key = check[w].key
  BY <1>2, Zenon DEF CheckRec, Pc, Loading
<1> HIDE DEF c
<1>4. ReloadOK(c)
  BY <1>2, <1>3, Zenon DEF IInv, CheckInv, ReloadOK
<1>5. VerdictOK(c, cache[w])
  BY <1>3, Zenon DEF VerdictOK, RaceOK, ClosedOK
<1> QED BY <1>1, <1>3, <1>4, <1>5, OneCheck, Zenon

\* The cached copy decides.  It is the file, unless it was stat'ed in the
\* second of its mtime.
LEMMA CheckCachedStep ==
    ASSUME IInv, NEW w \in Workers, NEW k \in Keys, CheckCached(w, k)
    PROVE  IInv'
<1> DEFINE pc == Scan(cache[w].lines, k)
           s == Start(w, k, pc)
           m == file.mtime
           c == [s EXCEPT !.mtime = m, !.read = TRUE]
<1>1. /\ pc \in Pc /\ pc \notin Loading
      /\ pc = "passed" <=> ~Listed(cache[w].lines, k)
  BY Zenon DEF Scan, Pc, Loading
<1>2. check' = [check EXCEPT ![w] = c] /\ UNCHANGED <<clock, file, cache>>
  BY Zenon DEF CheckCached
<1>3. cache[w].loaded /\ cache[w].mtime = m
  BY Zenon DEF CheckCached, Current
<1>4. cache[w].at # cache[w].mtime => cache[w].lines = file.lines
  BY <1>3, Zenon DEF IInv, CacheInv, CacheOK
<1>5. m \in 0..MaxClock
  BY DEF IInv, TypeInv
<1> HIDE DEF pc, m
<1>6. /\ s \in CheckRec /\ s.pc = pc /\ s.always = Listed(file.lines, k)
      /\ s.ever = Listed(file.lines, k) /\ s.key = k
  BY <1>1, Started, Zenon
<1> HIDE DEF s
<1>7. /\ c \in CheckRec /\ c.pc = s.pc /\ c.always = s.always
      /\ c.ever = s.ever /\ c.key = s.key /\ c.mtime = m
  BY <1>5, <1>6, Zenon DEF CheckRec
<1> HIDE DEF c
<1>8. VerdictOK(c, cache[w])
  BY <1>1, <1>3, <1>4, <1>6, <1>7, Zenon DEF VerdictOK, RaceOK, ClosedOK
<1> QED BY <1>1, <1>2, <1>6, <1>7, <1>8, OneCheck, Zenon

\* The stat of a reload.
LEMMA BeginReloadStep ==
    ASSUME IInv, NEW w \in Workers, NEW k \in Keys, BeginReload(w, k)
    PROVE  IInv'
<1> DEFINE s == Start(w, k, "reload")
           m == file.mtime
           n == Len(file.lines)
           c == [s EXCEPT !.mtime = m, !.size = n]
<1>1. check' = [check EXCEPT ![w] = c] /\ UNCHANGED <<clock, file, cache>>
  BY Zenon DEF BeginReload
<1>2. m \in 0..MaxClock /\ n \in Nat /\ m <= clock
  <2>1. file.lines \in Lines
    BY RevocationAssumption, Zenon DEF IInv, TypeInv, Lines
  <2> QED BY <2>1 DEF IInv, TypeInv, CacheInv, Lines
<1>3. /\ s \in CheckRec /\ s.pc = "reload" /\ s.key = k /\ s.at = clock
      /\ ~s.read /\ ~s.edited /\ s.always = Listed(file.lines, k)
      /\ s.ever = Listed(file.lines, k)
  <2>1. "reload" \in Pc
    BY DEF Pc, Loading
  <2> QED BY <2>1, Started, ZenonT(40)
<1> HIDE DEF s, m, n
<1>4. /\ c \in CheckRec /\ c.pc = s.pc /\ c.key = s.key /\ c.at = s.at
      /\ c.read = s.read /\ c.edited = s.edited /\ c.always = s.always
      /\ c.ever = s.ever /\ c.mtime = m /\ c.size = n
  BY <1>2, <1>3, Zenon DEF CheckRec
<1> HIDE DEF c
<1>5. clock \in Nat
  BY DEF IInv, TypeInv
<1>6. ReloadOK(c)
  BY <1>2, <1>3, <1>4, <1>5 DEF ReloadOK, m, n
<1>7. VerdictOK(c, cache[w])
  BY <1>3, <1>4, Zenon DEF VerdictOK, RaceOK, ClosedOK
<1> QED BY <1>1, <1>4, <1>6, <1>7, OneCheck, Zenon

\* What a reload reads is a prefix of the file: no line that is not there, no
\* more than was stat'ed, and all of it when the size is still right.
LEMMA ContentIsPrefix ==
    ASSUME TypeInv, NEW w \in Workers
    PROVE  /\ Content(w) \in Lines /\ Len(Content(w)) <= check[w].size
           /\ Range(Content(w)) \subseteq Range(file.lines)
           /\ check[w].size = Len(file.lines) => Content(w) = file.lines
<1> DEFINE f == file.lines
           z == check[w].size
           n == IF z < Len(f) THEN z ELSE Len(f)
<1>1. f \in Lines /\ z \in Nat
  BY RevocationAssumption, Zenon DEF TypeInv, CheckRec, Lines
<1>2. Content(w) = SubSeq(f, 1, n)
  BY Zenon DEF Content
<1> HIDE DEF f, z
<1>3. n \in 0..Len(f) /\ n <= z /\ n \in Nat
  BY <1>1 DEF Lines
<1>4. z = Len(f) => n = Len(f)
  BY <1>1, Zenon
<1> HIDE DEF n
<1>5. /\ SubSeq(f, 1, n) \in Lines /\ Len(SubSeq(f, 1, n)) = n
      /\ \A i \in 1..n : SubSeq(f, 1, n)[i] = f[i]
  BY <1>1, <1>3, SubSeqProperties DEF Lines
<1>6. Range(SubSeq(f, 1, n)) \subseteq Range(f)
  <2>1. DOMAIN SubSeq(f, 1, n) = 1..n /\ 1..n \subseteq DOMAIN f
    BY <1>1, <1>3, <1>5 DEF Lines
  <2> QED BY <1>5, <2>1, Zenon DEF Range
<1>7. n = Len(f) => SubSeq(f, 1, n) = f
  BY <1>1, <1>5 DEF Lines
<1> QED BY <1>2, <1>3, <1>4, <1>5, <1>6, <1>7, Zenon DEF f, z

\* The file is read into the cache and decides.
LEMMA ReloadStep ==
    ASSUME IInv, NEW w \in Workers, Reload(w)
    PROVE  IInv'
<1> DEFINE s == check[w]
           t == Content(w)
           pc == Scan(t, s.key)
           c == [s EXCEPT !.pc = pc, !.read = TRUE]
           k == [loaded |-> TRUE, lines |-> t, mtime |-> s.mtime,
                 at |-> s.at]
<1>1. /\ check' = [check EXCEPT ![w] = c] /\ cache' = [cache EXCEPT ![w] = k]
      /\ clock' = clock /\ file' = file /\ s.pc = "open"
      /\ MaxSize # 0 => ~(s.size > MaxSize)
  BY Zenon DEF Reload, TooLarge, IInv, TypeInv
<1>2. s \in CheckRec /\ ReloadOK(s)
  BY <1>1, Zenon DEF IInv, TypeInv, CheckInv, Loading
<1>3. /\ t \in Lines /\ Len(t) <= s.size /\ Range(t) \subseteq Range(file.lines)
      /\ s.size = Len(file.lines) => t = file.lines
  BY ContentIsPrefix, Zenon DEF IInv
<1> HIDE DEF s, t
<1>4. /\ pc \in Pc /\ pc \notin Loading
      /\ pc = "passed" <=> ~Listed(t, s.key)
  BY Zenon DEF Scan, Pc, Loading
<1> HIDE DEF pc
<1>5. /\ c \in CheckRec /\ c.pc = pc /\ c.always = s.always
      /\ c.edited = s.edited /\ c.ever = s.ever
      /\ c.mtime = s.mtime /\ c.key = s.key
  BY <1>2, <1>4, Zenon DEF CheckRec
<1>6. /\ k \in CacheRec /\ k.loaded /\ k.lines = t /\ k.mtime = s.mtime
      /\ k.at = s.at
  BY <1>2, <1>3, Zenon DEF CheckRec, CacheRec
<1> HIDE DEF c, k
<1>7. /\ check' \in [Workers -> CheckRec] /\ check'[w] = c
      /\ cache' \in [Workers -> CacheRec] /\ cache'[w] = k
      /\ \A v \in Workers \ {w} : check'[v] = check[v] /\ cache'[v] = cache[v]
  BY <1>1, <1>5, <1>6, Zenon DEF IInv, TypeInv
<1>8. /\ clock \in Nat /\ file.mtime \in Nat /\ s.at \in Nat /\ s.mtime \in Nat
      /\ s.size \in Nat /\ Len(t) \in Nat /\ MaxSize \in Nat
  BY <1>2, <1>3, RevocationAssumption DEF IInv, TypeInv, CheckRec, Lines
<1>9. CacheOK(k)
  <2>1. s.at # s.mtime /\ s.mtime = file.mtime => t = file.lines
    BY <1>2, <1>3, <1>8 DEF ReloadOK
  <2> QED BY <1>1, <1>2, <1>3, <1>6, <1>8, <2>1 DEF CacheOK, ReloadOK
<1>10. VerdictOK(c, k)
  <2>1. pc = "refused" => c.ever
    BY <1>2, <1>3, <1>4, <1>5, Zenon DEF ReloadOK, Listed
  <2>2. pc = "passed" => ~c.always \/ c.edited
    BY <1>2, <1>3, <1>4, <1>5, Zenon DEF ReloadOK
  <2>3. ClosedOK(c, k)
    BY <1>4, <1>5, <1>6, Zenon DEF ClosedOK
  <2> QED BY <1>4, <1>5, <2>1, <2>2, <2>3, Zenon DEF VerdictOK, RaceOK
<1>11. TypeInv'
  BY <1>1, <1>7, Zenon DEF IInv, TypeInv
<1>12. CacheInv'
  BY <1>1, <1>7, <1>9, Zenon DEF IInv, CacheInv, CacheOK
<1>13. CheckInv'
  BY <1>1, <1>4, <1>5, <1>7, Zenon DEF IInv, CheckInv, ReloadOK
<1>14. VerdictInv'
  BY <1>7, <1>10, Zenon DEF IInv, VerdictInv
<1> QED BY <1>11, <1>12, <1>13, <1>14, Zenon DEF IInv

-----------------------------------------------------------------------------
(* The theorems.                                                           *)

\* The workers start in the invariant, and every step preserves it.
LEMMA Invariance == Spec => []IInv
<1>1. Init => IInv
  <2> SUFFICES ASSUME Init PROVE IInv
    BY Zenon
  <2> DEFINE none == << >>
  <2>1. none \in Lines /\ Len(none) = 0
    BY DEF Lines
  <2> HIDE DEF none
  <2>2. /\ cache = [w \in Workers |-> [loaded |-> FALSE, lines |-> none,
                                       mtime |-> 0, at |-> 0]]
        /\ clock = 1
        /\ \E l \in Lists : file = [state |-> "ok", lines |-> l, mtime |-> 1]
    BY Zenon DEF Init, none
  <2>3. PICK k \in Keys :
           check = [w \in Workers |->
                      [pc |-> "idle", key |-> k, mtime |-> 0, size |-> 0,
                       at |-> 0, read |-> FALSE, always |-> FALSE,
                       ever |-> FALSE, edited |-> FALSE]]
    BY Zenon DEF Init
  <2>4. cache \in [Workers -> CacheRec]
    BY <2>1, <2>2, RevocationAssumption DEF CacheRec
  <2>5. check \in [Workers -> CheckRec]
    BY <2>3, RevocationAssumption DEF CheckRec, Pc
  <2>6. TypeInv
    <3>1. 1 \in 1..MaxClock
      BY RevocationAssumption
    <3>2. file \in [state : {"ok", "unreadable", "missing"}, lines : Lists,
                    mtime : 1..MaxClock]
      BY <2>2, <3>1
    <3> QED BY <2>2, <2>4, <2>5, <3>1, <3>2, Zenon DEF TypeInv
  <2>7. CacheInv
    BY <2>1, <2>2, RevocationAssumption DEF CacheInv, CacheOK
  <2>8. CheckInv /\ VerdictInv
    BY <2>3, Zenon
       DEF CheckInv, VerdictInv, VerdictOK, RaceOK, ClosedOK, Loading
  <2> QED BY <2>6, <2>7, <2>8, Zenon DEF IInv
<1>2. IInv /\ [Next]_vars => IInv'
  <2> SUFFICES ASSUME IInv, [Next]_vars PROVE IInv'
    BY Zenon
  <2>1. CASE Tick
    BY <2>1, TickStep, Zenon
  <2>2. ASSUME NEW l \in Lists, Edit(l) PROVE IInv'
    BY <2>2, EditStep, Zenon
  <2>3. ASSUME NEW state \in {"ok", "unreadable", "missing"}, Access(state)
        PROVE  IInv'
    BY <2>3, AccessStep, Zenon
  <2>4. ASSUME NEW w \in Workers, NEW k \in Keys,
               StatFails(w, k) \/ CheckCached(w, k) \/ BeginReload(w, k)
        PROVE  IInv'
    BY <2>4, StatFailsStep, CheckCachedStep, BeginReloadStep, Zenon
  <2>5. ASSUME NEW w \in Workers,
               OpenList(w) \/ ReloadFails(w) \/ Reload(w)
        PROVE  IInv'
    BY <2>5, OpenListStep, ReloadFailsStep, ReloadStep, Zenon
  <2>6. CASE UNCHANGED vars
    BY <2>6, Zenon DEF vars, IInv, TypeInv, CacheInv, CacheOK, CheckInv,
       ReloadOK, VerdictInv, VerdictOK, RaceOK, ClosedOK
  <2> QED BY <2>1, <2>2, <2>3, <2>4, <2>5, <2>6, Zenon DEF Next
<1> QED BY <1>1, <1>2, PTL DEF Spec

\* The file, the caches and the checks have their types.
THEOREM TypeCorrect == Spec => []TypeOK
<1>1. IInv => TypeOK
  BY Zenon DEF IInv, TypeInv, TypeOK, CacheRec, CheckRec, Lines
<1> QED BY <1>1, Invariance, PTL

\* is_revoked gives a wrong answer from a list it read only when an edit
\* overlapped the check, or the cached copy was stat'ed in the second of its
\* mtime.
THEOREM WrongAnswersAreRaces == Spec => []WrongOnlyByRace
<1>1. IInv => WrongOnlyByRace
  BY Zenon DEF IInv, VerdictInv, VerdictOK, RaceOK, WrongOnlyByRace, Done,
     SameSecond
<1> QED BY <1>1, Invariance, PTL

\* A cached list never holds more than pgp_revocation_list_max_size, however
\* the file grows while it is read.
THEOREM CacheWithinLimit == Spec => []CacheBounded
<1>1. IInv => CacheBounded
  BY Zenon DEF IInv, CacheInv, CacheOK, CacheBounded
<1> QED BY <1>1, Invariance, PTL

\* Unless pgp_revocation_fail_open is on, a check that lets a key through went
\* by a list read whole, without that key, of the mtime this check stat'ed,
\* whichever step of whichever check failed and however the file changed.
THEOREM PassesByAList == Spec => []FailsClosed
<1>1. IInv => FailsClosed
  BY Zenon DEF IInv, VerdictInv, VerdictOK, ClosedOK, FailsClosed
<1> QED BY <1>1, Invariance, PTL
=============================================================================
