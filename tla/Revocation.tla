------------------------------ MODULE Revocation ------------------------------
(***************************************************************************)
(* is_revoked: the revocation list as a worker caches it, while an         *)
(* operator edits the file.  The worker stats the file on every check and  *)
(* reads it again when the mtime, which counts seconds, is not the one it  *)
(* has.  Between the stat and the read the file may change: the content is *)
(* then newer than the size and the mtime that go with it.  Once the file  *)
(* is open, moving it or taking its permissions away changes nothing.      *)
(*                                                                         *)
(* A line is a fingerprint or a comment, and the unit of size: a           *)
(* fingerprint cut off in the middle matches no key, like one left out.    *)
(* Workers and locations each have a cache of their own.                   *)
(***************************************************************************)
EXTENDS Integers, Sequences, Functions

CONSTANTS
    Workers,
    Keys,
    Comment,    \* a line that is no fingerprint
    Lists,      \* bound: the contents the operator gives the file
    MaxSize,    \* pgp_revocation_list_max_size, 0 for no limit
    FailOpen,   \* pgp_revocation_fail_open
    MaxClock    \* bound: the clock stops here

ASSUME RevocationAssumption ==
    /\ Comment \notin Keys
    /\ Lists \subseteq Seq(Keys \cup {Comment})
    /\ MaxSize \in Nat
    /\ FailOpen \in BOOLEAN
    /\ MaxClock \in Nat \ {0}

VARIABLES
    clock,      \* seconds
    file,       \* the file: its lines, its mtime, whether it can be read
    cache,      \* cache[w]: revoc_cache and revoc_mtime
    check       \* check[w]: the check worker w is making or made last

vars == <<clock, file, cache, check>>

\* Stat'ed and not opened yet, opened and not read yet.
Loading == {"reload", "open"}

Pc == {"idle", "passed", "refused"} \cup Loading

TypeOK ==
    /\ clock \in 1..MaxClock
    /\ file \in [state : {"ok", "unreadable", "missing"}, lines : Lists,
                 mtime : 1..MaxClock]
    /\ \A w \in Workers :
          /\ cache[w].loaded \in BOOLEAN
          /\ cache[w].lines \in Seq(Keys \cup {Comment})
          /\ cache[w].mtime \in 0..MaxClock
          /\ cache[w].at \in 0..MaxClock       \* history: when it was stat'ed
          /\ check[w].pc \in Pc
          /\ check[w].key \in Keys
          /\ check[w].mtime \in 0..MaxClock    \* what stat said, 0 if it failed
          /\ check[w].size \in Nat
          /\ check[w].at \in 0..MaxClock
          /\ check[w].read \in BOOLEAN         \* a list decided, not FailOpen
          \* history: on the list all the time, some time, file changed
          /\ {check[w].always, check[w].ever, check[w].edited} \subseteq BOOLEAN

Init ==
    /\ clock = 1
    /\ \E l \in Lists : file = [state |-> "ok", lines |-> l, mtime |-> 1]
    /\ cache = [w \in Workers |->
                  [loaded |-> FALSE, lines |-> << >>, mtime |-> 0, at |-> 0]]
    /\ \E k \in Keys :
          check = [w \in Workers |->
                     [pc |-> "idle", key |-> k, mtime |-> 0, size |-> 0,
                      at |-> 0, read |-> FALSE, always |-> FALSE,
                      ever |-> FALSE, edited |-> FALSE]]

-----------------------------------------------------------------------------
(* The operator and the clock.                                              *)

Tick ==
    /\ clock < MaxClock
    /\ clock' = clock + 1
    /\ UNCHANGED <<file, cache, check>>

Listed(lines, k) == k \in Range(lines)

\* The file is given new lines in place.
Edit(lines) ==
    /\ file' = [file EXCEPT !.lines = lines, !.mtime = clock]
    /\ check' = [w \in Workers |->
                   IF check[w].pc \in Loading
                      THEN [check[w] EXCEPT
                              !.always = @ /\ Listed(lines, check[w].key),
                              !.ever = @ \/ Listed(lines, check[w].key),
                              !.edited = TRUE]
                      ELSE check[w]]
    /\ UNCHANGED <<clock, cache>>

\* It is moved away, made unreadable, or put back: the mtime stays.
Access(state) ==
    /\ file.state # state
    /\ file' = [file EXCEPT !.state = state]
    /\ UNCHANGED <<clock, cache, check>>

-----------------------------------------------------------------------------
(* is_revoked.                                                              *)

Ready(w) == check[w].pc \notin Loading

Start(w, k, pc) ==
    LET listed == Listed(file.lines, k) IN
    [pc |-> pc, key |-> k, mtime |-> 0, size |-> 0, at |-> clock,
     read |-> FALSE, always |-> listed, ever |-> listed, edited |-> FALSE]

Denial == IF FailOpen THEN "passed" ELSE "refused"

Scan(lines, k) == IF Listed(lines, k) THEN "refused" ELSE "passed"

\* Faulty StatFails: the cached copy decides when there is one.
StatFailsCached(w, k) ==
    /\ Ready(w) /\ file.state = "missing"
    /\ check' = [check EXCEPT ![w] = Start(w, k,
          IF cache[w].loaded THEN Scan(cache[w].lines, k) ELSE Denial)]
    /\ UNCHANGED <<clock, file, cache>>

\* The stat fails: the policy for a list that cannot be read, cache or not.
StatFails(w, k) ==
    /\ Ready(w) /\ file.state = "missing"
    /\ check' = [check EXCEPT ![w] = Start(w, k, Denial)]
    /\ UNCHANGED <<clock, file, cache>>

\* Faulty Current: once read, never again.
CurrentOnceLoaded(w) == cache[w].loaded

Current(w) == cache[w].loaded /\ cache[w].mtime = file.mtime

CheckCached(w, k) ==
    /\ Ready(w) /\ file.state # "missing"
    /\ Current(w)
    /\ check' = [check EXCEPT ![w] =
          [Start(w, k, Scan(cache[w].lines, k)) EXCEPT
              !.mtime = file.mtime, !.read = TRUE]]
    /\ UNCHANGED <<clock, file, cache>>

BeginReload(w, k) ==
    /\ Ready(w) /\ file.state # "missing"
    /\ ~Current(w)
    /\ check' = [check EXCEPT ![w] = [Start(w, k, "reload") EXCEPT
                    !.mtime = file.mtime, !.size = Len(file.lines)]]
    /\ UNCHANGED <<clock, file, cache>>

OpenList(w) ==
    /\ check[w].pc = "reload" /\ file.state = "ok"
    /\ check' = [check EXCEPT ![w].pc = "open"]
    /\ UNCHANGED <<clock, file, cache>>

TooLarge(w) == MaxSize # 0 /\ check[w].size > MaxSize

\* Faulty ReloadFails: an error code of its own, which callers take for a hit.
ReloadFailsError(w) ==
    /\ check[w].pc \in Loading
    /\ check' = [check EXCEPT ![w].pc = "error"]
    /\ UNCHANGED <<clock, file, cache>>

\* The file cannot be opened; or it is open and too large, or memory or the read
\* fails: the cache stays as it was, older mtime included, so the next check
\* tries again.
ReloadFails(w) ==
    /\ check[w].pc \in Loading
    /\ check' = [check EXCEPT ![w].pc = Denial]
    /\ UNCHANGED <<clock, file, cache>>

\* Faulty Content: read to the end of the file.
ContentWhole(w) == file.lines

\* At most as many bytes as the file had when it was stat'ed.
Content(w) ==
    SubSeq(file.lines, 1, IF check[w].size < Len(file.lines)
                             THEN check[w].size ELSE Len(file.lines))

Reload(w) ==
    /\ check[w].pc = "open" /\ ~TooLarge(w)
    /\ cache' = [cache EXCEPT ![w] =
          [loaded |-> TRUE, lines |-> Content(w), mtime |-> check[w].mtime,
           at |-> check[w].at]]
    /\ check' = [check EXCEPT ![w].pc = Scan(Content(w), check[w].key),
                              ![w].read = TRUE]
    /\ UNCHANGED <<clock, file>>

Next ==
    \/ Tick
    \/ \E l \in Lists : Edit(l)
    \/ \E state \in {"ok", "unreadable", "missing"} : Access(state)
    \/ \E w \in Workers :
          \/ \E k \in Keys : StatFails(w, k) \/ CheckCached(w, k)
                                \/ BeginReload(w, k)
          \/ OpenList(w) \/ ReloadFails(w) \/ Reload(w)

Spec == Init /\ [][Next]_vars

-----------------------------------------------------------------------------
(* Properties.                                                              *)

Done(w) == check[w].pc \in {"passed", "refused"}

\* The list could be edited in the second of its mtime after it was stat'ed.
SameSecond(w) == cache[w].at = cache[w].mtime

\* A check lets a listed key through, or refuses one that is not listed, only
\* in three ways: the list could not be read, an edit overlapped this very
\* check, or the cached copy was stat'ed in the second of its mtime, when a
\* later edit in that second goes unnoticed (the mtime test of is_revoked).
WrongOnlyByRace ==
    \A w \in Workers :
        Done(w) /\ check[w].read
            => \/ SameSecond(w)
               \/ /\ check[w].pc = "passed" => ~check[w].always \/ check[w].edited
                  /\ check[w].pc = "refused" => check[w].ever

\* Unless pgp_revocation_fail_open is on, a key passes only by a copy that was
\* read, up to the list's size, is without that key, and has the very mtime this
\* check stat'ed: a stat, an open, an allocation or a read that fails, at whichever step of
\* whichever check, and a list over the limit refuse, whatever is cached.  A list
\* that can no longer be opened but has the cached mtime is not opened, and its
\* copy decides (the mtime test of is_revoked).
FailsClosed ==
    \A w \in Workers :
        ~FailOpen /\ check[w].pc = "passed"
            => /\ cache[w].loaded /\ cache[w].mtime = check[w].mtime
               /\ ~Listed(cache[w].lines, check[w].key)

\* What a worker holds in memory is bounded by the configured limit, also when
\* the file grows between the stat and the read.
CacheBounded ==
    \A w \in Workers : MaxSize # 0 => Len(cache[w].lines) <= MaxSize

\* An edit takes effect without a reload of nginx: a check that starts after
\* the last edit lets no listed key through.
EditsTakeEffect ==
    \A w \in Workers :
        check[w].pc = "passed" /\ check[w].read /\ ~check[w].edited
            => ~check[w].always
=============================================================================
