------------------------------- MODULE AuthFlow -------------------------------
(***************************************************************************)
(* A request's way through the module: the access handler, the body        *)
(* handler, gpg on the worker or on a thread of the worker's pool, the     *)
(* checks after gpg, the session grant and the answer.  The single-use     *)
(* store, the throttle and the revocation list appear as this code uses    *)
(* them; NonceZone and Throttle model their insides, worker clocks that    *)
(* lag included.                                                           *)
(*                                                                         *)
(* A client stands for one address and user agent, which is what tokens    *)
(* are bound to.  MACs are unforgeable: a token with a good MAC is one the *)
(* server made.                                                            *)
(***************************************************************************)
EXTENDS Integers, Sequences, FiniteSets

CONSTANTS
    Clients,
    Workers,
    Requests,           \* bound: requests in the module at once
    NoReq,
    Keys,
    Keyring,            \* the keys gpg accepts
    Nonces,             \* bound: challenges ever issued
    NoNonce,            \* a submission with no challenge of the server's
    NoClient,
    NoKey,
    HasPool,            \* pgp_gpg_thread_pool names a pool
    PoolThreads,
    MaxQueue,           \* tasks that may wait for a thread
    MemoryMayFail,      \* a request's pool allocations can fail
    FailureLimit,
    ChallengeTimeout,
    SessionTimeout,     \* 0: sessions do not expire
    MaxClock            \* bound: the clock stops here

\* A session cookie; its nonce, a history field, is the challenge it answered.
Session == [client : Clients, key : Keys, exp : Nat, nonce : Nonces]

Submission ==
    [pc : {"body", "queued", "thread", "done", "sync", "judged"},
     client : Clients, worker : Workers, nonce : Nonces \cup {NoNonce},
     key : Keys \cup {NoKey},
     gpg : {"NONE", "ERROR", "INVALID", "VALID"},       \* gpg_rc and vr->valid
     rc : {"NONE", "OK", "DECLINED", "ABORT", "ERROR"}, \* vr->chal_rc
     own : BOOLEAN]           \* history: this attempt consumed its nonce

ASSUME FlowAssumption ==
    /\ Keyring \subseteq Keys
    /\ {HasPool, MemoryMayFail} \subseteq BOOLEAN
    /\ {FailureLimit, ChallengeTimeout, MaxClock} \subseteq Nat \ {0}
    /\ {PoolThreads, MaxQueue, SessionTimeout} \subseteq Nat
    /\ IsFiniteSet(Requests)
    /\ NoNonce \notin Nonces /\ NoClient \notin Clients
    /\ NoReq \notin Requests \cup Submission /\ NoKey \notin Keys

VARIABLES
    clock,
    challenge,  \* challenge[n]: the client it is bound to, its expiry
    seen,       \* nonces the single-use store remembers
    revoked,    \* keys on the revocation list
    strikes,    \* failures the throttle holds against each client
    sessions,   \* session cookies handed out
    req,        \* req[r]: a submission on its way, or NoReq
    busy,       \* busy[w]: the request whose gpg blocks worker w, or NoReq
    pool,       \* pool[w]: tasks waiting for a thread of worker w's pool
    spent,      \* history: nonces ever consumed
    worth       \* history: worth[n], sessions challenge n earned (2: or more)

store == <<seen, spent>>
logins == <<sessions, worth>>
vars == <<clock, challenge, revoked, strikes, req, busy, pool, store,
          logins>>

TypeOK ==
    /\ clock \in 1..MaxClock
    /\ challenge \in [Nonces -> [client : Clients \cup {NoClient}, exp : Nat]]
    /\ seen \subseteq Nonces /\ spent \subseteq Nonces
    /\ revoked \subseteq Keys
    /\ strikes \in [Clients -> Nat]
    /\ sessions \subseteq Session
    /\ req \in [Requests -> Submission \cup {NoReq}]
    /\ busy \in [Workers -> Requests \cup {NoReq}]
    /\ pool \in [Workers -> Seq(Requests)]
    /\ worth \in [Nonces -> 0..2]

Init ==
    /\ clock = 1
    /\ challenge = [n \in Nonces |-> [client |-> NoClient, exp |-> 0]]
    /\ seen = {} /\ spent = {}
    /\ revoked = {}
    /\ strikes = [c \in Clients |-> 0]
    /\ sessions = {}
    /\ req = [r \in Requests |-> NoReq]
    /\ busy = [w \in Workers |-> NoReq]
    /\ pool = [w \in Workers |-> << >>]
    /\ worth = [n \in Nonces |-> 0]

InFlight(r) == req[r] # NoReq
At(r, pc) == InFlight(r) /\ req[r].pc = pc
Free(w) == busy[w] = NoReq
Unissued == {n \in Nonces : challenge[n].client = NoClient}

-----------------------------------------------------------------------------
(* The surroundings: time, the operator, the store's and throttle's clocks. *)

Tick ==
    /\ clock < MaxClock
    /\ clock' = clock + 1
    /\ UNCHANGED <<challenge, revoked, strikes, req, busy, pool, store,
                   logins>>

\* The operator edits the revocation file.
EditRevocations(k) ==
    /\ revoked' = IF k \in revoked THEN revoked \ {k} ELSE revoked \cup {k}
    /\ UNCHANGED <<clock, challenge, strikes, req, busy, pool, store,
                   logins>>

\* The store drops a nonce once it may: it evicts entries with expire <= now.
Forget(n) ==
    /\ n \in seen
    /\ challenge[n].exp <= clock
    /\ seen' = seen \ {n}
    /\ UNCHANGED <<clock, challenge, revoked, strikes, req, busy, pool,
                   spent, logins>>

\* The failure window or the ban is over.
Lapse(c) ==
    /\ strikes[c] > 0
    /\ strikes' = [strikes EXCEPT ![c] = 0]
    /\ UNCHANGED <<clock, challenge, revoked, req, busy, pool, store,
                   logins>>

-----------------------------------------------------------------------------
(* The answers.                                                             *)

\* A page with a new challenge, or 500 when a step of building it fails.
SendChallenge(c) ==
    \/ \E n \in Unissued :
          challenge' = [challenge EXCEPT
                ![n] = [client |-> c, exp |-> clock + ChallengeTimeout]]
    \/ UNCHANGED challenge

\* Faulty Finalize: a store that could not answer counts as a failed login.
FinalizeChargesAbort(r, rc) ==
    LET c == req[r].client IN
    /\ req' = [req EXCEPT ![r] = NoReq]
    /\ \/ rc = "ERROR" /\ UNCHANGED <<strikes, challenge>>
       \/ /\ rc = "SEE_OTHER"
          /\ strikes' = [strikes EXCEPT ![c] = 0]
          /\ UNCHANGED challenge
       \/ /\ rc \in {"DECLINED", "ABORT"}
          /\ strikes' = [strikes EXCEPT ![c] = @ + 1]
          /\ SendChallenge(c)

\* What a verification's result becomes: only a verdict on the client's
\* submission reaches the throttle.
Finalize(r, rc) ==
    LET c == req[r].client IN
    /\ req' = [req EXCEPT ![r] = NoReq]
    /\ \/ /\ rc \in {"ABORT", "ERROR"}                   \* 503, 500
          /\ UNCHANGED <<strikes, challenge>>
       \/ /\ rc = "SEE_OTHER"                            \* 303
          /\ strikes' = [strikes EXCEPT ![c] = 0]
          /\ UNCHANGED challenge
       \/ /\ rc = "DECLINED"                             \* 403
          /\ strikes' = [strikes EXCEPT ![c] = @ + 1]
          /\ SendChallenge(c)

-----------------------------------------------------------------------------
(* The access handler.  It runs to its end on a worker no gpg blocks.       *)

Arrive(r, w) == ~InFlight(r) /\ Free(w)

Unmoved == UNCHANGED <<clock, revoked, busy, pool, store, logins>>

\* check_session: a cookie the server made, for this client, unexpired, of a
\* key that is not revoked.
Authenticated(c) ==
    \E s \in sessions :
        /\ s.client = c
        /\ s.exp = 0 \/ s.exp >= clock
        /\ s.key \notin revoked

Banned(c) == strikes[c] >= FailureLimit

\* A request with a valid session goes on to the protected content.
PassSession(r, w, c) ==
    /\ Arrive(r, w)
    /\ Authenticated(c)
    /\ UNCHANGED vars

\* A banned client gets 429.
RefuseBanned(r, w, c) ==
    /\ Arrive(r, w)
    /\ Banned(c)
    /\ UNCHANGED vars

\* A subrequest without a session gets 403, an over-long submission 413.
RefuseUnread(r, w) ==
    /\ Arrive(r, w)
    /\ UNCHANGED vars

\* Any other request without a session (a client may leave its cookie out).
Challenge(r, w, c) ==
    /\ Arrive(r, w)
    /\ ~Banned(c)
    /\ SendChallenge(c)
    /\ Unmoved /\ UNCHANGED <<strikes, req>>

\* Faulty ReadBody: submissions are read before the throttle is asked.
ReadBodyUnthrottled(r, w, c) ==
    /\ Arrive(r, w)
    /\ req' = [req EXCEPT ![r] =
                [pc |-> "body", client |-> c, worker |-> w, nonce |-> NoNonce,
                 key |-> NoKey, gpg |-> "NONE", rc |-> "NONE", own |-> FALSE]]
    /\ Unmoved /\ UNCHANGED <<challenge, strikes>>

ReadBody(r, w, c) ==
    /\ Arrive(r, w)
    /\ ~Banned(c)
    /\ req' = [req EXCEPT ![r] =
                [pc |-> "body", client |-> c, worker |-> w, nonce |-> NoNonce,
                 key |-> NoKey, gpg |-> "NONE", rc |-> "NONE", own |-> FALSE]]
    /\ Unmoved /\ UNCHANGED <<challenge, strikes>>

\* The client is slow (nginx's client_body_timeout) or goes away.
BodyTimeout(r) ==
    /\ At(r, "body") /\ Free(req[r].worker)
    /\ req' = [req EXCEPT ![r] = NoReq]
    /\ Unmoved /\ UNCHANGED <<challenge, strikes>>

-----------------------------------------------------------------------------
(* The body handler.                                                        *)

\* A clear-signed message: some key's signature over a challenge of the
\* server's, not necessarily this client's, or over anything else.
Signed(r, pc) ==
    \E k \in Keys, n \in (Nonces \ Unissued) \cup {NoNonce} :
        req' = [req EXCEPT ![r].pc = pc, ![r].key = k, ![r].nonce = n]

\* No memory for the body or for the result: 500, charged to nobody.
SubmitFailed(r) ==
    /\ At(r, "body") /\ Free(req[r].worker)
    /\ MemoryMayFail
    /\ Finalize(r, "ERROR")
    /\ Unmoved

\* A body that cannot be read, or that is not a clear-signed message.
SubmitRejected(r) ==
    /\ At(r, "body") /\ Free(req[r].worker)
    /\ Finalize(r, "DECLINED")
    /\ Unmoved

\* The task is posted unless the pool's queue is full.
SubmitAsync(r) ==
    LET w == req[r].worker IN
    /\ At(r, "body") /\ Free(w)
    /\ HasPool
    /\ Len(pool[w]) < MaxQueue
    /\ pool' = [pool EXCEPT ![w] = Append(@, r)]
    /\ Signed(r, "queued")
    /\ UNCHANGED <<clock, challenge, revoked, strikes, busy, store,
                   logins>>

\* No pool, or the task could not be allocated or posted: gpg blocks the
\* worker.
SubmitSync(r) ==
    LET w == req[r].worker IN
    /\ At(r, "body") /\ Free(w)
    /\ ~HasPool \/ MemoryMayFail \/ Len(pool[w]) >= MaxQueue
    /\ busy' = [busy EXCEPT ![w] = r]
    /\ Signed(r, "sync")
    /\ UNCHANGED <<clock, challenge, revoked, strikes, pool, store,
                   logins>>

-----------------------------------------------------------------------------
(* Verification.                                                            *)

\* gpg_verify: a step of its own failed, from the paths to fork (ERROR), or a
\* good signature by a keyring key was seen or not.  A gpg that gives no verdict
\* (it cannot be executed, crashes, cannot read the keyring, is killed at its
\* deadline) has shown no good signature: INVALID, like a bad one.
GpgResults(r) ==
    {"ERROR", "INVALID"} \cup (IF req[r].key \in Keyring THEN {"VALID"} ELSE {})

\* Faulty Acceptable: the MAC leaves the client's address and agent out.
AcceptableUnbound(n, c) ==
    /\ n \in Nonces \ Unissued
    /\ challenge[n].exp >= clock

\* The signed text holds a challenge made for this client that is not expired.
Acceptable(n, c) ==
    /\ n \in Nonces \ Unissued
    /\ challenge[n].client = c
    /\ challenge[n].exp >= clock

\* Faulty CheckAndSet: the lookup is left out.
CheckAndSetBlind(n, rc) ==
    \/ rc = "OK" /\ seen' = seen \cup {n}
    \/ rc = "ABORT" /\ seen' \in {seen, seen \cup {n}}

\* The single-use store's answer on n, and what it then remembers.  A store
\* that cannot answer may still have recorded n (a lost Redis reply).
CheckAndSet(n, rc) ==
    \/ rc = "OK" /\ n \notin seen /\ seen' = seen \cup {n}
    \/ rc = "DECLINED" /\ n \in seen /\ UNCHANGED seen
    \/ rc = "ABORT" /\ seen' \in {seen, seen \cup {n}}

ValidateConsume(r, rc) ==
    LET n == req[r].nonce
        c == req[r].client
    IN /\ \/ rc = "ERROR" /\ UNCHANGED seen           \* HMAC failure
          \/ rc = "DECLINED" /\ ~Acceptable(n, c) /\ UNCHANGED seen
          \/ Acceptable(n, c) /\ CheckAndSet(n, rc)
       /\ spent' = spent \cup seen'

\* Faulty HandOut: the fingerprint was cleared before the cookie is built.
HandOutKeyless(q) ==
    /\ sessions' = sessions \cup
          {[client |-> q.client, key |-> NoKey, exp |-> 0, nonce |-> q.nonce]}
    /\ worth' = [worth EXCEPT ![q.nonce] = IF @ = 2 THEN 2 ELSE @ + 1]

\* The session cookie is in the answer's headers.
HandOut(q) ==
    LET exp == IF SessionTimeout = 0 THEN 0 ELSE clock + SessionTimeout
    IN /\ sessions' = sessions \cup
             {[client |-> q.client, key |-> q.key, exp |-> exp,
               nonce |-> q.nonce]}
       /\ worth' = [worth EXCEPT ![q.nonce] = IF @ = 2 THEN 2 ELSE @ + 1]

\* Building the answer can fail before the cookie is in it, or after: then the
\* 500 carries the cookie.
Grant(r, rc) ==
    \/ rc = "SEE_OTHER" /\ HandOut(req[r])
    \/ rc = "ERROR" /\ UNCHANGED logins
    \/ rc = "ERROR" /\ MemoryMayFail /\ HandOut(req[r])

\* verify_post's end: a consumed challenge earns a session.
Settle(r, rc) ==
    \/ rc = "OK" /\ \E g \in {"SEE_OTHER", "ERROR"} : Grant(r, g) /\ Finalize(r, g)
    \/ rc # "OK" /\ Finalize(r, rc) /\ UNCHANGED logins

ResultCodes == {"OK", "DECLINED", "ABORT", "ERROR"}

\* gpg ends on the worker.
GpgSync(r) ==
    /\ At(r, "sync")
    /\ \E g \in GpgResults(r) :
          req' = [req EXCEPT ![r].pc = "judged", ![r].gpg = g]
    /\ Unmoved /\ UNCHANGED <<challenge, strikes>>

\* Faulty SyncDone: the nonce is consumed before revocation is checked.
SyncDoneConsumesFirst(r) ==
    LET q == req[r] IN
    /\ At(r, "judged")
    /\ busy' = [busy EXCEPT ![q.worker] = NoReq]
    /\ \/ /\ q.gpg = "ERROR"
          /\ Finalize(r, "ERROR") /\ UNCHANGED <<store, logins>>
       \/ /\ q.gpg = "INVALID"
          /\ Finalize(r, "DECLINED") /\ UNCHANGED <<store, logins>>
       \/ /\ q.gpg = "VALID"
          /\ \E rc \in ResultCodes :
                /\ ValidateConsume(r, rc)
                /\ IF q.key \in revoked
                      THEN Finalize(r, "DECLINED") /\ UNCHANGED logins
                      ELSE Settle(r, rc)
    /\ UNCHANGED <<clock, revoked, pool>>

\* Back in auth_submit: revocation, then the challenge, then the answer.
SyncDone(r) ==
    LET q == req[r] IN
    /\ At(r, "judged")
    /\ busy' = [busy EXCEPT ![q.worker] = NoReq]
    /\ \/ /\ q.gpg = "ERROR"
          /\ Finalize(r, "ERROR") /\ UNCHANGED <<store, logins>>
       \/ /\ q.gpg = "INVALID" \/ (q.gpg = "VALID" /\ q.key \in revoked)
          /\ Finalize(r, "DECLINED") /\ UNCHANGED <<store, logins>>
       \/ /\ q.gpg = "VALID" /\ q.key \notin revoked
          /\ \E rc \in ResultCodes : ValidateConsume(r, rc) /\ Settle(r, rc)
    /\ UNCHANGED <<clock, revoked, pool>>

\* A thread of the pool takes the oldest task.
TakeTask(w) ==
    LET running == {r \in Requests : At(r, "thread") /\ req[r].worker = w} IN
    /\ pool[w] # << >>
    /\ Cardinality(running) < PoolThreads
    /\ req' = [req EXCEPT ![Head(pool[w])].pc = "thread"]
    /\ pool' = [pool EXCEPT ![w] = Tail(@)]
    /\ UNCHANGED <<clock, challenge, revoked, strikes, busy, store,
                   logins>>

\* gpg ends on a thread, which consumes the nonce of a good signature itself.
GpgThread(r) ==
    /\ At(r, "thread")
    /\ \E g \in GpgResults(r), rc \in ResultCodes \cup {"NONE"} :
          /\ \/ g # "VALID" /\ rc = "NONE" /\ UNCHANGED store
             \/ g = "VALID" /\ ValidateConsume(r, rc)
          /\ req' = [req EXCEPT ![r].pc = "done", ![r].gpg = g, ![r].rc = rc,
                                ![r].own = spent' # spent]
    /\ UNCHANGED <<clock, challenge, revoked, strikes, busy, pool,
                   logins>>

\* The completion event on the worker: revocation, the thread's verdict on the
\* challenge, the answer.
ThreadDone(r) ==
    LET q == req[r] IN
    /\ At(r, "done") /\ Free(q.worker)
    /\ \/ /\ q.gpg = "ERROR"
          /\ Finalize(r, "ERROR") /\ UNCHANGED logins
       \/ /\ q.gpg = "INVALID" \/ (q.gpg = "VALID" /\ q.key \in revoked)
          /\ Finalize(r, "DECLINED") /\ UNCHANGED logins
       \/ q.gpg = "VALID" /\ q.key \notin revoked /\ Settle(r, q.rc)
    /\ UNCHANGED <<clock, revoked, busy, pool, store>>

\* A worker dies with its requests and its pool; the shared zones survive it.
WorkerCrash(w) ==
    LET lost == {r \in Requests : InFlight(r) /\ req[r].worker = w} IN
    /\ lost # {}
    /\ req' = [r \in Requests |-> IF r \in lost THEN NoReq ELSE req[r]]
    /\ busy' = [busy EXCEPT ![w] = NoReq]
    /\ pool' = [pool EXCEPT ![w] = << >>]
    /\ UNCHANGED <<clock, challenge, revoked, strikes, store, logins>>

Handler(r) ==
    \E w \in Workers, c \in Clients :
        \/ PassSession(r, w, c) \/ RefuseBanned(r, w, c) \/ RefuseUnread(r, w)
        \/ Challenge(r, w, c) \/ ReadBody(r, w, c)

Submit(r) ==
    BodyTimeout(r) \/ SubmitFailed(r) \/ SubmitRejected(r) \/ SubmitAsync(r)
        \/ SubmitSync(r)

Verify(r) == GpgSync(r) \/ SyncDone(r) \/ GpgThread(r) \/ ThreadDone(r)

Next ==
    \/ Tick
    \/ \E k \in Keyring : EditRevocations(k)
    \/ \E n \in Nonces : Forget(n)
    \/ \E c \in Clients : Lapse(c)
    \/ \E r \in Requests : Handler(r) \/ Submit(r) \/ Verify(r)
    \/ \E w \in Workers : TakeTask(w) \/ WorkerCrash(w)

Spec == Init /\ [][Next]_vars

-----------------------------------------------------------------------------
(* Properties.                                                              *)

\* Every session was earned: by a consumed challenge, bound to the very client
\* the session is bound to, signed with a key of the keyring.  The binding is
\* captured before gpg and the session is made after it (verify_post, grant).
SessionsEarned ==
    \A s \in sessions :
        /\ s.client = challenge[s.nonce].client
        /\ s.key \in Keyring
        /\ s.nonce \in spent

\* A challenge is worth at most one session before its expiry second, whatever
\* mix of workers and threads verifies it, and whichever of them crash
\* (validate_consume, check_and_set).
OneSessionPerChallenge ==
    \A n \in Nonces : worth[n] <= 1 \/ challenge[n].exp <= clock

\* What the code takes a submission to be at fault for: a body that is no
\* clear-signed message, no good signature seen by gpg, a revoked key, a
\* challenge that is stale or another client's, or one that another attempt
\* consumed.
AtFault(r) ==
    LET q == req[r] IN
    \/ At(r, "body")
    \/ q.gpg = "INVALID"
    \/ q.key \in revoked
    \/ ~Acceptable(q.nonce, q.client)
    \/ q.nonce \in spent /\ ~q.own

\* The throttle is charged for one submission of that very client, leaving the
\* module, that is at fault.  What fails in gpg_verify, the single-use store,
\* the HMAC, the session grant or memory is charged to nobody, though a thread
\* reached its verdict long before (verify_finalize).  A gpg that gave no
\* verdict is charged: the code cannot tell it from a bad signature.
ChargedForCause ==
    [][\A c \in Clients :
          strikes'[c] > strikes[c] =>
              \E r \in Requests :
                  /\ InFlight(r) /\ req[r].client = c
                  /\ AtFault(r)
                  /\ req'[r] = NoReq]_vars

\* Failures beyond the limit can only come from submissions already admitted
\* when the ban fell: failures held and submissions in flight together never
\* exceed the limit's last free failure plus one for every slot
\* (is_banned in auth_handler, record in verify_finalize).
OvershootInFlightOnly ==
    \A c \in Clients :
        strikes[c]
          + Cardinality({r \in Requests : InFlight(r) /\ req[r].client = c})
        <= FailureLimit - 1 + Cardinality(Requests)

\* A login refused because its key is revoked leaves its challenge unused, so
\* it still counts once the key is off the list again, where gpg runs on the
\* worker (verify_post); a pool thread consumes it before the list is looked at.
RevokedKeepsChallenge ==
    [][\A r \in Requests :
          /\ At(r, "judged")
          /\ req[r].key \in Keyring \cap revoked
          /\ req'[r] = NoReq
          => UNCHANGED spent]_vars
=============================================================================
