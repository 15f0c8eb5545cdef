# A TLA+ model of ngx_http_pgp_auth_module

The module lets nginx protect a location with OpenPGP signatures. A visitor
without a session gets a page with a challenge; they sign it, post the
clear-signed text back, and receive a session cookie. This directory holds
specifications of the module's parts, the TLC configurations that check them, and
the proofs that TLAPS checks.

## The system and its parts

| Part | Source | Modelled by |
|---|---|---|
| memory nonce store: a shared zone that makes a challenge single-use | `nonce.c` 29-281 | `NonceZone`, `NonceStore`, `NonceZoneProofs` |
| Redis nonce store, for a fleet of nodes | `nonce.c` 284-742 | `NonceFleet`, `NonceFleetProofs` |
| failure throttle: a shared zone of failures and bans per address | `throttle.c` | `Throttle`, `ThrottleProofs` |
| request flow: access handler, body handler, gpg on worker or thread, checks after gpg, grant, answer | `module.c` 815-1974 | `AuthFlow`, `AuthFlowProofs` |
| the request's references, pin, thread task and watchdog | `module.c` 1638-1950 | `RequestLife`, `RequestLifeProofs` |
| gpg verification | `gpg.c` | `GpgVerify`, run by `RequestLife` |
| challenge and session tokens, secret rotation | `module.c` 480-600, 756-902, 1026-1072, 1259-1359 | `Sessions`, `SessionsProofs` |
| revocation list and its cache | `module.c` 609-752 | `Revocation`, `RevocationProofs` |
| configuration and secret files | `module.c` 183-424, 1977-2579 | `ConfMerge`, `ConfMergeProofs` |
| body, form and page formatting; packaging | `module.c`, scripts | not modelled |

A request enters `auth_handler` on one worker. A valid session passes. Otherwise
the throttle is asked, and the request either gets a challenge or has its body
read. `auth_submit` then posts gpg to the worker's thread pool, or runs it on the
worker when there is no pool or the task cannot be posted. A good signature's
challenge is checked (MAC, expiry) and its nonce consumed in the single-use
store, on the thread or on the worker; the worker checks revocation, grants the
session and finalizes, which is where the throttle records the outcome. The two
zones are shared by all workers, each under its own mutex. With Redis, each
node's zone is only a second line that can refuse.

## Modules

**`NonceStore`** is the contract in `nonce.h`: a nonce is accepted only while the
store does not remember it, an accepted nonce is remembered, and it is forgotten
only after its challenge has expired or on a cold start.

**`NonceZone`** is `nonce_memory` and the part of `validate_consume` before it.
`queue` is the zone's queue (oldest first); the red-black tree holds the same
nodes and is the set `Stored(queue)`. A thread goes through `PassExpiry` (the
expiry check), `ReadNow` (`now = ngx_time()`, before the mutex) and one of
`Replay`, `ZoneFull`, `Record`, which are whole critical sections with both
eviction passes. `time[w]` is the worker's cached clock and may lag without
bound. `used` and `reused` are histories. `ColdStart` empties the zone. nginx's
slab allocator appears as `Allocatable`: the zone holds only nonce nodes of one
size, so it has a number of slots.

**`NonceFleet`** is `check_and_set` with Redis. A call goes through `Zone` (the
node's own zone, whose "full" is ignored and whose "seen" is final), `Connect`
with its second expiry check, `Handshake` and `Authenticate` as configured,
`SendSet`, and `ReadReply` or `GiveUp`; `Fail` is any failure before the SET is
sent. The SET is on the `wire` from then on: Redis may execute it (`SetNx`) before
or after the call has given up, answer with an error, or never see it
(`LoseSet`). Redis may lose a key and a node may be started cold, `MaxFaults`
times in all. A node's zone is what `NonceStore` promises.

**`Throttle`** is `is_banned` (`Refuse`, `Admit`) and `record` (`RecordSuccess`,
`FailKnown`, `FailNew`, `FailSkipped`). A request is checked once and recorded
once, with any others in between. `ConfAssumption` states the clamps of
`merge_loc_conf`, which `ConfMerge` checks. `recent` is a history of counted
failures. Nodes are counted, not sized.

**`AuthFlow`** is the request flow. `req[r]` is a submission between
`ReadBody` and its answer; `pc` says whether its body is awaited, its task is
queued, a thread runs it, the completion event is due, or gpg blocks the worker
(`busy`). `Finalize` is `verify_finalize`, `Settle` the end of `verify_post`,
`ValidateConsume` and `Grant` the functions of those names; `HandOut` is the point
of `Grant` from which the answer carries the cookie, even if it fails later. The single-use store
is the set `seen`, which may forget a nonce from its expiry second on (as proved
for `NonceZone`) and may fail to answer with the nonce recorded or not (as
`NonceFleet` shows); the configuration without a store
(`pgp_auth_nonce_storage none`) is not covered. The throttle is a number of
strikes per client that may lapse at any time. The revocation list changes at any
time. A worker may crash with its requests.

**`GpgVerify`** is one call of `gpg_verify` per job. `pc` follows the function:
`MakeHome`, `OpenMessage`, `WriteMessage`, `OpenPipe` (with the signal mask) and
`Fork`, each with its error exit (`MakeHomeFails`, ...), the read loop
(`ReadStatus`, `ReadEnds`, `Deadline`, `ReadFails`) and `Finish` (`waitpid`,
clean-up, the verdict of the status lines). `Cleanup` is `gpg_cleanup`, which
ignores its errors: the home may stay. gpg is a process that writes lines, may close its output before it exits, and may die at
any time. `NginxReaps` is nginx's SIGCHLD handler. It reaps every dead child, but
only while the main thread has SIGCHLD unblocked. A status line is one that
supports the signature (`VALIDSIG`), one that speaks against it, or neither.

**`RequestLife`** composes `GpgVerify` with the request around it: `count` is
nginx's reference count, `blocked` stands for `r->main->blocked` and `r->aio`,
`timer` for the task's watchdog. nginx's functions are modelled from their
contract: `ngx_http_read_client_request_body` takes a reference,
`ngx_http_finalize_request` gives one back and frees the request when none is left
and nothing is pinned, and `NGX_DONE` from a handler of the PRECONTENT phase gives
nothing back.

**`Revocation`** is `is_revoked`. A check whose `stat` finds the cached mtime scans
the cached lines in one step (`CheckCached`); otherwise `BeginReload` is the
`stat`, `OpenList` the later open and `Reload` the read after it, of no more than
the size found by `stat`. `ReloadFails` is a failure of either. The operator edits
the file in place, moves it away, makes it unreadable and puts it back at any
time, so also in between; an open file stays readable. Mtimes count seconds.

**`Sessions`** has challenges and cookies as tokens. Texts are
sequences of bytes; a MAC is the secret and the text that `hmac_raw` feeds it:
kind, keyring, payload, address and agent with a separator between them
(`Join`), which nothing escapes. The payload the module makes is one symbol.
`Genuine` compares a MAC presented with any payload, address and agent against the
current and the previous secret. A browser keeps one
cookie per name. Operators rotate the secret node by node (`Rotate`) and drop the
previous one when nothing it signed is alive and all nodes have rotated
(`Retire`), as README.md of the module tells them to.

**`ConfMerge`** is the directive table, `create_loc_conf`, `merge_loc_conf` and
`load_secret`. Blocks are written in any order (`Set`), then http is merged into
server and server into location (`Merge`), or the start is refused (`Refuse`).

**`MC...`** modules give constants their values and symmetry sets.
**`...Proofs`** modules extend the module of that name with its inductive
invariant, lemmas and theorems.

Operators introduced by a comment that begins with "Faulty" are variants of the
definition that follows them, each with one plausible mistake. No specification
uses them. Each property below is violated when one of them takes the place of
the original, which shows that the property depends on that code.

## Runs

Runs that hold:

| Configuration | Checks |
|---|---|
| `MCNonceZone` | no live nonce is forgotten (`LiveRetained`); none accepted twice before its expiry second (`NoReuseBeforeExpiry`); a replay is only reported of an accepted nonce (`ReplayIsGenuine`); the "try harder" pass never reclaims anything (`RetryReclaimsNothing`); the zone implements `NonceStore` (`IsSingleUseStore`) |
| `MCNonceFleet` | before its expiry a challenge is granted once across the fleet, as long as Redis keeps its key (`FleetSingleUse`); one node never grants it twice in one life, Redis or not, unless its zone was full (`NodeSingleUse`); an outage is never reported as a replay (`ReplayHadAttempt`) |
| `MCThrottle` | tree, queue and slots agree (`ZoneConsistent`); an address at every location's limit is banned (`OverLimitIsBanned`); at most `2 * limit - 3` counted failures fall within one window's length without a ban (`BurstBound`); a ban is lifted only by a success or a restart, and shortened only by a failure at a location with a shorter ban time, which then holds (`BanNotShortened`); eviction drops only what would no longer count (`EvictionForgetsNothing`) |
| `MCAuthFlow` | sessions are earned by a consumed challenge of the same client and a keyring key (`SessionsEarned`); a challenge is worth one session (`OneSessionPerChallenge`); failures beyond the limit come only from requests in flight (`OvershootInFlightOnly`); a failure is charged only for a submission of that client which is at fault (`ChargedForCause`); a revoked key verified on the worker leaves its challenge unused (`RevokedKeepsChallenge`) |
| `MCRequestLife` | a call of `gpg_verify` leaves no open file, mask or child behind, and no home it could remove (`NothingLeft`); no status line against a signature is overlooked unless the deadline or an error ended the reading (`NothingOverlooked`); nginx never takes the child of a call on the main thread (`MainReapsItsOwn`); a request is pinned exactly while its task is out (`HeldWhileVerified`); it is answered at most once (`AnsweredOnce`) and every submission is answered (`Answered`) |
| `MCRevocation` | a check is wrong only if an edit overlapped it or the cached copy was read in the second of its mtime (`WrongOnlyByRace`); a key passes only by a copy that is without it and has the mtime this check found, whatever fails (`FailsClosed`); the cache keeps to the size limit though the file grows (`CacheBounded`) |
| `MCSessions` | a MAC counts only in its role and under its keyring, with whatever payload it is presented; with a payload free of separators it counts only with its own, and for what it is bound to, also where nothing is bound, except that a client without a User-Agent is bound to none (`TokensConfined`); a rotation loses no live token (`RotationKeepsTokens`); a login lasts until it expires or another location's login replaces its cookie (`LoginLasts`) |
| `MCConfMerge` | the nearest block decides, within the bounds the throttle and the timers rely on (`NearestWins`); the secret is the nearest file's, or random and the server's where the server has one, and never empty (`SecretInEffect`) |

Runs in which the code departs from what its comments or documents say:

| Configuration | What TLC finds |
|---|---|
| `MCNonceZoneSingleUse` | In its expiry second a challenge still passes (`exp < now` rejects) while its nonce is already evicted (`expire <= now`), so it is accepted again. `nonce.h` promises single use within the lifetime. |
| `MCRevocationStale` | Two edits in one second, with a check between them: the worker keeps the first, since the mtime is the same, until the file is edited again. `README.md` says "re-read on change". |
| `MCRequestLifeLeak` | A submission that has been answered still has a reference, the one taken to read its body, and is not freed. `SECURITY.md` says per-request memory is released when the request ends. |
| `MCThrottleWindow` | Failures late in one window and early in the next reach the limit within a window's length without a ban: the window restarts at the first failure after it has elapsed. `README.md` and `throttle.h` call it a sliding window. |

### Limits the properties allow for

- With two challenge timeouts a live entry at the queue's tail hides expired ones
  behind it, so a full zone may deny a login although entries have expired.
- The throttle's window does not slide (`MCThrottleWindow`). `BurstBound` says how
  many failures that lets pass, where all locations have one limit and one window.
- A failure that finds the throttle's zone full is not counted, as `README.md`
  says; nothing bounds such failures and `BurstBound` does not speak of them.
- A location with a shorter ban time that records a request admitted earlier moves
  a ban's end forward; `BanNotShortened` says how far. One with a higher limit
  counts on where another would have banned; `OverLimitIsBanned` speaks of an
  address that has reached every limit.
- A reload keeps the throttle's zone (`init_zone`), so it is no step of the model
  and ends no ban early. `SECURITY.md` 508-510 reads as if it could.
- A gpg that gives no verdict, because it was killed at its deadline, could not be
  executed or could not read the keyring, is charged to the client like a bad
  signature, and `ChargedForCause` counts it as a cause. `SECURITY.md` 234-237
  and the comment in `verify_finalize` say that faults of the server are not
  recorded; that holds for the ones `gpg_verify` reports as an error. What gpg
  wrote before it was killed is still parsed, which `NothingOverlooked` states as an
  exception.
- If building the answer fails after the cookie is in its headers, the error page
  carries the session. It is earned like any other.
- A revocation list that can no longer be opened but keeps its mtime is not opened:
  the cached copy decides. `FailsClosed` allows for it; `README.md` and
  `SECURITY.md` say that an unreadable list denies.
- `TokensConfined` says nothing of payload and binding for a payload that has a
  separator in it: `hmac_raw` escapes none, and the parsers look for none.
- On a thread the nonce of a revoked key is consumed before the worker checks
  revocation; `RevokedKeepsChallenge` speaks of the worker.
- For a gpg on a pool thread nginx's SIGCHLD handler may reap the child first. The
  module then leaves nothing behind (`NothingLeft`) and does not need the exit
  status for its verdict.
- `pgp_session_secret_previous` is not merged: given at http or server scope it has
  no effect in a location, although `README.md` says that all directives are valid
  at each scope.
- `pgp_auth_nonce_storage_password_file` is not merged either: a location inherits the
  password the server loaded from it, and may not name the file again.

### Bounds

Clocks stop at `MaxClock`; it exceeds every timeout, window and ban involved, so
each runs out with time to spare for what comes after. Zones hold one or two
entries and more addresses or nonces than that compete for them, so they fill
up; `EvictSome` (8 in the code) is 1 and `EvictMany` (512) is 2, which keeps both
limits reachable. Two workers, threads or nodes suffice for every interleaving of
critical sections that the properties distinguish, since each acts on one nonce
or one address. `StaleFloor` stands for the hour of `evict_stale`: it is as small
as the window and the ban is longer, so that eviction meets nodes whose window is
over and whose ban is not. `MaxLag` bounds the lag of a clock in `Throttle` and
`NonceFleet`; the properties of `Throttle` state by how much a lag weakens them.

In `NonceFleet` three calls can use one nonce at both nodes and again at the
first; one fault (`MaxFaults`) is enough to lose either Redis's or a node's memory
of it, and no property promises anything if both are lost. In `AuthFlow`,
`Requests` bounds the requests at once and `Nonces` the challenges ever issued;
when none is left `SendChallenge` takes its failure branch. The pool has one
thread and a queue of one, so the queue and the fallback to the worker are both
used, in `RequestLife` too. `FailureLimit` is 1, so a ban and its overshoot take
one failure each. gpg's output in `RequestLife` is any prefix of three lines, the
last against the signature, and the buffer holds two. `Revocation` has one worker,
since workers share nothing but the file, and lists below, at and above the size
limit. `Sessions` rotates twice (`MaxSecret`), so a token may be two secrets old.
`ConfMerge` tries every configuration of up to three directives besides
`pgp_auth` in the three blocks (`MaxGiven`): enough for one directive to be given
at every level, or for a limit, a time and a secret to come from different ones.
`MCThrottle` has two locations that share a zone and differ in their ban time, and
a limit of three, the least for which windows that restart let more failures pass
than ones that slide. `Sessions` presents each token's MAC with its own payload,
with another one and with one that has a separator, from two addresses and with
agents that are absent, its own, or contain a separator; `MCSessions` takes nodes as
interchangeable.

Deadlock is checked in `NonceZone`, `Throttle`, `AuthFlow` and `Revocation`. The
other models end: their calls, requests, rotations or blocks are used up.

### Fairness

Only `MCRequestLife` needs it, for `Answered`. The read loop's deadline passes and a
thread or worker that runs `gpg_verify` goes on (weak fairness of `Gpg` and
`SyncDone`), and a pool thread takes the next task (weak fairness of `TakeTask`). A
worker serves ready events in turn, so an event that is ready again and again is
served even if gpg blocks the worker in between (strong fairness of `Submit` and
`ThreadDone`); a body that never comes is ended by `client_body_timeout`. One
assumption is about gpg itself (`GpgEnds`): `waitpid` has no deadline, so a gpg that
closed its output, or whose output could not be read, must exit by itself. A gpg
that keeps its output open is killed at the deadline and nothing is assumed of
it. Nothing is assumed of clients, the operator or time.

## Proofs

Every property that a passing run checks is also proved, for every value of the
constants, except `Answered`. Each proofs module states an inductive invariant
`IInv`, proves `Init => IInv` and `IInv /\ [Next]_vars => IInv'` with one lemma or
case per action, and derives its theorems. They assume what the ASSUME of the
module says and nothing else, but for the hypothesis of one theorem about the
throttle.

| Module | Theorem | States |
|---|---|---|
| `NonceZoneProofs` | `LiveNoncesRetained`, `SingleUseBeforeExpiry`, `ReplaysAreGenuine`, `RetryIsIdle`, `ImplementsStore` | `LiveRetained`, `NoReuseBeforeExpiry`, `ReplayIsGenuine`, `RetryReclaimsNothing`, `IsSingleUseStore` |
| `NonceFleetProofs` | `FleetGrantsOnce`, `NodeGrantsOnce`, `OutageIsNoReplay` | `FleetSingleUse`, `NodeSingleUse`, `ReplayHadAttempt` |
| `ThrottleProofs` | `TreeAndQueueAgree`, `NothingForgotten`, `LimitMeansBan`, `BansLast` | `ZoneConsistent`, `EvictionForgetsNothing`, `OverLimitIsBanned`, `BanNotShortened` |
| `ThrottleProofs`, under `CountAlike` | `BurstsBounded` | `BurstBound` |
| `AuthFlowProofs` | `NoSessionUnearned`, `OneSessionEach`, `OvershootBounded`, `ChargesHaveCause`, `RevocationComesFirst` | `SessionsEarned`, `OneSessionPerChallenge`, `OvershootInFlightOnly`, `ChargedForCause`, `RevokedKeepsChallenge` |
| `RequestLifeProofs` | `GpgLeavesNothing`, `GpgOverlooksNothing`, `MainKeepsItsChild`, `PinnedWhileVerified`, `NoSecondAnswer` | `NothingLeft`, `NothingOverlooked`, `MainReapsItsOwn`, `HeldWhileVerified`, `AnsweredOnce` |
| `RevocationProofs` | `WrongAnswersAreRaces`, `CacheWithinLimit`, `PassesByAList` | `WrongOnlyByRace`, `CacheBounded`, `FailsClosed` |
| `SessionsProofs` | `MacConfinesTokens`, `RotationLosesNothing`, `LoginsLast` | `TokensConfined`, `RotationKeepsTokens`, `LoginLasts` |
| `ConfMergeProofs` | `NearestBlockWins`, `SecretIsTheNearest` | `NearestWins`, `SecretInEffect` |
| each of them | `TypeCorrect` | `TypeOK` |

### The arguments

**`NonceZone`.** `LiveRetained` is not inductive by itself: an eviction is judged by
a time read earlier on a lagging clock. `IInv` adds that no cached clock and no
time a thread has read is ahead of the wall clock, that every entry carries the
expiry signed into its challenge, and that whatever a thread holds or the zone
has accepted was issued. Then an evicted entry has expired on the wall clock too.
The lemmas first establish what `evict_expired` removes (`EvictionsStops`), reduce
both versions of the queue to a pruning of it (`ConsumePrunes`), and show what a
pruning keeps (`PrunedKeepsLive`). `RetryIsIdle` rests on `FullAfterFirstPass`: if
the first pass freed nothing the oldest entry is live, and it stops the second
pass too. `ImplementsStore` maps the queue to the set of its nonces and follows
from `StepSimulation`.

**`NonceFleet`.** That two grants of one nonce exclude each other is not visible in
the state of the two calls alone. `IInv` says where each call's evidence is: a call
that Redis answered with OK set a key that Redis holds until the challenge
expires, unless Redis lost it (`KeyInv`), because the TTL it sent reaches the expiry (`TtlInv`,
from the lag of a clock that never leads), so a second winner comes too late
(`WinnerInv`). The zone is treated alike (`ZoneInv`, `SecondInv`). For
`ReplayHadAttempt` each nonce in a zone or in Redis is traced to the call that put
it there (`ZoneTraceInv`, `KeyTraceInv`).

**`Throttle`.** `ZoneInv` (tree, queue and slots agree, clocks lag by at most
`MaxLag`, a node has a failure) is inductive for any locations and carries the
first two theorems. `BanInv` bounds a ban's end from both sides by the ban times of
the locations, so that a later failure cannot move it forward by more than the lag
unless its location bans for less; it too holds for any locations. `BurstsBounded`
holds for locations with one limit and one window, as when the directives are
given once for all, which is the hypothesis `CountAlike`. `BurstBound` is about a history, and its
invariant `BurstInv` ties the history to the node: the last `count` failures belong
to the node's window, the first of them came when that window started, and at
most `limit - 2` failures were carried over from the window before. Once a node
is evicted, no more failures than a window carries over are still within the
span (`Faded`). The history is pruned by the recursive function inside `Without`; `LeastNat` gives the induction
over its index.

**`AuthFlow`.** Between its steps a submission remembers a verdict that was true
when it was reached. `RequestInv` says what each stage still vouches for,
`PoolInv` that a queued request is in its worker's pool once, `StoreInv` that
what is remembered was spent and issued. `UniqueInv` is the heart of
`OneSessionEach`: of a challenge that has not expired, either a session was
granted and the store remembers it, or at most one finished thread holds it and
no session was granted. `OvershootInFlightOnly` is inductive with the types, by
counting a client's requests in flight, for which `Requests` is finite. The two
action properties follow from `IInv` by the actions that can charge a client or
consume a nonce.

**`RequestLife`.** `GpgOK` states, for each stage of `gpg_verify`, what is open and
who has the child; `RequestOK` relates the stage of a request to its count, pin,
timer and gpg call, and `QueueInv` says that a task waits once. The child and nginx's
handler disturb only the call's record, requests and threads only theirs, so that
each action is shown for one call or one request.

**`Revocation`.** A copy that was read after the second of its mtime equals the file
as long as the file has that mtime (`CacheOK`); a reload knows whether the file
was edited since its `stat` (`ReloadOK`). Both follow from mtimes that never lead
the clock. `PassesByAList` needs that a passed check has the mtime of the copy that
decided it (`ClosedOK`), which a later check of the same worker replaces with its
own.

**`Sessions`.** Every token anyone holds has the MAC of its origin (`MadeInv`). Equal
MACs mean equal texts, and a text is taken apart at its separators from the left:
role and keyring have none, so they are equal; then, if the payload has none, the
payload, and, addresses having none, address and agent. `Abreast` says that no node
is more than one secret ahead of another's oldest one and `Known` that a live token's
secret is still known to a node that has come that far. `Shelved` says which
login a jar's cookie belongs to.

**`ConfMerge`.** The invariant says what each merged block holds in terms of the
settings as written (`ServerInv`, `LocationInv`). `NearestBlockWins` then needs that
a bound applied twice is a bound applied once, directive by directive.

### Assumptions on the constants

They are the clamps of `merge_loc_conf` (a window within `StaleFloor`, positive
limits and times), constants that are numbers where the code has numbers, model
values such as `NoNode` that are not members of the set they stand beside, a finite
set of requests in `AuthFlow`, and, in `ConfMerge`, that `pgp_auth` is a flag and that
files named in the configuration are on the modelled disk. No number of workers,
nodes, threads, clients, nonces or requests is assumed.

### Only model-checked

`Answered`: the prover has no rules for fairness and `ENABLED`. The properties of the
four runs in which the code departs from its documents are false, and TLC's
counterexamples are all there is to say of them.

## What is not modelled

- Hashing, HMAC and signatures are ideal. The order of the two red-black trees is
  left out with the hashes: a tree is the set of its nodes.
- The wall clock does not step back.
- `read_body`, `form_field`, `verify_pre`, cookie parsing and the HTML page are
  conversions without state; `AuthFlow` chooses between their success and failure.
- A revocation list that is replaced by renaming another file over it, which may
  have an older mtime: the operator of `Revocation` edits in place.
- Log text, and with it the log lines of the throttle that read a node after the
  mutex is released.
- Directives that choose a cookie attribute, a binding, a TLS option, a log line
  or a buffer size. They are merged like the others.
- The value of `pgp_gpg_path`; a path that is not absolute is among the reasons for
  `Refuse`.
- The limit on core dumps. `mlock` is one of the reasons to refuse a start.
- The bytes of the Redis protocol and of TLS; a step of the exchange succeeds or
  fails.
- Packaging and scripts, which are outside the server.

## Plan

1. An abstract throttle policy that `Throttle` refines; `AuthFlow` over
   `NonceStore`.
2. The previous secret in effect in a location, as a property of `ConfMerge`.
