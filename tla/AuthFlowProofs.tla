---------------------------- MODULE AuthFlowProofs ----------------------------
(***************************************************************************)
(* Proofs about the request flow, for any number of clients, workers,      *)
(* requests, keys and challenges, any pool and any limit.                  *)
(*                                                                         *)
(* Between a thread's verdict and the grant lies a window in which a       *)
(* challenge is consumed and no session exists yet: RequestOK says what a  *)
(* verdict still means then, and UniqueInv that at most one request holds  *)
(* a challenge's favourable verdict, and none once the session is made.    *)
(* What is known of a challenge is never unlearned: Progress.              *)
(***************************************************************************)
EXTENDS AuthFlow, TLAPS, FiniteSetTheorems

Issued == Nonces \ Unissued

\* What is kept of a challenge; a definition to the reader, not to the provers.
ChallengeRec == [client : Clients \cup {NoClient}, exp : Nat]

USE DEF ChallengeRec

\* What is known of a submission on its way.
RequestOK(q) ==
    /\ q.pc # "body" => q.key \in Keys /\ q.nonce \in Issued \cup {NoNonce}
    /\ q.own => q.pc = "done"
    /\ q.pc \in {"judged", "done"} /\ q.gpg = "VALID" => q.key \in Keyring
    /\ q.pc = "done" /\ q.gpg = "VALID" =>
          /\ q.rc = "OK" => /\ q.nonce \in Issued /\ q.nonce \in spent
                            /\ challenge[q.nonce].client = q.client
          /\ q.rc = "DECLINED" => /\ ~q.own
                                  /\ \/ ~Acceptable(q.nonce, q.client)
                                     \/ q.nonce \in spent

RequestInv == \A r \in Requests : InFlight(r) => RequestOK(req[r])

\* A waiting task is a queued request of this worker, and waits once.
PoolInv ==
    \A w \in Workers :
        /\ \A i \in 1..Len(pool[w]) :
              At(pool[w][i], "queued") /\ req[pool[w][i]].worker = w
        /\ \A i, j \in 1..Len(pool[w]) : pool[w][i] = pool[w][j] => i = j

StoreInv ==
    /\ seen \subseteq spent /\ spent \subseteq Issued
    /\ \A n \in Nonces : worth[n] # 0 => n \in spent

\* A thread has consumed n for r, and r has no session yet.
Holds(r, n) ==
    /\ At(r, "done") /\ req[r].nonce = n
    /\ req[r].gpg = "VALID" /\ req[r].rc = "OK"

\* Of a challenge that has not expired, the store remembers what was granted.
UniqueInv ==
    \A n \in Nonces :
        challenge[n].exp > clock =>
            /\ worth[n] <= 1
            /\ worth[n] = 1 => n \in seen
            /\ \A r \in Requests : Holds(r, n) =>
                  /\ n \in seen /\ worth[n] = 0
                  /\ \A s \in Requests : Holds(s, n) => s = r

IInv ==
    /\ TypeOK /\ RequestInv /\ PoolInv /\ StoreInv /\ UniqueInv
    /\ SessionsEarned /\ OvershootInFlightOnly
-----------------------------------------------------------------------------
(* What no step undoes.                                                     *)

\* A challenge once issued stays as it is, and what is spent stays spent.
Progress ==
    /\ clock <= clock' /\ spent \subseteq spent'
    /\ \A n \in Issued : challenge'[n] = challenge[n]

Mine(c) == {r \in Requests : InFlight(r) /\ req[r].client = c}

\* A slot holds a submission or nothing.
LEMMA Slots ==
    ASSUME TypeOK, NEW r \in Requests, InFlight(r)
    PROVE  req[r] \in Submission
    BY Zenon DEF TypeOK, InFlight

\* An issued challenge stays issued.
LEMMA StillIssued ==
    ASSUME Progress, NEW n \in Issued
    PROVE  n \in Issued'
    BY Zenon DEF Progress, Issued, Unissued

\* What is known of a submission stays true while it waits for its next step.
LEMMA Later ==
    ASSUME TypeOK, TypeOK', Progress, NEW q \in Submission, RequestOK(q)
    PROVE  RequestOK(q)'
<1>1. q.nonce \in Issued => q.nonce \in Issued'
    BY StillIssued, Zenon
<1>2. clock \in Nat /\ clock' \in Nat
    BY DEF TypeOK
<1>3. q.nonce \in Issued \cup {NoNonce} /\ ~Acceptable(q.nonce, q.client)
      => ~Acceptable(q.nonce, q.client)'
  <2> SUFFICES ASSUME q.nonce \in Issued \cup {NoNonce},
                      Acceptable(q.nonce, q.client)'
               PROVE  Acceptable(q.nonce, q.client)
      BY Zenon
  <2>1. q.nonce \in Nonces
      BY Zenon DEF Acceptable
  <2>2. q.nonce \in Issued
      BY <2>1, FlowAssumption, Zenon DEF Issued
  <2>3. challenge'[q.nonce] = challenge[q.nonce]
      BY <2>2, Zenon DEF Progress
  <2>4. challenge[q.nonce].exp \in Nat
      BY <2>1, Zenon DEF TypeOK
  <2>5. challenge[q.nonce].exp >= clock
      BY <1>2, <2>3, <2>4 DEF Acceptable, Progress
  <2> QED  BY <2>2, <2>3, <2>5, Zenon DEF Acceptable, Issued
<1>4. q.nonce \in spent => q.nonce \in spent'
    BY Zenon DEF Progress
<1>5. q.nonce \in Issued => challenge'[q.nonce] = challenge[q.nonce]
    BY Zenon DEF Progress
<1>6. q.nonce \in Issued \cup {NoNonce} => (q.nonce \in Issued \cup {NoNonce})'
    BY <1>1, Zenon
<1>7. q.pc = "done" => q.pc # "body"
    BY Zenon
<1> QED  BY <1>1, <1>3, <1>4, <1>5, <1>6, <1>7, Zenon DEF RequestOK

\* The same for all submissions, when some leave and some take a step.
LEMMA RequestsKept ==
    ASSUME IInv, TypeOK', Progress,
           \A s \in Requests :
               req'[s] = NoReq \/ req'[s] = req[s] \/ RequestOK(req[s])'
    PROVE  RequestInv'
<1> SUFFICES ASSUME NEW s \in Requests, InFlight(s)'
             PROVE  RequestOK(req[s])'
    BY Zenon DEF RequestInv
<1>1. CASE req'[s] = req[s]
  <2>1. PICK q : q = req[s]
      BY Zenon
  <2>2. req[s] # NoReq
      BY <1>1, Zenon DEF InFlight
  <2>3. q \in Submission /\ RequestOK(q)
      BY <2>1, <2>2, Slots, Zenon DEF IInv, RequestInv, InFlight
  <2>4. RequestOK(q)'
      BY <2>3, Later, Zenon DEF IInv
  <2>5. q = req'[s]
      BY <1>1, <2>1, Zenon
  <2> QED  BY <2>4, <2>5, Zenon DEF RequestOK
<1>2. CASE req'[s] # req[s]
    BY <1>2, Zenon DEF InFlight
<1> QED  BY <1>1, <1>2, Zenon

\* Sessions stay earned.
LEMMA SessionsKept ==
    ASSUME IInv, Progress, sessions' = sessions
    PROVE  SessionsEarned'
<1> SUFFICES ASSUME NEW s \in sessions
             PROVE  /\ s.client = challenge'[s.nonce].client
                    /\ s.key \in Keyring /\ s.nonce \in spent'
    BY Zenon DEF SessionsEarned
<1>1. /\ s.client = challenge[s.nonce].client
      /\ s.key \in Keyring /\ s.nonce \in spent
    BY Zenon DEF IInv, SessionsEarned
<1>2. s.nonce \in Issued
    BY <1>1, Zenon DEF IInv, StoreInv
<1> QED  BY <1>1, <1>2, Zenon DEF Progress

\* A waiting task is not touched by what happens to other requests.
LEMMA PoolKept ==
    ASSUME IInv, pool' = pool,
           \A s \in Requests : At(s, "queued") => req'[s] = req[s]
    PROVE  PoolInv'
<1>1. \A w \in Workers : \A i \in 1..Len(pool[w]) : pool[w][i] \in Requests
    BY DEF IInv, TypeOK
<1>2. \A w \in Workers : \A i \in 1..Len(pool[w]) :
         (At(pool[w][i], "queued") /\ req[pool[w][i]].worker = w)'
  <2> SUFFICES ASSUME NEW w \in Workers, NEW i \in 1..Len(pool[w])
               PROVE  (At(pool[w][i], "queued") /\ req[pool[w][i]].worker = w)'
      BY Zenon
  <2>1. /\ At(pool[w][i], "queued") /\ req[pool[w][i]].worker = w
        /\ pool[w][i] \in Requests
      BY <1>1, Zenon DEF IInv, PoolInv
  <2>2. req'[pool[w][i]] = req[pool[w][i]] /\ pool'[w][i] = pool[w][i]
      BY <2>1, Zenon
  <2> QED  BY <2>1, <2>2, Zenon DEF At, InFlight
<1> QED  BY <1>2, ZenonT(40) DEF IInv, PoolInv

\* Of a challenge nobody newly holds, no more is granted.
LEMMA UniqueKept ==
    ASSUME IInv, TypeOK', Progress, worth' = worth,
           \A n \in Issued :
               challenge[n].exp > clock /\ n \in seen => n \in seen',
           \A s \in Requests, n \in Nonces : Holds(s, n)' => Holds(s, n)
    PROVE  UniqueInv'
<1> SUFFICES ASSUME NEW n \in Nonces, challenge'[n].exp > clock'
             PROVE  /\ worth'[n] <= 1
                    /\ worth'[n] = 1 => n \in seen'
                    /\ \A r \in Requests : Holds(r, n)' =>
                          /\ n \in seen' /\ worth'[n] = 0
                          /\ \A s \in Requests : Holds(s, n)' => s = r
    BY Zenon DEF UniqueInv
<1>1. CASE n \in Issued
  <2>1. challenge'[n] = challenge[n]
      BY <1>1, Zenon DEF Progress
  <2>2. clock \in Nat /\ clock' \in Nat /\ challenge[n].exp \in Nat
      BY DEF IInv, TypeOK
  <2>3. challenge[n].exp > clock
      BY <2>1, <2>2 DEF Progress
  <2>4. /\ worth[n] <= 1
        /\ worth[n] = 1 => n \in seen
        /\ \A r \in Requests : Holds(r, n) =>
              /\ n \in seen /\ worth[n] = 0
              /\ \A s \in Requests : Holds(s, n) => s = r
      BY <2>3, Zenon DEF IInv, UniqueInv
  <2>5. n \in seen => n \in seen'
      BY <1>1, <2>3, Zenon
  <2> QED  BY <2>4, <2>5, Zenon
<1>2. CASE n \notin Issued
  <2>1. worth[n] = 0
      BY <1>2, Zenon DEF IInv, StoreInv
  <2>2. \A r \in Requests : ~Holds(r, n)
      BY <1>2, Zenon DEF IInv, RequestInv, RequestOK, Holds, At
  <2> QED  BY <2>1, <2>2
<1> QED  BY <1>1, <1>2, Zenon
\* A submission that is charged leaves; only a client under its limit gets one
\* more in.
LEMMA LimitKept ==
    ASSUME IInv, TypeOK',
           \A c \in Clients :
               \/ strikes'[c] < FailureLimit
               \/ strikes'[c] <= strikes[c] /\ Mine(c)' \subseteq Mine(c)
               \/ /\ strikes'[c] = strikes[c] + 1
                  /\ \E r \in Mine(c) : Mine(c)' \subseteq Mine(c) \ {r}
    PROVE  OvershootInFlightOnly'
<1> SUFFICES ASSUME NEW c \in Clients
             PROVE  strikes'[c] + Cardinality(Mine(c)')
                    <= FailureLimit - 1 + Cardinality(Requests)
    BY Zenon DEF OvershootInFlightOnly, Mine
<1>1. strikes[c] + Cardinality(Mine(c))
      <= FailureLimit - 1 + Cardinality(Requests)
    BY Zenon DEF IInv, OvershootInFlightOnly, Mine
<1>2. Mine(c) \subseteq Requests /\ Mine(c)' \subseteq Requests
    BY Zenon DEF Mine
<1>3. PICK mine : mine = Mine(c)
    BY Zenon
<1>4. PICK later : later = Mine(c)'
    BY Zenon
<1>5. IsFiniteSet(Requests)
    BY FlowAssumption, Zenon
<1>6. /\ IsFiniteSet(mine) /\ IsFiniteSet(later)
      /\ Cardinality(later) <= Cardinality(Requests)
    BY <1>2, <1>3, <1>4, <1>5, FS_Subset, Zenon
<1>7. /\ Cardinality(Requests) \in Nat /\ Cardinality(mine) \in Nat
      /\ Cardinality(later) \in Nat
    BY <1>5, <1>6, FS_CardinalityType, Zenon
<1>8. /\ FailureLimit \in Nat \ {0}
      /\ strikes[c] \in Nat /\ strikes'[c] \in Nat
    BY FlowAssumption, Zenon DEF IInv, TypeOK
<1>9. CASE strikes'[c] < FailureLimit
    BY <1>4, <1>6, <1>7, <1>8, <1>9
<1>10. CASE strikes'[c] <= strikes[c] /\ Mine(c)' \subseteq Mine(c)
  <2>1. Cardinality(later) <= Cardinality(mine)
      BY <1>3, <1>4, <1>6, <1>10, FS_Subset, Zenon
  <2> QED  BY <1>1, <1>3, <1>4, <1>7, <1>8, <1>10, <2>1
<1>11. CASE /\ strikes'[c] = strikes[c] + 1
            /\ \E r \in Mine(c) : Mine(c)' \subseteq Mine(c) \ {r}
  <2>1. PICK r \in mine : later \subseteq mine \ {r}
      BY <1>3, <1>4, <1>11, Zenon
  <2>2. /\ IsFiniteSet(mine \ {r})
        /\ Cardinality(mine \ {r}) = Cardinality(mine) - 1
      BY <1>6, FS_RemoveElement, Zenon
  <2>3. Cardinality(later) <= Cardinality(mine) - 1
      BY <2>1, <2>2, FS_Subset
  <2> QED  BY <1>1, <1>3, <1>4, <1>7, <1>8, <1>11, <2>3
<1> QED  BY <1>9, <1>10, <1>11, Zenon

\* A step that grants nothing and makes nobody hold a challenge.
LEMMA Kept ==
    ASSUME IInv, TypeOK', PoolInv', StoreInv', Progress,
           sessions' = sessions, worth' = worth,
           \A n \in Issued :
               challenge[n].exp > clock /\ n \in seen => n \in seen',
           \A s \in Requests, n \in Nonces : Holds(s, n)' => Holds(s, n),
           \A s \in Requests :
               req'[s] = NoReq \/ req'[s] = req[s] \/ RequestOK(req[s])',
           OvershootInFlightOnly'
    PROVE  IInv'
<1>1. RequestInv'
    BY RequestsKept, Zenon
<1>2. UniqueInv'
    BY UniqueKept, Zenon
<1>3. SessionsEarned'
    BY SessionsKept, Zenon
<1> QED  BY <1>1, <1>2, <1>3, Zenon DEF IInv

\* The same when the store is not asked either.
LEMMA Quiet ==
    ASSUME IInv, TypeOK', PoolInv', clock <= clock',
           \A n \in Issued : challenge'[n] = challenge[n],
           seen' = seen, spent' = spent, sessions' = sessions, worth' = worth,
           \A s \in Requests, n \in Nonces : Holds(s, n)' => Holds(s, n),
           \A s \in Requests :
               req'[s] = NoReq \/ req'[s] = req[s] \/ RequestOK(req[s])',
           OvershootInFlightOnly'
    PROVE  IInv'
<1>1. Progress
    BY Zenon DEF Progress
<1>2. \A n \in Issued : n \in Issued'
    BY <1>1, StillIssued, Zenon
<1>3. StoreInv'
    BY <1>2, Zenon DEF IInv, StoreInv
<1> QED  BY <1>1, <1>3, Kept, Zenon

-----------------------------------------------------------------------------
(* The surroundings.                                                        *)

\* Time passes, the operator edits the list, a ban lapses: nothing on its way
\* is touched.
LEMMA OutsideStep ==
    ASSUME IInv,
           \/ Tick
           \/ \E k \in Keyring : EditRevocations(k)
           \/ \E c \in Clients : Lapse(c)
           \/ UNCHANGED vars
    PROVE  IInv'
<1>1. /\ challenge' = challenge /\ req' = req /\ busy' = busy /\ pool' = pool
      /\ seen' = seen /\ spent' = spent /\ sessions' = sessions
      /\ worth' = worth
    BY Zenon DEF Tick, EditRevocations, Lapse, vars, store, logins
<1>2. clock' \in 1..MaxClock /\ clock <= clock'
    BY FlowAssumption
       DEF IInv, TypeOK, Tick, EditRevocations, Lapse, vars, store, logins
<1>3. revoked' \subseteq Keys
    BY FlowAssumption
       DEF IInv, TypeOK, Tick, EditRevocations, Lapse, vars, store, logins
<1>4. /\ strikes' \in [Clients -> Nat]
      /\ \A c \in Clients : strikes'[c] <= strikes[c]
  <2>1. \/ strikes' = strikes
        \/ \E c \in Clients : strikes' = [strikes EXCEPT ![c] = 0]
      BY Zenon DEF Tick, EditRevocations, Lapse, vars
  <2>2. strikes \in [Clients -> Nat]
      BY Zenon DEF IInv, TypeOK
  <2> QED  BY <2>1, <2>2
<1>5. TypeOK'
    BY <1>1, <1>2, <1>3, <1>4, Zenon DEF IInv, TypeOK
<1>6. PoolInv'
    BY <1>1, PoolKept, Zenon
<1>7. \A c \in Clients : Mine(c)' = Mine(c)
    BY <1>1, Zenon DEF Mine, InFlight
<1>8. OvershootInFlightOnly'
  <2>1. \A c \in Clients :
           strikes'[c] <= strikes[c] /\ Mine(c)' \subseteq Mine(c)
      BY <1>4, <1>7, Zenon
  <2> QED  BY <1>5, <2>1, LimitKept, Zenon
<1>9. \A s \in Requests, n \in Nonces : Holds(s, n)' => Holds(s, n)
    BY <1>1, Zenon DEF Holds, At, InFlight
<1> QED  BY <1>1, <1>2, <1>5, <1>6, <1>8, <1>9, Quiet, Zenon

\* The store forgets an expired nonce.
LEMMA ForgetStep ==
    ASSUME IInv, NEW n \in Nonces, Forget(n)
    PROVE  IInv'
<1>1. /\ clock' = clock /\ challenge' = challenge /\ revoked' = revoked
      /\ strikes' = strikes /\ req' = req /\ busy' = busy /\ pool' = pool
      /\ spent' = spent /\ sessions' = sessions /\ worth' = worth
      /\ seen' = seen \ {n} /\ challenge[n].exp <= clock
    BY Zenon DEF Forget, logins
<1>2. TypeOK'
    BY <1>1, Zenon DEF IInv, TypeOK
<1>3. PoolInv'
    BY <1>1, PoolKept, Zenon
<1>4. clock <= clock' /\ ~(challenge[n].exp > clock)
  <2>1. clock \in Nat /\ challenge[n].exp \in Nat
      BY DEF IInv, TypeOK
  <2> QED  BY <1>1, <2>1
<1>5. Progress
    BY <1>1, <1>4, Zenon DEF Progress
<1>6. StoreInv'
    BY <1>1, Zenon DEF IInv, StoreInv, Issued, Unissued
<1>7. \A m \in Issued : challenge[m].exp > clock /\ m \in seen => m \in seen'
    BY <1>1, <1>4, Zenon
<1>8. \A s \in Requests, m \in Nonces : Holds(s, m)' => Holds(s, m)
    BY <1>1, Zenon DEF Holds, At, InFlight
<1>9. OvershootInFlightOnly'
    BY <1>1, Zenon DEF IInv, OvershootInFlightOnly, InFlight
<1> QED  BY <1>1, <1>2, <1>3, <1>5, <1>6, <1>7, <1>8, <1>9, Kept, Zenon
-----------------------------------------------------------------------------
(* The answers.                                                             *)

\* Only an unissued challenge is given out.
LEMMA SendOf ==
    ASSUME TypeOK, NEW c \in Clients, SendChallenge(c)
    PROVE  /\ challenge' \in [Nonces -> ChallengeRec]
           /\ \A n \in Issued : challenge'[n] = challenge[n]
<1>1. CASE UNCHANGED challenge
    BY <1>1 DEF TypeOK
<1>2. CASE \E n \in Unissued :
              challenge' = [challenge EXCEPT
                    ![n] = [client |-> c, exp |-> clock + ChallengeTimeout]]
  <2>1. PICK n \in Unissued :
              challenge' = [challenge EXCEPT
                    ![n] = [client |-> c, exp |-> clock + ChallengeTimeout]]
      BY <1>2, Zenon
  <2>2. clock + ChallengeTimeout \in Nat
      BY FlowAssumption DEF TypeOK
  <2>3. [client |-> c, exp |-> clock + ChallengeTimeout]
           \in ChallengeRec
      BY <2>2, Zenon
  <2> QED  BY <2>1, <2>3, Zenon DEF TypeOK, Issued, Unissued
<1> QED  BY <1>1, <1>2, Zenon DEF SendChallenge

\* An answer takes the request out of its slot and charges its client once, for
\* a refusal only.
LEMMA FinalizeOf ==
    ASSUME TypeOK, NEW r \in Requests, InFlight(r), NEW rc, Finalize(r, rc)
    PROVE  /\ req' = [req EXCEPT ![r] = NoReq]
           /\ challenge' \in [Nonces -> ChallengeRec]
           /\ \A n \in Issued : challenge'[n] = challenge[n]
           /\ strikes' \in [Clients -> Nat]
           /\ \A c \in Clients :
                 \/ strikes'[c] <= strikes[c]
                 \/ /\ rc = "DECLINED" /\ c = req[r].client
                    /\ strikes'[c] = strikes[c] + 1
<1> DEFINE c == req[r].client
<1>1. c \in Clients
    BY Slots, Zenon DEF Submission
<1>2. strikes \in [Clients -> Nat]
    BY Zenon DEF TypeOK
<1>3. req' = [req EXCEPT ![r] = NoReq]
    BY Zenon DEF Finalize
<1> HIDE DEF c
<1>4. CASE UNCHANGED <<strikes, challenge>>
    BY <1>2, <1>3, <1>4 DEF TypeOK
<1>5. CASE strikes' = [strikes EXCEPT ![c] = 0] /\ UNCHANGED challenge
    BY <1>1, <1>2, <1>3, <1>5 DEF TypeOK
<1>6. CASE /\ rc = "DECLINED" /\ SendChallenge(c)
           /\ strikes' = [strikes EXCEPT ![c] = @ + 1]
  <2>1. /\ challenge' \in [Nonces -> ChallengeRec]
        /\ \A n \in Issued : challenge'[n] = challenge[n]
      BY <1>1, <1>6, SendOf, Zenon
  <2>2. /\ strikes' \in [Clients -> Nat]
        /\ \A d \in Clients :
              \/ strikes'[d] <= strikes[d]
              \/ d = c /\ strikes'[d] = strikes[d] + 1
    <3>1. strikes[c] \in Nat /\ strikes[c] + 1 \in Nat
        BY <1>1, <1>2
    <3>2. strikes' \in [Clients -> Nat]
        BY <1>2, <1>6, <3>1, Zenon
    <3>3. ASSUME NEW d \in Clients
          PROVE  \/ strikes'[d] <= strikes[d]
                 \/ d = c /\ strikes'[d] = strikes[d] + 1
      <4>1. CASE d = c
          BY <1>1, <1>2, <1>6, <4>1, Zenon
      <4>2. CASE d # c
        <5>1. strikes'[d] = strikes[d] /\ strikes[d] \in Nat
            BY <1>2, <1>6, <4>2, Zenon
        <5> QED  BY <5>1
      <4> QED  BY <4>1, <4>2, Zenon
    <3> QED  BY <3>2, <3>3, Zenon
  <2> QED  BY <1>3, <1>6, <2>1, <2>2, Zenon DEF c
<1> QED  BY <1>4, <1>5, <1>6, Zenon DEF Finalize, c

\* A request that leaves is one less of its client's, so a charge for it fits.
LEMMA Leaves ==
    ASSUME IInv, NEW r \in Requests, InFlight(r), ~At(r, "queued"), NEW rc,
           Finalize(r, rc)
    PROVE  /\ req' \in [Requests -> Submission \cup {NoReq}]
           /\ TypeOK' => OvershootInFlightOnly'
           /\ pool' = pool => PoolInv'
           /\ \A s \in Requests : req'[s] = NoReq \/ req'[s] = req[s]
           /\ \A s \in Requests, n \in Nonces :
                 Holds(s, n)' => Holds(s, n) /\ s # r
<1>1. /\ req' = [req EXCEPT ![r] = NoReq]
      /\ strikes' \in [Clients -> Nat]
      /\ \A c \in Clients :
            \/ strikes'[c] <= strikes[c]
            \/ c = req[r].client /\ strikes'[c] = strikes[c] + 1
    BY FinalizeOf, Zenon DEF IInv
<1>2. req \in [Requests -> Submission \cup {NoReq}]
    BY Zenon DEF IInv, TypeOK
<1>3. /\ req' \in [Requests -> Submission \cup {NoReq}]
      /\ req'[r] = NoReq /\ \A s \in Requests : s # r => req'[s] = req[s]
    BY <1>1, <1>2, Zenon
<1>4. \A c \in Clients : Mine(c)' \subseteq Mine(c) \ {r}
    BY <1>3, Zenon DEF Mine, InFlight
<1>5. TypeOK' => OvershootInFlightOnly'
  <2>1. r \in Mine(req[r].client)
      BY Zenon DEF Mine
  <2>2. \A c \in Clients :
           \/ strikes'[c] <= strikes[c] /\ Mine(c)' \subseteq Mine(c)
           \/ /\ strikes'[c] = strikes[c] + 1
              /\ \E s \in Mine(c) : Mine(c)' \subseteq Mine(c) \ {s}
      BY <1>1, <1>4, <2>1, Zenon
  <2> QED  BY <2>2, LimitKept, Zenon
<1>6. \A s \in Requests : At(s, "queued") => req'[s] = req[s]
    BY <1>3, Zenon
<1>7. \A s \in Requests, n \in Nonces : Holds(s, n)' => Holds(s, n) /\ s # r
    BY <1>3, Zenon DEF Holds, At, InFlight
<1> QED  BY <1>3, <1>5, <1>6, <1>7, PoolKept, Zenon

\* What an answer leaves in order, also when the store was asked before.
LEMMA AnswerOf ==
    ASSUME IInv, NEW r \in Requests, InFlight(r), ~At(r, "queued"), NEW rc,
           Finalize(r, rc), UNCHANGED <<clock, revoked, pool>>,
           busy' \in [Workers -> Requests \cup {NoReq}],
           spent \subseteq spent', seen' \subseteq spent',
           spent' \subseteq Issued,
           sessions' \subseteq Session, worth' \in [Nonces -> 0..2]
    PROVE  /\ TypeOK' /\ Progress
           /\ RequestInv' /\ PoolInv' /\ OvershootInFlightOnly'
           /\ seen' \subseteq spent' /\ spent' \subseteq Issued'
           /\ \A s \in Requests : req'[s] = NoReq \/ req'[s] = req[s]
           /\ \A s \in Requests, n \in Nonces :
                 Holds(s, n)' => Holds(s, n) /\ s # r
<1>1. /\ challenge' \in [Nonces -> ChallengeRec]
      /\ \A n \in Issued : challenge'[n] = challenge[n]
      /\ strikes' \in [Clients -> Nat]
    BY FinalizeOf, Zenon DEF IInv
<1>2. /\ req' \in [Requests -> Submission \cup {NoReq}]
      /\ TypeOK' => OvershootInFlightOnly'
      /\ PoolInv'
      /\ \A s \in Requests : req'[s] = NoReq \/ req'[s] = req[s]
      /\ \A s \in Requests, n \in Nonces :
            Holds(s, n)' => Holds(s, n) /\ s # r
  <2>1. pool' = pool
      BY Zenon
  <2> QED  BY <2>1, Leaves, Zenon
<1>3. clock' = clock /\ revoked' = revoked /\ pool' = pool
    BY Zenon
<1>4. seen' \subseteq Nonces /\ spent' \subseteq Nonces
    BY Zenon DEF Issued
<1>5. TypeOK'
    BY <1>1, <1>2, <1>3, <1>4, Zenon DEF IInv, TypeOK
<1>6. clock <= clock'
    BY <1>3 DEF IInv, TypeOK
<1>7. Progress
    BY <1>1, <1>6, Zenon DEF Progress
<1>8. RequestInv'
    BY <1>2, <1>5, <1>7, RequestsKept, Zenon
<1>9. spent' \subseteq Issued'
    BY <1>7, StillIssued, Zenon
<1> QED  BY <1>2, <1>5, <1>7, <1>8, <1>9, Zenon

\* An answer without a session.
LEMMA AnswerStep ==
    ASSUME IInv, NEW r \in Requests, InFlight(r), ~At(r, "queued"), NEW rc,
           Finalize(r, rc), UNCHANGED <<clock, revoked, pool, logins>>,
           busy' \in [Workers -> Requests \cup {NoReq}],
           spent \subseteq spent', seen' \subseteq spent',
           spent' \subseteq Issued,
           seen \subseteq seen'
    PROVE  IInv'
<1>1. sessions' = sessions /\ worth' = worth
    BY Zenon DEF logins
<1>2. sessions' \subseteq Session /\ worth' \in [Nonces -> 0..2]
    BY <1>1, Zenon DEF IInv, TypeOK
<1>3. UNCHANGED <<clock, revoked, pool>>
    BY Zenon
<1>4. /\ TypeOK' /\ Progress
      /\ RequestInv' /\ PoolInv' /\ OvershootInFlightOnly'
      /\ seen' \subseteq spent' /\ spent' \subseteq Issued'
      /\ \A s \in Requests : req'[s] = NoReq \/ req'[s] = req[s]
      /\ \A s \in Requests, n \in Nonces : Holds(s, n)' => Holds(s, n)
    BY <1>2, <1>3, AnswerOf, Zenon
<1>5. StoreInv'
    BY <1>1, <1>4, Zenon DEF IInv, StoreInv
<1>6. \A n \in Issued : n \in seen => n \in seen'
    BY Zenon
<1> QED  BY <1>1, <1>4, <1>5, <1>6, Kept, Zenon

-----------------------------------------------------------------------------
(* The access handler.                                                      *)

\* A challenge page changes nothing but the new challenge.
LEMMA ChallengeStep ==
    ASSUME IInv, NEW r \in Requests, NEW w \in Workers, NEW c \in Clients,
           Challenge(r, w, c)
    PROVE  IInv'
<1>1. /\ clock' = clock /\ revoked' = revoked /\ pool' = pool /\ busy' = busy
      /\ seen' = seen /\ spent' = spent /\ sessions' = sessions
      /\ worth' = worth /\ strikes' = strikes /\ req' = req
      /\ SendChallenge(c)
    BY Zenon DEF Challenge, Unmoved, store, logins
<1>2. /\ challenge' \in [Nonces -> ChallengeRec]
      /\ \A n \in Issued : challenge'[n] = challenge[n]
    BY <1>1, SendOf, Zenon DEF IInv
<1>3. TypeOK'
    BY <1>1, <1>2, Zenon DEF IInv, TypeOK
<1>4. PoolInv'
    BY <1>1, PoolKept, Zenon
<1>5. clock <= clock'
    BY <1>1 DEF IInv, TypeOK
<1>6. \A s \in Requests, n \in Nonces : Holds(s, n)' => Holds(s, n)
    BY <1>1, Zenon DEF Holds, At, InFlight
<1>7. OvershootInFlightOnly'
    BY <1>1, Zenon DEF IInv, OvershootInFlightOnly, InFlight
<1> QED  BY <1>1, <1>2, <1>3, <1>4, <1>5, <1>6, <1>7, Quiet, Zenon

\* A client under its limit gets a submission in.
LEMMA ReadBodyStep ==
    ASSUME IInv, NEW r \in Requests, NEW w \in Workers, NEW c \in Clients,
           ReadBody(r, w, c)
    PROVE  IInv'
<1> DEFINE q == [pc |-> "body", client |-> c, worker |-> w, nonce |-> NoNonce,
                 key |-> NoKey, gpg |-> "NONE", rc |-> "NONE", own |-> FALSE]
<1>1. /\ clock' = clock /\ revoked' = revoked /\ pool' = pool /\ busy' = busy
      /\ seen' = seen /\ spent' = spent /\ sessions' = sessions
      /\ worth' = worth /\ strikes' = strikes /\ challenge' = challenge
      /\ req' = [req EXCEPT ![r] = q]
      /\ ~InFlight(r) /\ ~Banned(c)
    BY Zenon DEF ReadBody, Arrive, Unmoved, store, logins
<1>2. q \in Submission /\ q.pc = "body" /\ q.client = c /\ q.own = FALSE
    BY Zenon DEF Submission
<1> HIDE DEF q
<1>3. /\ req' \in [Requests -> Submission \cup {NoReq}]
      /\ req'[r] = q /\ \A s \in Requests : s # r => req'[s] = req[s]
    BY <1>1, <1>2, Zenon DEF IInv, TypeOK
<1>4. TypeOK'
    BY <1>1, <1>3, Zenon DEF IInv, TypeOK
<1>5. PoolInv'
  <2>1. \A s \in Requests : At(s, "queued") => req'[s] = req[s]
      BY <1>1, <1>3, Zenon DEF At
  <2> QED  BY <1>1, <2>1, PoolKept, Zenon
<1>6. clock <= clock'
    BY <1>1 DEF IInv, TypeOK
<1>7. \A s \in Requests, n \in Nonces : Holds(s, n)' => Holds(s, n)
    BY <1>2, <1>3, Zenon DEF Holds, At, InFlight
<1>8. OvershootInFlightOnly'
  <2>1. strikes'[c] < FailureLimit
      BY <1>1, FlowAssumption DEF Banned, IInv, TypeOK
  <2>2. \A d \in Clients : d # c => Mine(d)' \subseteq Mine(d)
      BY <1>2, <1>3, Zenon DEF Mine, InFlight
  <2>3. \A d \in Clients : strikes'[d] <= strikes[d]
      BY <1>1 DEF IInv, TypeOK
  <2> QED  BY <1>4, <2>1, <2>2, <2>3, LimitKept, Zenon
<1>9. RequestOK(req[r])'
    BY <1>2, <1>3, Zenon DEF RequestOK
<1> QED  BY <1>1, <1>3, <1>4, <1>5, <1>6, <1>7, <1>8, <1>9, Quiet, ZenonT(40)
-----------------------------------------------------------------------------
(* On the way to gpg.                                                       *)

\* A request takes a step that ends before its verdict.
LEMMA MoveStep ==
    ASSUME IInv, NEW r \in Requests, InFlight(r), NEW q \in Submission,
           req' = [req EXCEPT ![r] = q],
           q.client = req[r].client, q.pc # "done", RequestOK(q),
           UNCHANGED <<clock, challenge, revoked, strikes, store, logins>>,
           busy' \in [Workers -> Requests \cup {NoReq}],
           pool' \in [Workers -> Seq(Requests)], PoolInv'
    PROVE  IInv'
<1>1. /\ clock' = clock /\ revoked' = revoked /\ challenge' = challenge
      /\ seen' = seen /\ spent' = spent /\ sessions' = sessions
      /\ worth' = worth /\ strikes' = strikes
    BY Zenon DEF store, logins
<1>2. /\ req' \in [Requests -> Submission \cup {NoReq}]
      /\ req'[r] = q /\ \A s \in Requests : s # r => req'[s] = req[s]
    BY Zenon DEF IInv, TypeOK
<1>3. TypeOK'
    BY <1>1, <1>2, Zenon DEF IInv, TypeOK
<1>4. clock <= clock'
    BY <1>1 DEF IInv, TypeOK
<1>5. \A s \in Requests, n \in Nonces : Holds(s, n)' => Holds(s, n)
    BY <1>2, Zenon DEF Holds, At, InFlight
<1>6. OvershootInFlightOnly'
  <2>1. \A c \in Clients : Mine(c)' \subseteq Mine(c)
      BY <1>2, Zenon DEF Mine, InFlight
  <2>2. \A c \in Clients : strikes'[c] <= strikes[c]
      BY <1>1 DEF IInv, TypeOK
  <2> QED  BY <1>3, <2>1, <2>2, LimitKept, Zenon
<1>7. RequestOK(req[r])'
  <2>1. Progress
      BY <1>1, <1>4, Zenon DEF Progress
  <2>2. RequestOK(q)'
      BY <1>3, <2>1, Later, Zenon DEF IInv
  <2> QED  BY <1>2, <2>2, Zenon DEF RequestOK
<1> QED  BY <1>1, <1>2, <1>3, <1>4, <1>5, <1>6, <1>7, Quiet, ZenonT(40)

\* The body handler files a submission with its key and its challenge.
LEMMA SignedOf ==
    ASSUME IInv, NEW r \in Requests, At(r, "body"),
           NEW pc \in {"queued", "sync"}, Signed(r, pc)
    PROVE  \E q \in Submission :
              /\ req' = [req EXCEPT ![r] = q]
              /\ q.pc = pc /\ q.client = req[r].client
              /\ q.worker = req[r].worker
              /\ RequestOK(q)
<1>1. PICK k \in Keys, n \in (Nonces \ Unissued) \cup {NoNonce} :
         req' = [req EXCEPT ![r].pc = pc, ![r].key = k, ![r].nonce = n]
    BY Zenon DEF Signed
<1>2. PICK old : old = req[r]
    BY Zenon
<1>3. old \in Submission /\ RequestOK(old) /\ old.pc = "body"
    BY <1>2, Slots, Zenon DEF IInv, RequestInv, At
<1>4. n \in Issued \cup {NoNonce} /\ n \in Nonces \cup {NoNonce}
    BY Zenon DEF Issued
<1> DEFINE q == [old EXCEPT !.pc = pc, !.key = k, !.nonce = n]
<1>5. /\ q \in Submission
      /\ q.pc = pc /\ q.client = old.client /\ q.worker = old.worker
      /\ q.key = k /\ q.nonce = n /\ q.own = old.own
    BY <1>3, <1>4, Zenon DEF Submission
<1>6. req' = [req EXCEPT ![r] = q]
    BY <1>1, <1>2, Zenon
<1> HIDE DEF q
<1>7. RequestOK(q)
    BY <1>3, <1>4, <1>5, Zenon DEF RequestOK
<1> QED  BY <1>2, <1>5, <1>6, <1>7, Zenon

\* A body that is refused, cannot be kept, or does not come.
LEMMA SubmitRefusedStep ==
    ASSUME IInv, NEW r \in Requests,
           BodyTimeout(r) \/ SubmitFailed(r) \/ SubmitRejected(r)
    PROVE  IInv'
<1>1. /\ At(r, "body")
      /\ UNCHANGED <<clock, revoked, busy, pool, store, logins>>
      /\ \E rc \in {"ABORT", "ERROR", "DECLINED"} : Finalize(r, rc)
    BY Zenon
       DEF BodyTimeout, SubmitFailed, SubmitRejected, Unmoved, Finalize
<1>2. InFlight(r) /\ ~At(r, "queued")
    BY <1>1, Zenon DEF At
<1>3. busy' \in [Workers -> Requests \cup {NoReq}]
    BY <1>1, Zenon DEF IInv, TypeOK
<1>4. /\ spent \subseteq spent' /\ seen' \subseteq spent'
      /\ spent' \subseteq Issued /\ seen \subseteq seen'
    BY <1>1, Zenon DEF store, IInv, StoreInv
<1>5. UNCHANGED <<clock, revoked, pool, logins>>
    BY <1>1, Zenon
<1> QED  BY <1>1, <1>2, <1>3, <1>4, <1>5, AnswerStep, Zenon

\* A task is posted at the end of its worker's queue.
LEMMA SubmitAsyncStep ==
    ASSUME IInv, NEW r \in Requests, SubmitAsync(r)
    PROVE  IInv'
<1>1. PICK w : w = req[r].worker
    BY Zenon
<1>2. /\ At(r, "body") /\ Signed(r, "queued")
      /\ pool' = [pool EXCEPT ![w] = Append(@, r)]
      /\ UNCHANGED <<clock, challenge, revoked, strikes, busy, store, logins>>
    BY <1>1, Zenon DEF SubmitAsync
<1>3. InFlight(r) /\ ~At(r, "queued")
    BY <1>2, Zenon DEF At
<1>4. w \in Workers
    BY <1>1, <1>3, Slots, Zenon DEF IInv, Submission
<1>5. PICK q \in Submission :
         /\ req' = [req EXCEPT ![r] = q]
         /\ q.pc = "queued" /\ q.client = req[r].client
         /\ q.worker = w /\ RequestOK(q)
    BY <1>1, <1>2, SignedOf, Zenon
<1>6. pool \in [Workers -> Seq(Requests)]
    BY Zenon DEF IInv, TypeOK
<1>7. PICK t : t = pool[w]
    BY Zenon
<1>8. t \in Seq(Requests)
    BY <1>4, <1>6, <1>7, Zenon
<1>9. /\ pool' \in [Workers -> Seq(Requests)]
      /\ pool'[w] = Append(t, r)
      /\ \A v \in Workers : v # w => pool'[v] = pool[v]
    BY <1>2, <1>4, <1>6, <1>7
<1>10. /\ req'[r] = q /\ q # NoReq
       /\ \A s \in Requests : s # r => req'[s] = req[s]
    BY <1>5, FlowAssumption, Zenon DEF IInv, TypeOK
<1>11. \A v \in Workers : \A i \in 1..Len(pool[v]) :
          /\ pool[v][i] \in Requests /\ pool[v][i] # r
          /\ At(pool[v][i], "queued") /\ req[pool[v][i]].worker = v
  <2>1. \A v \in Workers : \A i \in 1..Len(pool[v]) : pool[v][i] \in Requests
      BY <1>6
  <2>2. \A v \in Workers : \A i \in 1..Len(pool[v]) :
           At(pool[v][i], "queued") /\ req[pool[v][i]].worker = v
      BY Zenon DEF IInv, PoolInv
  <2> QED  BY <1>3, <2>1, <2>2, Zenon
<1>12. ASSUME NEW v \in Workers, NEW i \in 1..Len(pool'[v])
       PROVE  (At(pool[v][i], "queued") /\ req[pool[v][i]].worker = v)'
  <2>1. CASE pool'[v][i] = r
    <3>1. v = w
      <4>1. v # w => pool[v][i] = r /\ i \in 1..Len(pool[v])
          BY <1>9, <2>1, Zenon
      <4> QED  BY <1>11, <4>1, Zenon
    <3> QED  BY <1>5, <1>10, <2>1, <3>1, Zenon DEF At, InFlight
  <2>2. CASE pool'[v][i] # r
    <3>1. i \in 1..Len(pool[v]) /\ pool'[v][i] = pool[v][i]
      <4>1. CASE v # w
          BY <1>9, <4>1, Zenon
      <4>2. CASE v = w
          BY <1>7, <1>8, <1>9, <2>2, <4>2
      <4> QED  BY <4>1, <4>2, Zenon
    <3>2. /\ pool[v][i] \in Requests /\ pool[v][i] # r
          /\ At(pool[v][i], "queued") /\ req[pool[v][i]].worker = v
        BY <1>11, <3>1, Zenon
    <3>3. req'[pool[v][i]] = req[pool[v][i]]
        BY <1>10, <3>2, Zenon
    <3> QED  BY <3>1, <3>2, <3>3, Zenon DEF At, InFlight
  <2> QED  BY <2>1, <2>2, Zenon
<1>13. ASSUME NEW v \in Workers, NEW i \in 1..Len(pool'[v]),
              NEW j \in 1..Len(pool'[v]), pool'[v][i] = pool'[v][j]
       PROVE  i = j
  <2>1. \A a, b \in 1..Len(pool[v]) : pool[v][a] = pool[v][b] => a = b
      BY Zenon DEF IInv, PoolInv
  <2>2. CASE v # w
      BY <1>9, <1>13, <2>1, <2>2, Zenon
  <2>3. CASE v = w
    <3>1. \A a, b \in 1..Len(t) : t[a] = t[b] => a = b
        BY <1>7, <2>1, <2>3, Zenon
    <3>2. \A a \in 1..Len(t) : t[a] # r
        BY <1>4, <1>7, <1>11, Zenon
    <3> QED  BY <1>8, <1>9, <1>13, <2>3, <3>1, <3>2
  <2> QED  BY <2>2, <2>3, Zenon
<1>14. PoolInv'
    BY <1>12, <1>13, Zenon DEF PoolInv
<1>15. /\ UNCHANGED <<clock, challenge, revoked, strikes, store, logins>>
       /\ busy' \in [Workers -> Requests \cup {NoReq}]
    BY <1>2, Zenon DEF IInv, TypeOK
<1>16. q.pc # "done"
    BY <1>5, Zenon
<1> QED  BY <1>3, <1>5, <1>9, <1>14, <1>15, <1>16, MoveStep, Zenon

\* gpg is to run on the worker.
LEMMA SubmitSyncStep ==
    ASSUME IInv, NEW r \in Requests, SubmitSync(r)
    PROVE  IInv'
<1>1. PICK w : w = req[r].worker
    OBVIOUS
<1>2. /\ At(r, "body") /\ Signed(r, "sync")
      /\ busy' = [busy EXCEPT ![w] = r] /\ pool' = pool
      /\ UNCHANGED <<clock, challenge, revoked, strikes, store, logins>>
    BY <1>1, Zenon DEF SubmitSync
<1>3. InFlight(r) /\ ~At(r, "queued")
    BY <1>2, Zenon DEF At
<1>4. PICK q \in Submission :
         /\ req' = [req EXCEPT ![r] = q]
         /\ q.pc = "sync" /\ q.client = req[r].client /\ RequestOK(q)
    BY <1>2, SignedOf, Zenon
<1>5. busy' \in [Workers -> Requests \cup {NoReq}]
    BY <1>2, Zenon DEF IInv, TypeOK
<1>6. PoolInv' /\ pool' \in [Workers -> Seq(Requests)]
  <2>1. \A s \in Requests : At(s, "queued") => req'[s] = req[s]
      BY <1>3, <1>4, Zenon DEF IInv, TypeOK
  <2> QED  BY <1>2, <2>1, PoolKept, Zenon DEF IInv, TypeOK
<1>7. q.pc # "done"
    BY <1>4, Zenon
<1> QED  BY <1>2, <1>3, <1>4, <1>5, <1>6, <1>7, MoveStep, Zenon
-----------------------------------------------------------------------------
(* Threads and crashes.                                                     *)

\* gpg ends on the worker; the worker has not looked at the result yet.
LEMMA GpgSyncStep ==
    ASSUME IInv, NEW r \in Requests, GpgSync(r)
    PROVE  IInv'
<1>1. PICK g \in GpgResults(r) :
         req' = [req EXCEPT ![r].pc = "judged", ![r].gpg = g]
    BY Zenon DEF GpgSync
<1>2. /\ At(r, "sync") /\ pool' = pool /\ busy' = busy
      /\ UNCHANGED <<clock, challenge, revoked, strikes, store, logins>>
    BY Zenon DEF GpgSync, Unmoved
<1>3. InFlight(r) /\ ~At(r, "queued")
    BY <1>2, Zenon DEF At
<1>4. PICK old : old = req[r]
    BY Zenon
<1>5. old \in Submission /\ RequestOK(old) /\ old.pc = "sync"
    BY <1>2, <1>4, Slots, Zenon DEF IInv, RequestInv, At
<1>6. /\ g \in {"NONE", "ERROR", "INVALID", "VALID"}
      /\ g = "VALID" => old.key \in Keyring
    BY <1>4, Zenon DEF GpgResults
<1> DEFINE q == [old EXCEPT !.pc = "judged", !.gpg = g]
<1>7. /\ q \in Submission
      /\ q.pc = "judged" /\ q.client = old.client /\ q.gpg = g
      /\ q.key = old.key /\ q.nonce = old.nonce /\ q.own = old.own
    BY <1>5, <1>6, Zenon DEF Submission
<1>8. req' = [req EXCEPT ![r] = q]
    BY <1>1, <1>4, Zenon
<1> HIDE DEF q
<1>9. RequestOK(q)
    BY <1>5, <1>6, <1>7, Zenon DEF RequestOK
<1>10. PoolInv' /\ pool' \in [Workers -> Seq(Requests)]
  <2>1. \A s \in Requests : At(s, "queued") => req'[s] = req[s]
      BY <1>3, <1>8, Zenon DEF IInv, TypeOK
  <2> QED  BY <1>2, <2>1, PoolKept, Zenon DEF IInv, TypeOK
<1>11. q.pc # "done" /\ busy' \in [Workers -> Requests \cup {NoReq}]
    BY <1>2, <1>7, Zenon DEF IInv, TypeOK
<1> QED  BY <1>2, <1>3, <1>4, <1>7, <1>8, <1>9, <1>10, <1>11,
         MoveStep, ZenonT(40)

\* A thread takes the oldest task, which no other thread will find.
LEMMA TakeTaskStep ==
    ASSUME IInv, NEW w \in Workers, TakeTask(w)
    PROVE  IInv'
<1>1. PICK t : t = pool[w]
    BY Zenon
<1>2. PICK r : r = Head(t)
    BY Zenon
<1>3. /\ t # << >> /\ req' = [req EXCEPT ![r].pc = "thread"]
      /\ pool' = [pool EXCEPT ![w] = Tail(t)]
      /\ UNCHANGED <<clock, challenge, revoked, strikes, busy, store, logins>>
    BY <1>1, <1>2, Zenon DEF TakeTask
<1>4. pool \in [Workers -> Seq(Requests)] /\ t \in Seq(Requests)
    BY <1>1, Zenon DEF IInv, TypeOK
<1>5. /\ r = t[1] /\ 1 \in 1..Len(t) /\ r \in Requests
      /\ Tail(t) \in Seq(Requests) /\ Len(Tail(t)) = Len(t) - 1
      /\ \A i \in 1..Len(Tail(t)) : i + 1 \in 1..Len(t) /\ Tail(t)[i] = t[i + 1]
    BY <1>2, <1>3, <1>4
<1>6. /\ \A v \in Workers : \A i \in 1..Len(pool[v]) :
            At(pool[v][i], "queued") /\ req[pool[v][i]].worker = v
      /\ \A v \in Workers : \A i, j \in 1..Len(pool[v]) :
            pool[v][i] = pool[v][j] => i = j
    BY Zenon DEF IInv, PoolInv
<1>7. At(r, "queued") /\ InFlight(r) /\ req[r].worker = w
    BY <1>1, <1>5, <1>6, Zenon DEF At
<1>8. PICK old : old = req[r]
    BY Zenon
<1>9. old \in Submission /\ RequestOK(old) /\ old.pc = "queued"
    BY <1>5, <1>7, <1>8, Slots, Zenon DEF IInv, RequestInv, At
<1> DEFINE q == [old EXCEPT !.pc = "thread"]
<1>10. /\ q \in Submission
       /\ q.pc = "thread" /\ q.client = old.client
       /\ q.key = old.key /\ q.nonce = old.nonce /\ q.own = old.own
    BY <1>9, Zenon DEF Submission
<1>11. req' = [req EXCEPT ![r] = q]
    BY <1>3, <1>8, Zenon
<1> HIDE DEF q
<1>12. RequestOK(q)
    BY <1>9, <1>10, Zenon DEF RequestOK
<1>13. \A s \in Requests : s # r => req'[s] = req[s]
    BY <1>11, Zenon DEF IInv, TypeOK
<1>14. /\ pool' \in [Workers -> Seq(Requests)] /\ pool'[w] = Tail(t)
       /\ \A v \in Workers : v # w => pool'[v] = pool[v]
    BY <1>3, <1>4, <1>5, Zenon
<1>15. \A v \in Workers : \A i \in 1..Len(pool[v]) : pool[v][i] \in Requests
    BY <1>4
<1>16. ASSUME NEW v \in Workers, NEW i \in 1..Len(pool'[v])
       PROVE  \E j \in 1..Len(pool[v]) : /\ pool'[v][i] = pool[v][j]
                                         /\ j = (IF v = w THEN i + 1 ELSE i)
                                         /\ pool[v][j] # r
  <2>1. CASE v = w
    <3>1. i + 1 \in 1..Len(t) /\ pool'[v][i] = t[i + 1]
        BY <1>5, <1>14, <2>1, Zenon
    <3>2. i + 1 # 1
        BY <1>5, <1>14, <2>1
    <3>3. t[i + 1] # r
        BY <1>1, <1>5, <1>6, <3>1, <3>2, Zenon
    <3> QED  BY <1>1, <2>1, <3>1, <3>3, Zenon
  <2>2. CASE v # w
    <3>1. i \in 1..Len(pool[v]) /\ pool'[v][i] = pool[v][i]
        BY <1>14, <2>2, Zenon
    <3>2. req[pool[v][i]].worker = v
        BY <1>6, <3>1, Zenon
    <3> QED  BY <1>7, <2>2, <3>1, <3>2, Zenon
  <2> QED  BY <2>1, <2>2, Zenon
<1>17. ASSUME NEW v \in Workers, NEW i \in 1..Len(pool'[v])
       PROVE  (At(pool[v][i], "queued") /\ req[pool[v][i]].worker = v)'
  <2>1. PICK j \in 1..Len(pool[v]) : pool'[v][i] = pool[v][j] /\ pool[v][j] # r
      BY <1>16, Zenon
  <2>2. /\ At(pool[v][j], "queued") /\ req[pool[v][j]].worker = v
        /\ pool[v][j] \in Requests
      BY <1>6, <1>15, Zenon
  <2>3. req'[pool[v][j]] = req[pool[v][j]]
      BY <1>13, <2>1, <2>2, Zenon
  <2> QED  BY <2>1, <2>2, <2>3, Zenon DEF At, InFlight
<1>18. ASSUME NEW v \in Workers, NEW i \in 1..Len(pool'[v]),
              NEW j \in 1..Len(pool'[v]), pool'[v][i] = pool'[v][j]
       PROVE  i = j
  <2>1. PICK a \in 1..Len(pool[v]) : /\ pool'[v][i] = pool[v][a]
                                     /\ a = (IF v = w THEN i + 1 ELSE i)
      BY <1>16, Zenon
  <2>2. PICK b \in 1..Len(pool[v]) : /\ pool'[v][j] = pool[v][b]
                                     /\ b = (IF v = w THEN j + 1 ELSE j)
      BY <1>16, Zenon
  <2>3. a = b
      BY <1>6, <1>18, <2>1, <2>2, ZenonT(40)
  <2> QED  BY <2>1, <2>2, <2>3
<1>19. PoolInv'
    BY <1>17, <1>18, Zenon DEF PoolInv
<1>20. /\ UNCHANGED <<clock, challenge, revoked, strikes, store, logins>>
       /\ busy' \in [Workers -> Requests \cup {NoReq}]
    BY <1>3, Zenon DEF IInv, TypeOK
<1>21. q.pc # "done"
    BY <1>10, Zenon
<1> QED  BY <1>5, <1>7, <1>8, <1>10, <1>11, <1>12, <1>14, <1>19, <1>20, <1>21,
            MoveStep, ZenonT(40)

\* A worker takes its requests and its pool with it, and nobody else's.
LEMMA WorkerCrashStep ==
    ASSUME IInv, NEW w \in Workers, WorkerCrash(w)
    PROVE  IInv'
<1> DEFINE lost == {r \in Requests : InFlight(r) /\ req[r].worker = w}
<1>1. /\ req' = [r \in Requests |-> IF r \in lost THEN NoReq ELSE req[r]]
      /\ busy' = [busy EXCEPT ![w] = NoReq]
      /\ pool' = [pool EXCEPT ![w] = << >>]
      /\ clock' = clock /\ revoked' = revoked /\ challenge' = challenge
      /\ seen' = seen /\ spent' = spent /\ sessions' = sessions
      /\ worth' = worth /\ strikes' = strikes
    BY Zenon DEF WorkerCrash, store, logins
<1>2. \A s \in Requests :
         /\ req'[s] = NoReq \/ req'[s] = req[s]
         /\ req[s].worker # w => req'[s] = req[s]
    BY <1>1, Zenon
<1>3. req' \in [Requests -> Submission \cup {NoReq}]
  <2>1. \A s \in Requests : req[s] \in Submission \cup {NoReq}
      BY Zenon DEF IInv, TypeOK
  <2> HIDE DEF lost
  <2> QED  BY <1>1, <2>1, Zenon
<1>4. pool \in [Workers -> Seq(Requests)]
    BY Zenon DEF IInv, TypeOK
<1>5. /\ pool' \in [Workers -> Seq(Requests)] /\ pool'[w] = << >>
      /\ \A v \in Workers : v # w => pool'[v] = pool[v]
    BY <1>1, <1>4
<1>6. busy' \in [Workers -> Requests \cup {NoReq}]
    BY <1>1, Zenon DEF IInv, TypeOK
<1>7. TypeOK'
    BY <1>1, <1>3, <1>5, <1>6, Zenon DEF IInv, TypeOK
<1>8. \A v \in Workers : \A i \in 1..Len(pool[v]) : pool[v][i] \in Requests
    BY <1>4
<1>9. \A v \in Workers : \A i \in 1..Len(pool'[v]) : v # w
    BY <1>5
<1>10. ASSUME NEW v \in Workers, NEW i \in 1..Len(pool'[v])
       PROVE  (At(pool[v][i], "queued") /\ req[pool[v][i]].worker = v)'
  <2>1. v # w /\ pool'[v] = pool[v]
      BY <1>5, <1>9, Zenon
  <2>2. /\ At(pool[v][i], "queued") /\ req[pool[v][i]].worker = v
        /\ pool[v][i] \in Requests
      BY <1>8, <2>1, Zenon DEF IInv, PoolInv
  <2>3. req'[pool[v][i]] = req[pool[v][i]]
      BY <1>2, <2>1, <2>2, Zenon
  <2> QED  BY <2>1, <2>2, <2>3, Zenon DEF At, InFlight
<1>11. ASSUME NEW v \in Workers, NEW i \in 1..Len(pool'[v]),
              NEW j \in 1..Len(pool'[v]), pool'[v][i] = pool'[v][j]
       PROVE  i = j
  <2>1. v # w /\ pool'[v] = pool[v]
      BY <1>5, <1>9, Zenon
  <2> QED  BY <1>11, <2>1, Zenon DEF IInv, PoolInv
<1>12. PoolInv'
    BY <1>10, <1>11, Zenon DEF PoolInv
<1>13. clock <= clock'
    BY <1>1 DEF IInv, TypeOK
<1>14. \A s \in Requests, n \in Nonces : Holds(s, n)' => Holds(s, n)
    BY <1>2, Zenon DEF Holds, At, InFlight
<1>15. OvershootInFlightOnly'
  <2>1. \A c \in Clients : Mine(c)' \subseteq Mine(c)
      BY <1>2, Zenon DEF Mine, InFlight
  <2>2. \A c \in Clients : strikes'[c] <= strikes[c]
      BY <1>1 DEF IInv, TypeOK
  <2> QED  BY <1>7, <2>1, <2>2, LimitKept, Zenon
<1> QED  BY <1>1, <1>2, <1>7, <1>12, <1>13, <1>14, <1>15, Quiet, Zenon
-----------------------------------------------------------------------------
(* Verdicts.                                                                *)

\* The store's answer: a nonce it accepts was unknown to it and is known from
\* now on, whatever it answers it forgets nothing, and one it declines is spent
\* already.
LEMMA ConsumeOf ==
    ASSUME IInv, NEW r \in Requests, InFlight(r), NEW rc, ValidateConsume(r, rc)
    PROVE  LET n == req[r].nonce
               c == req[r].client
           IN /\ seen \subseteq seen' /\ seen' \subseteq spent'
              /\ spent \subseteq spent' /\ spent' \subseteq Issued
              /\ rc = "OK" => Acceptable(n, c) /\ n \notin seen /\ n \in seen'
              /\ rc = "DECLINED" => /\ spent' = spent
                                    /\ ~Acceptable(n, c) \/ n \in spent
<1> DEFINE n == req[r].nonce
           c == req[r].client
<1>1. /\ spent' = spent \cup seen'
      /\ \/ rc = "ERROR" /\ seen' = seen
         \/ rc = "DECLINED" /\ ~Acceptable(n, c) /\ seen' = seen
         \/ Acceptable(n, c) /\ CheckAndSet(n, rc)
    BY Zenon DEF ValidateConsume
<1>2. seen \subseteq spent /\ spent \subseteq Issued
    BY Zenon DEF IInv, StoreInv
<1>3. Acceptable(n, c) => n \in Issued
    BY Zenon DEF Acceptable, Issued
<1> HIDE DEF n, c
<1>4. /\ seen \subseteq seen' /\ seen' \subseteq seen \cup {n}
      /\ n \in seen' => n \in seen \/ Acceptable(n, c)
    BY <1>1, Zenon DEF CheckAndSet
<1>5. rc = "OK" => Acceptable(n, c) /\ n \notin seen /\ n \in seen'
    BY <1>1, Zenon DEF CheckAndSet
<1>6. rc = "DECLINED" => seen' = seen /\ (~Acceptable(n, c) \/ n \in seen)
    BY <1>1, Zenon DEF CheckAndSet
<1>7. spent' \subseteq Issued
    BY <1>1, <1>2, <1>3, <1>4, Zenon
<1>8. rc = "DECLINED" => spent' = spent
    BY <1>1, <1>2, <1>6, Zenon
<1> QED  BY <1>1, <1>2, <1>4, <1>5, <1>6, <1>7, <1>8, ZenonT(40) DEF n, c

\* The grant: nobody else holds this challenge, and it has earned nothing yet.
LEMMA GrantStep ==
    ASSUME IInv, NEW r \in Requests, InFlight(r), ~At(r, "queued"),
           NEW g \in {"SEE_OTHER", "ERROR"}, Grant(r, g), Finalize(r, g),
           UNCHANGED <<clock, revoked, pool>>,
           busy' \in [Workers -> Requests \cup {NoReq}],
           spent \subseteq spent', seen' \subseteq spent',
           spent' \subseteq Issued,
           seen \subseteq seen',
           req[r].key \in Keyring, req[r].nonce \in spent',
           challenge[req[r].nonce].client = req[r].client,
           challenge[req[r].nonce].exp > clock =>
               /\ worth[req[r].nonce] = 0 /\ req[r].nonce \in seen'
               /\ \A s \in Requests : Holds(s, req[r].nonce) => s = r
    PROVE  IInv'
<1>1. CASE UNCHANGED logins
  <2>1. UNCHANGED <<clock, revoked, pool, logins>>
      BY <1>1, Zenon
  <2> QED  BY <2>1, AnswerStep, Zenon
<1>2. CASE HandOut(req[r])
  <2>1. PICK q : q = req[r]
      BY Zenon
  <2> DEFINE exp == IF SessionTimeout = 0 THEN 0 ELSE clock + SessionTimeout
             one == [client |-> q.client, key |-> q.key, exp |-> exp,
                     nonce |-> q.nonce]
  <2>2. q \in Submission /\ q.client \in Clients
      BY <2>1, Slots, Zenon DEF IInv, Submission
  <2>3. q.nonce \in Issued /\ q.nonce \in Nonces /\ q.key \in Keys
      BY <2>1, FlowAssumption, ZenonT(40) DEF Issued
  <2>4. exp \in Nat
      BY FlowAssumption DEF IInv, TypeOK
  <2>5. /\ sessions' = sessions \cup {one}
        /\ worth' = [worth EXCEPT ![q.nonce] = IF @ = 2 THEN 2 ELSE @ + 1]
      BY <1>2, <2>1, Zenon DEF HandOut
  <2> HIDE DEF exp
  <2>6. one \in Session /\ one.client = q.client /\ one.key = q.key
           /\ one.nonce = q.nonce
      BY <2>2, <2>3, <2>4, Zenon DEF Session
  <2> HIDE DEF one
  <2>7. worth \in [Nonces -> 0..2]
      BY Zenon DEF IInv, TypeOK
  <2>8. /\ worth' \in [Nonces -> 0..2]
        /\ \A n \in Nonces : n # q.nonce => worth'[n] = worth[n]
        /\ worth[q.nonce] = 0 => worth'[q.nonce] = 1
    <3>1. PICK x : x = IF worth[q.nonce] = 2 THEN 2 ELSE worth[q.nonce] + 1
        BY Zenon
    <3>2. x \in 0..2 /\ (worth[q.nonce] = 0 => x = 1)
        BY <2>3, <2>7, <3>1
    <3>3. worth' = [worth EXCEPT ![q.nonce] = x]
        BY <2>5, <3>1, Zenon
    <3> QED  BY <2>3, <2>7, <3>2, <3>3, Zenon
  <2>9. sessions' \subseteq Session
      BY <2>5, <2>6, Zenon DEF IInv, TypeOK
  <2>10. /\ TypeOK' /\ Progress
         /\ RequestInv' /\ PoolInv' /\ OvershootInFlightOnly'
         /\ seen' \subseteq spent' /\ spent' \subseteq Issued'
         /\ \A s \in Requests, n \in Nonces :
               Holds(s, n)' => Holds(s, n) /\ s # r
      BY <2>8, <2>9, AnswerOf, Zenon
  <2>11. StoreInv'
      BY <2>1, <2>8, <2>10, Zenon DEF IInv, StoreInv
  <2>12. SessionsEarned'
    <3> SUFFICES ASSUME NEW s \in sessions'
                 PROVE  /\ s.client = challenge'[s.nonce].client
                        /\ s.key \in Keyring /\ s.nonce \in spent'
        BY Zenon DEF SessionsEarned
    <3>1. /\ s.client = challenge[s.nonce].client
          /\ s.key \in Keyring /\ s.nonce \in spent'
        BY <2>1, <2>5, <2>6, Zenon DEF IInv, SessionsEarned
    <3>2. challenge'[s.nonce] = challenge[s.nonce]
        BY <2>10, <3>1, Zenon DEF Progress
    <3> QED  BY <3>1, <3>2, Zenon
  <2>13. UniqueInv'
    <3> SUFFICES ASSUME NEW n \in Nonces, challenge'[n].exp > clock'
                 PROVE  /\ worth'[n] <= 1
                        /\ worth'[n] = 1 => n \in seen'
                        /\ \A t \in Requests : Holds(t, n)' =>
                              /\ n \in seen' /\ worth'[n] = 0
                              /\ \A s \in Requests : Holds(s, n)' => s = t
        BY Zenon DEF UniqueInv
    <3>1. CASE n = q.nonce
      <4>1. challenge'[n] = challenge[n] /\ clock' = clock
          BY <2>3, <2>10, <3>1, Zenon DEF Progress
      <4>2. /\ worth[n] = 0 /\ n \in seen'
            /\ \A s \in Requests : Holds(s, n) => s = r
          BY <2>1, <3>1, <4>1, Zenon
      <4>3. \A s \in Requests : ~Holds(s, n)'
          BY <2>10, <4>2, Zenon
      <4>4. worth'[n] = 1
          BY <2>8, <3>1, <4>2, Zenon
      <4> QED  BY <4>2, <4>3, <4>4
    <3>2. CASE n # q.nonce /\ n \in Issued
      <4>1. challenge'[n] = challenge[n] /\ clock' = clock
          BY <2>10, <3>2, Zenon DEF Progress
      <4>2. /\ worth[n] <= 1
            /\ worth[n] = 1 => n \in seen
            /\ \A t \in Requests : Holds(t, n) =>
                  /\ n \in seen /\ worth[n] = 0
                  /\ \A s \in Requests : Holds(s, n) => s = t
          BY <4>1, Zenon DEF IInv, UniqueInv
      <4>3. worth'[n] = worth[n]
          BY <2>8, <3>2, ZenonT(40)
      <4> QED  BY <2>10, <4>2, <4>3, ZenonT(40)
    <3>3. CASE n \notin Issued
      <4>1. worth'[n] = 0
          BY <2>3, <2>8, <3>3, Zenon DEF IInv, StoreInv
      <4>2. \A s \in Requests : ~Holds(s, n)
          BY <3>3, Zenon DEF IInv, RequestInv, RequestOK, Holds, At
      <4> QED  BY <2>10, <4>1, <4>2
    <3> QED  BY <3>1, <3>2, <3>3, Zenon
  <2> QED  BY <2>10, <2>11, <2>12, <2>13, Zenon DEF IInv
<1> QED  BY <1>1, <1>2, Zenon DEF Grant

\* The worker goes on after its own gpg: the store is asked and the answer given
\* in one go.
LEMMA SyncDoneStep ==
    ASSUME IInv, NEW r \in Requests, SyncDone(r)
    PROVE  IInv'
<1>1. /\ At(r, "judged") /\ UNCHANGED <<clock, revoked, pool>>
      /\ busy' = [busy EXCEPT ![req[r].worker] = NoReq]
    BY Zenon DEF SyncDone
<1>2. InFlight(r) /\ ~At(r, "queued")
    BY <1>1, Zenon DEF At
<1>3. busy' \in [Workers -> Requests \cup {NoReq}]
    BY <1>1, Zenon DEF IInv, TypeOK
<1>4. CASE \E rc \in {"ERROR", "DECLINED"} :
              Finalize(r, rc) /\ UNCHANGED <<store, logins>>
  <2>1. /\ spent \subseteq spent' /\ seen' \subseteq spent'
        /\ spent' \subseteq Issued /\ seen \subseteq seen'
      BY <1>4, Zenon DEF store, IInv, StoreInv
  <2>2. UNCHANGED <<clock, revoked, pool, logins>>
      BY <1>1, <1>4, Zenon
  <2> QED  BY <1>2, <1>3, <1>4, <2>1, <2>2, AnswerStep, ZenonT(40)
<1>5. ASSUME NEW rc \in ResultCodes, ValidateConsume(r, rc), Settle(r, rc),
             req[r].gpg = "VALID"
      PROVE  IInv'
  <2>1. PICK n : n = req[r].nonce
      BY Zenon
  <2>2. /\ spent \subseteq spent' /\ seen' \subseteq spent'
        /\ spent' \subseteq Issued /\ seen \subseteq seen'
        /\ rc = "OK" =>
              Acceptable(n, req[r].client) /\ n \notin seen /\ n \in seen'
      BY <1>2, <1>5, <2>1, ConsumeOf, Zenon
  <2>3. CASE rc # "OK"
    <3>1. Finalize(r, rc) /\ UNCHANGED <<clock, revoked, pool, logins>>
        BY <1>1, <1>5, <2>3, Zenon DEF Settle
    <3> QED  BY <1>2, <1>3, <2>2, <3>1, AnswerStep, Zenon
  <2>4. CASE rc = "OK"
    <3>1. PICK g \in {"SEE_OTHER", "ERROR"} : Grant(r, g) /\ Finalize(r, g)
        BY <1>5, <2>4, Zenon DEF Settle
    <3>2. req[r].key \in Keyring
        BY <1>1, <1>2, <1>5, Zenon DEF IInv, RequestInv, RequestOK, At
    <3>3. n \in Nonces /\ challenge[n].client = req[r].client /\ n \in spent'
        BY <2>2, <2>4, Zenon DEF Acceptable
    <3>4. challenge[n].exp > clock =>
             worth[n] = 0 /\ n \in seen' /\ \A s \in Requests : ~Holds(s, n)
      <4> SUFFICES ASSUME challenge[n].exp > clock
                   PROVE  worth[n] = 0 /\ \A s \in Requests : ~Holds(s, n)
          BY <2>2, <2>4, Zenon
      <4>1. /\ worth[n] <= 1 /\ worth[n] # 1
            /\ \A s \in Requests : ~Holds(s, n)
          BY <2>2, <2>4, <3>3, Zenon DEF IInv, UniqueInv
      <4>2. worth[n] \in 0..2
          BY <3>3, Zenon DEF IInv, TypeOK
      <4> QED  BY <4>1, <4>2
    <3> QED  BY <1>1, <1>2, <1>3, <2>1, <2>2, <3>1, <3>2, <3>3, <3>4,
                GrantStep, ZenonT(40)
  <2> QED  BY <2>3, <2>4, Zenon
<1> QED  BY <1>4, <1>5, Zenon DEF SyncDone

\* gpg ends on a thread: with a good signature the thread asks the store, and
\* the request holds its challenge from then on.
LEMMA GpgThreadStep ==
    ASSUME IInv, NEW r \in Requests, GpgThread(r)
    PROVE  IInv'
<1>1. PICK own \in BOOLEAN : own = (spent' # spent)
    BY Zenon
<1>2. PICK g \in GpgResults(r), rc \in ResultCodes \cup {"NONE"} :
         /\ \/ g # "VALID" /\ rc = "NONE" /\ UNCHANGED store
            \/ g = "VALID" /\ ValidateConsume(r, rc)
         /\ req' = [req EXCEPT ![r].pc = "done", ![r].gpg = g, ![r].rc = rc,
                               ![r].own = own]
    BY <1>1, Zenon DEF GpgThread
<1>3. /\ At(r, "thread") /\ clock' = clock /\ challenge' = challenge
      /\ revoked' = revoked /\ strikes' = strikes /\ busy' = busy
      /\ pool' = pool /\ sessions' = sessions /\ worth' = worth
    BY Zenon DEF GpgThread, logins
<1>4. InFlight(r) /\ ~At(r, "queued") /\ ~At(r, "done")
    BY <1>3, Zenon DEF At
<1>5. PICK old : old = req[r]
    BY Zenon
<1>6. old \in Submission /\ RequestOK(old) /\ old.pc = "thread"
    BY <1>3, <1>4, <1>5, Slots, Zenon DEF IInv, RequestInv, At
<1>7. /\ g \in {"NONE", "ERROR", "INVALID", "VALID"}
      /\ rc \in {"NONE", "OK", "DECLINED", "ABORT", "ERROR"}
      /\ g = "VALID" => old.key \in Keyring
    BY <1>5, Zenon DEF GpgResults, ResultCodes
<1> DEFINE q == [old EXCEPT !.pc = "done", !.gpg = g, !.rc = rc, !.own = own]
<1>8. /\ q \in Submission
      /\ q.pc = "done" /\ q.client = old.client /\ q.gpg = g /\ q.rc = rc
      /\ q.key = old.key /\ q.nonce = old.nonce /\ q.own = own
    BY <1>6, <1>7, ZenonT(40) DEF Submission
<1>9. req' = [req EXCEPT ![r] = q]
    BY <1>2, <1>5, Zenon
<1> HIDE DEF q
<1>10. /\ req' \in [Requests -> Submission \cup {NoReq}]
       /\ req'[r] = q /\ \A s \in Requests : s # r => req'[s] = req[s]
    BY <1>8, <1>9, Zenon DEF IInv, TypeOK
<1>11. /\ seen \subseteq seen' /\ seen' \subseteq spent'
       /\ spent \subseteq spent' /\ spent' \subseteq Issued
       /\ g = "VALID" /\ rc = "OK" =>
             /\ Acceptable(q.nonce, q.client)
             /\ q.nonce \notin seen /\ q.nonce \in seen'
       /\ g = "VALID" /\ rc = "DECLINED" =>
             /\ spent' = spent
             /\ ~Acceptable(q.nonce, q.client) \/ q.nonce \in spent
  <2>1. CASE g # "VALID" /\ rc = "NONE" /\ UNCHANGED store
    <3>1. seen' = seen /\ spent' = spent
        BY <2>1, Zenon DEF store
    <3> QED  BY <2>1, <3>1, Zenon DEF IInv, StoreInv
  <2>2. CASE g = "VALID" /\ ValidateConsume(r, rc)
      BY <1>4, <1>5, <1>8, <2>2, ConsumeOf, Zenon
  <2> QED  BY <1>2, <2>1, <2>2, Zenon
<1>12. TypeOK'
  <2>1. seen' \subseteq Nonces /\ spent' \subseteq Nonces
      BY <1>11, Zenon DEF Issued
  <2> QED  BY <1>3, <1>10, <2>1, Zenon DEF IInv, TypeOK
<1>13. Progress
  <2>1. clock <= clock'
      BY <1>3 DEF IInv, TypeOK
  <2> QED  BY <1>3, <1>11, <2>1, Zenon DEF Progress
<1>14. Issued' = Issued
    BY <1>3, Zenon DEF Issued, Unissued
<1>15. RequestOK(q)'
  <2>1. q.key \in Keys /\ q.nonce \in Issued \cup {NoNonce}
      BY <1>6, <1>8, Zenon DEF RequestOK
  <2>2. g = "VALID" => q.key \in Keyring
      BY <1>7, <1>8, Zenon
  <2>3. g = "VALID" /\ rc = "OK" =>
           /\ q.nonce \in Issued /\ q.nonce \in spent'
           /\ challenge[q.nonce].client = q.client
      BY <1>11, Zenon DEF Acceptable, Issued
  <2>4. Acceptable(q.nonce, q.client)' = Acceptable(q.nonce, q.client)
      BY <1>3, <1>14, Zenon DEF Acceptable, Issued
  <2>5. g = "VALID" /\ rc = "DECLINED" =>
           ~own /\ (~Acceptable(q.nonce, q.client)' \/ q.nonce \in spent')
      BY <1>1, <1>11, <2>4, Zenon
  <2> QED  BY <1>3, <1>8, <1>14, <2>1, <2>2, <2>3, <2>5, ZenonT(40)
         DEF RequestOK
<1>16. RequestInv'
  <2>1. RequestOK(req[r])'
      BY <1>10, <1>15, Zenon DEF RequestOK
  <2> QED  BY <1>10, <1>12, <1>13, <2>1, RequestsKept, Zenon
<1>17. PoolInv'
  <2>1. \A s \in Requests : At(s, "queued") => req'[s] = req[s]
      BY <1>4, <1>10, Zenon
  <2> QED  BY <1>3, <2>1, PoolKept, Zenon
<1>18. StoreInv'
    BY <1>3, <1>11, <1>14, Zenon DEF IInv, StoreInv
<1>19. SessionsEarned'
    BY <1>3, <1>13, SessionsKept, Zenon
<1>20. OvershootInFlightOnly'
  <2>1. \A c \in Clients : Mine(c)' \subseteq Mine(c)
      BY <1>4, <1>5, <1>8, <1>10, Zenon DEF Mine, InFlight
  <2>2. \A c \in Clients : strikes'[c] <= strikes[c]
      BY <1>3 DEF IInv, TypeOK
  <2> QED  BY <1>12, <2>1, <2>2, LimitKept, Zenon
<1>21. UniqueInv'
  <2> SUFFICES ASSUME NEW n \in Nonces, challenge[n].exp > clock
               PROVE  /\ worth[n] <= 1
                      /\ worth[n] = 1 => n \in seen'
                      /\ \A t \in Requests : Holds(t, n)' =>
                            /\ n \in seen' /\ worth[n] = 0
                            /\ \A s \in Requests : Holds(s, n)' => s = t
      BY <1>3, Zenon DEF UniqueInv
  <2>1. /\ worth[n] <= 1
        /\ worth[n] = 1 => n \in seen
        /\ \A t \in Requests : Holds(t, n) =>
              /\ n \in seen /\ worth[n] = 0
              /\ \A s \in Requests : Holds(s, n) => s = t
      BY Zenon DEF IInv, UniqueInv
  <2>2. \A s \in Requests : s # r /\ Holds(s, n)' => Holds(s, n)
      BY <1>10, Zenon DEF Holds, At, InFlight
  <2>3. Holds(r, n)' => n \notin seen /\ n \in seen'
      BY <1>8, <1>10, <1>11, Zenon DEF Holds
  <2>4. CASE Holds(r, n)'
    <3>1. worth[n] = 0
      <4>1. worth[n] \in 0..2
          BY Zenon DEF IInv, TypeOK
      <4> QED  BY <2>1, <2>3, <2>4, <4>1
    <3>2. \A s \in Requests : Holds(s, n)' => s = r
        BY <2>1, <2>2, <2>3, <2>4, Zenon
    <3> QED  BY <2>3, <2>4, <3>1, <3>2
  <2>5. CASE ~Holds(r, n)'
    <3>1. \A s \in Requests : Holds(s, n)' => Holds(s, n)
        BY <2>2, <2>5, Zenon
    <3> QED  BY <1>11, <2>1, <3>1, Zenon
  <2> QED  BY <2>4, <2>5, Zenon
<1> QED  BY <1>12, <1>16, <1>17, <1>18, <1>19, <1>20, <1>21, ZenonT(40) DEF IInv

\* The completion event: the thread's verdict still means what it meant.
LEMMA ThreadDoneStep ==
    ASSUME IInv, NEW r \in Requests, ThreadDone(r)
    PROVE  IInv'
<1>1. At(r, "done") /\ UNCHANGED <<clock, revoked, busy, pool, store>>
    BY Zenon DEF ThreadDone
<1>2. InFlight(r) /\ ~At(r, "queued")
    BY <1>1, Zenon DEF At
<1>3. busy' \in [Workers -> Requests \cup {NoReq}]
    BY <1>1, Zenon DEF IInv, TypeOK
<1>4. /\ spent' = spent /\ seen' = seen
      /\ spent \subseteq spent' /\ seen' \subseteq spent'
      /\ spent' \subseteq Issued /\ seen \subseteq seen'
    BY <1>1, Zenon DEF store, IInv, StoreInv
<1>5. CASE \E rc \in {"NONE", "DECLINED", "ABORT", "ERROR"} :
              Finalize(r, rc) /\ UNCHANGED logins
  <2>1. UNCHANGED <<clock, revoked, pool, logins>>
      BY <1>1, <1>5, Zenon
  <2> QED  BY <1>2, <1>3, <1>4, <1>5, <2>1, AnswerStep, Zenon
<1>6. ASSUME req[r].gpg = "VALID", req[r].rc = "OK",
             NEW g \in {"SEE_OTHER", "ERROR"}, Grant(r, g), Finalize(r, g)
      PROVE  IInv'
  <2>1. PICK n : n = req[r].nonce
      BY Zenon
  <2>2. /\ req[r].key \in Keyring /\ n \in Nonces /\ n \in spent
        /\ challenge[n].client = req[r].client
      BY <1>1, <1>2, <1>6, <2>1, Zenon
         DEF IInv, RequestInv, RequestOK, At, Issued
  <2>3. Holds(r, n)
      BY <1>1, <1>6, <2>1, Zenon DEF Holds
  <2>4. challenge[n].exp > clock =>
           /\ worth[n] = 0 /\ n \in seen'
           /\ \A s \in Requests : Holds(s, n) => s = r
      BY <1>4, <2>2, <2>3, Zenon DEF IInv, UniqueInv
  <2>5. UNCHANGED <<clock, revoked, pool>>
      BY <1>1, Zenon
  <2> QED  BY <1>2, <1>3, <1>4, <1>6, <2>1, <2>2, <2>4, <2>5,
         GrantStep, ZenonT(40)
<1>7. req[r].rc \in {"NONE", "OK", "DECLINED", "ABORT", "ERROR"}
    BY <1>2, Slots, Zenon DEF IInv, Submission
<1> QED  BY <1>5, <1>6, <1>7, Zenon DEF ThreadDone, Settle
-----------------------------------------------------------------------------
(* Theorems.                                                                *)

\* The invariant of the request flow.
LEMMA Invariance == Spec => []IInv
<1>1. Init => IInv
  <2> SUFFICES ASSUME Init PROVE IInv
      BY Zenon
  <2>1. TypeOK
      BY FlowAssumption DEF Init, TypeOK
  <2>2. \A r \in Requests : ~InFlight(r)
      BY Zenon DEF Init, InFlight
  <2>3. RequestInv /\ PoolInv /\ UniqueInv
    <3>1. RequestInv
        BY <2>2, Zenon DEF RequestInv
    <3>2. PoolInv
        BY DEF Init, PoolInv
    <3>3. \A n \in Nonces : worth[n] = 0
        BY Zenon DEF Init
    <3>4. UniqueInv
        BY <2>2, <3>3 DEF UniqueInv, Holds, At
    <3> QED  BY <3>1, <3>2, <3>4, Zenon
  <2>4. StoreInv /\ SessionsEarned
      BY Zenon DEF Init, StoreInv, SessionsEarned
  <2>5. OvershootInFlightOnly
    <3> SUFFICES ASSUME NEW c \in Clients
                 PROVE  strikes[c] + Cardinality(Mine(c))
                        <= FailureLimit - 1 + Cardinality(Requests)
        BY Zenon DEF OvershootInFlightOnly, Mine
    <3>1. strikes[c] = 0 /\ Mine(c) = {}
        BY <2>2, Zenon DEF Init, Mine
    <3>2. Cardinality({}) = 0 /\ Cardinality(Requests) \in Nat
        BY FlowAssumption, FS_EmptySet, FS_CardinalityType, Zenon
    <3> QED  BY <3>1, <3>2, FlowAssumption
  <2> QED  BY <2>1, <2>3, <2>4, <2>5, Zenon DEF IInv
<1>2. IInv /\ [Next]_vars => IInv'
  <2> SUFFICES ASSUME IInv, [Next]_vars PROVE IInv'
      BY Zenon
  <2>1. CASE \/ Tick
             \/ \E k \in Keyring : EditRevocations(k)
             \/ \E c \in Clients : Lapse(c)
             \/ UNCHANGED vars
      BY <2>1, OutsideStep, Zenon
  <2>2. CASE \E n \in Nonces : Forget(n)
      BY <2>2, ForgetStep, Zenon
  <2>3. ASSUME NEW r \in Requests, Handler(r)
        PROVE  IInv'
    <3>1. PICK w \in Workers, c \in Clients :
             \/ PassSession(r, w, c) \/ RefuseBanned(r, w, c)
             \/ RefuseUnread(r, w) \/ Challenge(r, w, c) \/ ReadBody(r, w, c)
        BY <2>3, Zenon DEF Handler
    <3>2. CASE \/ PassSession(r, w, c) \/ RefuseBanned(r, w, c)
               \/ RefuseUnread(r, w)
      <4>1. UNCHANGED vars
          BY <3>2, Zenon DEF PassSession, RefuseBanned, RefuseUnread
      <4> QED  BY <4>1, OutsideStep, Zenon
    <3>3. CASE Challenge(r, w, c)
        BY <3>3, ChallengeStep, Zenon
    <3>4. CASE ReadBody(r, w, c)
        BY <3>4, ReadBodyStep
    <3> QED  BY <3>1, <3>2, <3>3, <3>4, Zenon
  <2>4. ASSUME NEW r \in Requests, Submit(r)
        PROVE  IInv'
      BY <2>4, SubmitRefusedStep, SubmitAsyncStep, SubmitSyncStep, Zenon
         DEF Submit
  <2>5. ASSUME NEW r \in Requests, Verify(r)
        PROVE  IInv'
      BY <2>5, GpgSyncStep, SyncDoneStep, GpgThreadStep, ThreadDoneStep, Zenon
         DEF Verify
  <2>6. ASSUME NEW w \in Workers, TakeTask(w) \/ WorkerCrash(w)
        PROVE  IInv'
      BY <2>6, TakeTaskStep, WorkerCrashStep, Zenon
  <2> QED  BY <2>1, <2>2, <2>3, <2>4, <2>5, <2>6, Zenon DEF Next
<1> QED  BY <1>1, <1>2, PTL DEF Spec

\* Every field of a submission, a session and a challenge keeps its type: gpg
\* and the store are only asked about what a client sent.
THEOREM TypeCorrect == Spec => []TypeOK
    BY Invariance, PTL DEF IInv

\* No session without a consumed challenge of the same client and a keyring
\* key, however requests, threads and crashes interleave (verify_post, grant).
THEOREM NoSessionUnearned == Spec => []SessionsEarned
    BY Invariance, PTL DEF IInv

\* An unexpired challenge earns one session at most, for any number of workers,
\* threads and requests that carry it (validate_consume, check_and_set).
THEOREM OneSessionEach == Spec => []OneSessionPerChallenge
<1>1. IInv => OneSessionPerChallenge
  <2> SUFFICES ASSUME IInv, NEW n \in Nonces
               PROVE  worth[n] <= 1 \/ challenge[n].exp <= clock
      BY Zenon DEF OneSessionPerChallenge
  <2>1. clock \in Nat /\ challenge[n].exp \in Nat
      BY DEF IInv, TypeOK
  <2>2. challenge[n].exp > clock => worth[n] <= 1
      BY Zenon DEF IInv, UniqueInv
  <2> QED  BY <2>1, <2>2
<1> QED  BY <1>1, Invariance, PTL

\* The throttle overshoots by no more than the submissions that were let in
\* before the ban (is_banned in auth_handler, record in verify_finalize).
THEOREM OvershootBounded == Spec => []OvershootInFlightOnly
    BY Invariance, PTL DEF IInv

\* A judged submission leaves with its own completion step, or with its worker.
LEMMA JudgedLeaves ==
    ASSUME IInv, [Next]_vars, NEW r \in Requests,
           At(r, "judged") \/ At(r, "done"), req'[r] = NoReq
    PROVE  \/ strikes' = strikes /\ spent' = spent
           \/ SyncDone(r)
           \/ ThreadDone(r)
<1>1. /\ InFlight(r) /\ req'[r] # req[r]
      /\ req \in [Requests -> Submission \cup {NoReq}]
      /\ ~At(r, "body") /\ ~At(r, "queued")
      /\ ~At(r, "sync") /\ ~At(r, "thread")
    BY Zenon DEF At, InFlight, IInv, TypeOK
<1>2. CASE \/ Tick
           \/ \E k \in Keyring : EditRevocations(k)
           \/ \E n \in Nonces : Forget(n)
           \/ \E c \in Clients : Lapse(c)
           \/ UNCHANGED vars
  <2>1. req' = req
      BY <1>2, Zenon DEF Tick, EditRevocations, Forget, Lapse, vars
  <2> QED  BY <1>1, <2>1, Zenon
<1>3. ASSUME NEW s \in Requests, Handler(s)
      PROVE  FALSE
  <2>1. req'[r] = req[r]
    <3>1. CASE req' = req
        BY <3>1, Zenon
    <3>2. CASE \E w \in Workers, c \in Clients : ReadBody(s, w, c)
        BY <1>1, <3>2, Zenon DEF ReadBody, Arrive
    <3>3. CASE \E w \in Workers, c \in Clients : Challenge(s, w, c)
        BY <3>3, Zenon DEF Challenge
    <3>4. CASE UNCHANGED vars
        BY <3>4, Zenon DEF vars
    <3> QED  BY <1>3, <3>1, <3>2, <3>3, <3>4, Zenon
             DEF Handler, PassSession, RefuseBanned, RefuseUnread
  <2> QED  BY <1>1, <2>1, Zenon
<1>4. ASSUME NEW s \in Requests, Submit(s)
      PROVE  FALSE
  <2>1. At(s, "body")
      BY <1>4, Zenon
         DEF Submit, BodyTimeout, SubmitFailed, SubmitRejected, SubmitAsync,
             SubmitSync
  <2>2. s # r
      BY <1>1, <2>1, Zenon
  <2>3. req'[r] = req[r]
      BY <1>1, <1>4, <2>2, Zenon
         DEF Submit, BodyTimeout, SubmitFailed, SubmitRejected, SubmitAsync,
             SubmitSync, Signed, Finalize
  <2> QED  BY <1>1, <2>3
<1>5. ASSUME NEW s \in Requests, Verify(s)
      PROVE  SyncDone(r) \/ ThreadDone(r)
  <2>1. CASE s = r
      BY <1>1, <1>5, <2>1, Zenon DEF Verify, GpgSync, GpgThread
  <2>2. CASE s # r
    <3>1. GpgSync(s) => req'[r] = req[r]
        BY <1>1, <2>2, Zenon DEF GpgSync
    <3>2. GpgThread(s) => req'[r] = req[r]
        BY <1>1, <2>2, Zenon DEF GpgThread
    <3>3. \A rc : Finalize(s, rc) => req'[r] = req[r]
        BY <1>1, <2>2, Zenon DEF Finalize
    <3>4. SyncDone(s) => \E rc : Finalize(s, rc)
        BY Zenon DEF SyncDone, Settle
    <3>5. ThreadDone(s) => \E rc : Finalize(s, rc)
        BY Zenon DEF ThreadDone, Settle
    <3> QED  BY <1>1, <1>5, <3>1, <3>2, <3>3, <3>4, <3>5, Zenon DEF Verify
  <2> QED  BY <2>1, <2>2, Zenon
<1>6. ASSUME NEW w \in Workers, TakeTask(w)
      PROVE  FALSE
  <2>1. PICK s : s = Head(pool[w])
      BY Zenon
  <2>2. pool[w] \in Seq(Requests) /\ pool[w] # << >>
      BY <1>6, Zenon DEF TakeTask, IInv, TypeOK
  <2>3. s = pool[w][1] /\ 1 \in 1..Len(pool[w])
      BY <2>1, <2>2
  <2>4. At(s, "queued")
      BY <2>3, Zenon DEF IInv, PoolInv
  <2>5. req' = [req EXCEPT ![s].pc = "thread"]
      BY <1>6, <2>1, Zenon DEF TakeTask
  <2>6. s # r
      BY <1>1, <2>4, Zenon
  <2>7. req'[r] = req[r]
      BY <1>1, <2>5, <2>6, Zenon
  <2> QED  BY <1>1, <2>7, Zenon
<1>7. ASSUME NEW w \in Workers, WorkerCrash(w)
      PROVE  strikes' = strikes /\ spent' = spent
    BY <1>7, Zenon DEF WorkerCrash, store
<1> QED  BY <1>2, <1>3, <1>4, <1>5, <1>6, <1>7, Zenon DEF Next

\* The steps that can charge a client.
LEMMA ChargingSteps ==
    ASSUME IInv, [Next]_vars, NEW c \in Clients, strikes'[c] > strikes[c]
    PROVE  \E r \in Requests :
              SubmitRejected(r) \/ SyncDone(r) \/ ThreadDone(r)
<1>1. strikes \in [Clients -> Nat] /\ strikes[c] \in Nat
    BY Zenon DEF IInv, TypeOK
<1>2. strikes' # strikes
    BY <1>1
<1>3. ~Tick /\ ~(\E k \in Keyring : EditRevocations(k))
         /\ ~(\E n \in Nonces : Forget(n)) /\ ~UNCHANGED vars
    BY <1>2, Zenon DEF Tick, EditRevocations, Forget, vars
<1>4. ~(\E d \in Clients : Lapse(d))
  <2> SUFFICES ASSUME NEW d \in Clients, Lapse(d)
               PROVE  FALSE
      BY Zenon
  <2>1. strikes' = [strikes EXCEPT ![d] = 0]
      BY Zenon DEF Lapse
  <2>2. strikes'[c] = 0 \/ strikes'[c] = strikes[c]
      BY <1>1, <2>1, Zenon
  <2> QED  BY <1>1, <2>2
<1>5. ASSUME NEW s \in Requests
      PROVE  ~Handler(s)
    BY <1>2, Zenon
       DEF Handler, PassSession, RefuseBanned, RefuseUnread, Challenge,
           ReadBody, vars
<1>6. ASSUME NEW s \in Requests, Submit(s)
      PROVE  SubmitRejected(s)
  <2>1. ~SubmitFailed(s)
      BY <1>2, Zenon DEF SubmitFailed, Finalize
  <2> QED  BY <1>2, <1>6, <2>1, Zenon
           DEF Submit, BodyTimeout, SubmitAsync, SubmitSync
<1>7. ASSUME NEW s \in Requests, Verify(s)
      PROVE  SyncDone(s) \/ ThreadDone(s)
    BY <1>2, <1>7, Zenon DEF Verify, GpgSync, GpgThread
<1>8. ASSUME NEW w \in Workers
      PROVE  ~TakeTask(w) /\ ~WorkerCrash(w)
    BY <1>2, Zenon DEF TakeTask, WorkerCrash
<1> QED  BY <1>3, <1>4, <1>5, <1>6, <1>7, <1>8, Zenon DEF Next

\* Every charge is for a submission of that client that the code found at
\* fault, whatever else fails on the server, and whichever verdict a thread
\* left (verify_finalize).
THEOREM ChargesHaveCause == Spec => ChargedForCause
<1>1. IInv /\ [Next]_vars =>
         \A c \in Clients : strikes'[c] > strikes[c] =>
            \E r \in Requests :
               /\ InFlight(r) /\ req[r].client = c
               /\ AtFault(r)
               /\ req'[r] = NoReq
  <2> SUFFICES ASSUME IInv, [Next]_vars, NEW c \in Clients,
                      strikes'[c] > strikes[c]
               PROVE  \E r \in Requests :
                         /\ InFlight(r) /\ req[r].client = c
                         /\ AtFault(r)
                         /\ req'[r] = NoReq
      BY Zenon
  <2>1. PICK r \in Requests : SubmitRejected(r) \/ SyncDone(r) \/ ThreadDone(r)
      BY ChargingSteps, Zenon
  <2>2. InFlight(r) /\ r \in Requests
      BY <2>1, Zenon DEF SubmitRejected, SyncDone, ThreadDone, At
  <2>3. ASSUME NEW rc, Finalize(r, rc)
        PROVE  rc = "DECLINED" /\ req[r].client = c /\ req'[r] = NoReq
    <3>1. /\ strikes \in [Clients -> Nat]
          /\ req \in [Requests -> Submission \cup {NoReq}]
        BY Zenon DEF IInv, TypeOK
    <3>2. /\ req' = [req EXCEPT ![r] = NoReq]
          /\ strikes' \in [Clients -> Nat]
          /\ \/ strikes'[c] <= strikes[c]
             \/ rc = "DECLINED" /\ c = req[r].client
        BY <2>2, <2>3, FinalizeOf, Zenon DEF IInv
    <3>3. ~(strikes'[c] <= strikes[c])
        BY <3>1, <3>2
    <3> QED  BY <3>1, <3>2, <3>3, Zenon
  <2>4. \E rc : Finalize(r, rc)
      BY <2>1, Zenon DEF SubmitRejected, SyncDone, ThreadDone, Settle
  <2>5. ASSUME ~AtFault(r)
        PROVE  FALSE
    <3>1. /\ ~At(r, "body") /\ req[r].gpg # "INVALID"
          /\ req[r].key \notin revoked
          /\ Acceptable(req[r].nonce, req[r].client)
          /\ req[r].nonce \in spent => req[r].own
        BY <2>5, Zenon DEF AtFault
    <3>2. RequestOK(req[r])
        BY <2>2, Zenon DEF IInv, RequestInv
    <3>3. CASE SyncDone(r)
      <4>1. At(r, "judged") /\ ~req[r].own
        <5>1. At(r, "judged")
            BY <3>3, Zenon DEF SyncDone
        <5> QED  BY <3>2, <5>1, Zenon DEF RequestOK, At
      <4>2. ASSUME NEW rc \in ResultCodes, ValidateConsume(r, rc),
                   Settle(r, rc)
            PROVE  FALSE
        <5>1. rc # "DECLINED"
            BY <2>2, <3>1, <4>1, <4>2, ConsumeOf, Zenon
        <5> QED  BY <2>3, <4>2, <5>1, Zenon DEF Settle
      <4> QED  BY <2>3, <3>1, <3>3, <4>2, Zenon DEF SyncDone
    <3>4. CASE ThreadDone(r)
      <4>1. At(r, "done")
          BY <3>4, Zenon DEF ThreadDone
      <4>2. req[r].gpg = "VALID" => req[r].rc # "DECLINED"
          BY <3>1, <3>2, <4>1, Zenon DEF RequestOK, At
      <4>3. PICK rc : rc = req[r].rc
          BY Zenon
      <4>4. \/ Finalize(r, "ERROR")
            \/ rc # "DECLINED" /\ Settle(r, rc)
          BY <3>1, <3>4, <4>2, <4>3, Zenon DEF ThreadDone
      <4>5. CASE Finalize(r, "ERROR")
        <5>1. "ERROR" = "DECLINED"
            BY <2>3, <4>5, Zenon
        <5> QED  BY <5>1
      <4>6. CASE rc # "DECLINED" /\ Settle(r, rc)
          BY <2>3, <4>6, Zenon DEF Settle
      <4> QED  BY <4>4, <4>5, <4>6
    <3> QED  BY <2>1, <3>1, <3>3, <3>4, Zenon DEF SubmitRejected
  <2> QED  BY <2>2, <2>3, <2>4, <2>5, Zenon
<1> QED  BY <1>1, Invariance, PTL DEF Spec, ChargedForCause

\* On the worker a revoked key is refused before the challenge is touched
\* (verify_post).
THEOREM RevocationComesFirst == Spec => RevokedKeepsChallenge
<1>1. IInv /\ [Next]_vars =>
         \A r \in Requests :
            /\ At(r, "judged")
            /\ req[r].key \in Keyring \cap revoked
            /\ req'[r] = NoReq
            => UNCHANGED spent
  <2> SUFFICES ASSUME IInv, [Next]_vars, NEW r \in Requests, At(r, "judged"),
                      req[r].key \in revoked, req'[r] = NoReq
               PROVE  spent' = spent
      BY Zenon
  <2>1. SyncDone(r) => UNCHANGED store
      BY Zenon DEF SyncDone
  <2>2. ~ThreadDone(r)
      BY Zenon DEF ThreadDone, At
  <2> QED  BY <2>1, <2>2, JudgedLeaves, Zenon DEF store
<1> QED  BY <1>1, Invariance, PTL DEF Spec, RevokedKeepsChallenge
=============================================================================
