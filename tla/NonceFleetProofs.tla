--------------------------- MODULE NonceFleetProofs ---------------------------
(***************************************************************************)
(* Proofs about the "redis" single-use store, for every number of nodes,   *)
(* nonces and verifications, every lag of the clocks, every zone capacity  *)
(* and every number of faults.                                             *)
(***************************************************************************)
EXTENDS NonceFleet, TLAPS, FiniteSetTheorems

-----------------------------------------------------------------------------
(* The inductive invariant.                                                *)

Active(c) == call[c] # Idle
SameNonce(c, e) == Active(c) /\ Active(e) /\ call[c].nonce = call[e].nonce

\* Redis has answered the SET of c with "+", whether or not c has read it, or
\* will ever read it.
Won(c) == Active(c) /\ (call[c].rc = "OK" \/ reply[c] = "+")

\* The key of n outlives the challenge, unless Redis lost it.
KeyHeld(n) == redis[n] >= Expiry \/ n \in lost

\* c recorded its nonce after its challenge expired: it cannot reach Redis.
Late(c) ==
    \/ At(c, "redis") /\ Expiry <= time[call[c].node]
    \/ At(c, "over") /\ call[c].rc # "OK"

\* A SET on its way, or still to be sent, sets a key that outlives the
\* challenge, because the node's clock is not ahead of Redis's.
TtlInv ==
    \A c \in Calls :
        At(c, "prelude") \/ At(c, "wait") \/ c \in wire
            => Active(c) /\ call[c].ttl + clock >= Expiry

\* The call of a SET on its way waits, or has given up.
WireInv == \A c \in wire : At(c, "wait") \/ At(c, "over")

\* Only a call that has begun is answered.
ReplyInv == \A c \in Calls : reply[c] # "none" => Active(c)

\* The result is there only when check_and_set is over.
ResultInv == \A c \in Calls : Active(c) /\ ~At(c, "over") => call[c].rc = "NONE"

\* Whoever won set a key that is still held.
KeyInv == \A c \in Calls : Won(c) => KeyHeld(call[c].nonce)

\* A second winner comes after the challenge expired or the key was lost.
WinnerInv ==
    \A c, e \in Calls :
        c # e /\ Won(c) /\ Won(e) /\ SameNonce(c, e)
            => clock >= Expiry \/ call[c].nonce \in lost

\* The zone keeps what it answered OK to until it expires.
ZoneInv ==
    \A c \in Calls :
        Active(c) /\ call[c].local = "OK"
            => \/ call[c].nonce \in zone[call[c].node]
               \/ Expiry <= time[call[c].node]

\* Of two calls that a zone answered OK to, one came too late.
SecondInv ==
    \A c, e \in Calls :
        /\ c # e /\ SameNonce(c, e) /\ call[c].node = call[e].node
        /\ call[c].local = "OK" /\ call[e].local = "OK"
        => Late(c) \/ Late(e)

\* A nonce in a zone was put there by a call.
ZoneTraceInv ==
    \A d \in Nodes : \A n \in zone[d] :
        \E c \in Calls : Active(c) /\ call[c].nonce = n /\ ~At(c, "zone")

\* A key of Redis was set by a call.
KeyTraceInv ==
    \A n \in Nonces : redis[n] # 0 =>
        \E c \in Calls \ wire :
            Active(c) /\ call[c].nonce = n /\ (At(c, "wait") \/ At(c, "over"))

\* A nil reply points to another call.
NilInv ==
    \A c \in Calls :
        reply[c] = "$" => \E e \in Calls \ {c} : SameNonce(c, e)

\* So does a call told "already used", unless it came too late.
ReplayInv ==
    \A c \in Calls :
        Active(c) /\ call[c].rc = "DECLINED"
            => \/ \E e \in Calls \ {c} : SameNonce(c, e)
               \/ time[call[c].node] >= Expiry

TypeInv == TypeOK /\ call \in [Calls -> Run \cup {Idle}]

\* No node's clock is ahead of Redis's.
TimeInv == \A d \in Nodes : time[d] <= clock

IInv ==
    /\ TypeInv /\ TimeInv /\ TtlInv /\ WireInv /\ ReplyInv /\ ResultInv
    /\ KeyInv /\ WinnerInv /\ ZoneInv /\ SecondInv
    /\ ZoneTraceInv /\ KeyTraceInv /\ NilInv /\ ReplayInv

-----------------------------------------------------------------------------
(* What the actions do to a call.                                          *)

\* A call is a run of check_and_set unless it has not begun.
LEMMA ActiveRun ==
    ASSUME TypeInv, NEW c \in Calls
    PROVE  /\ Active(c) <=> ~At(c, "idle")
           /\ Active(c) <=> call[c] \in Run
BY DEF TypeInv, TypeOK, Active, At, Run, Idle

\* In this step c is set to the given point and results, and no other call
\* changes.
Becomes(c, pc, local, ttl, rc) ==
    /\ call' \in [Calls -> Run \cup {Idle}]
    /\ \A e \in Calls \ {c} : call'[e] = call[e]
    /\ call[c] \in Run /\ call'[c] \in Run
    /\ call'[c].pc = pc /\ call'[c].local = local
    /\ call'[c].ttl = ttl /\ call'[c].rc = rc
    /\ call'[c].node = call[c].node /\ call'[c].nonce = call[c].nonce

\* Every step of check_and_set but the zone's: where it leads and with what
\* result.
LEMMA Effects ==
    ASSUME TypeInv, NEW c \in Calls
    PROVE  LET r == call[c] IN
           /\ ExpiredMeanwhile(c) =>
                 Becomes(c, "over", r.local, r.ttl, "DECLINED")
           /\ Connect(c) => Becomes(c, "prelude", r.local, Ttl(r.node), r.rc)
           /\ Handshake(c) \/ Authenticate(c) =>
                 Becomes(c, "prelude", r.local, r.ttl, r.rc)
           /\ Fail(c) \/ GiveUp(c) => Becomes(c, "over", r.local, r.ttl, "ERROR")
           /\ SendSet(c) => Becomes(c, "wait", r.local, r.ttl, r.rc)
           /\ ReadReply(c) =>
                 Becomes(c, "over", r.local, r.ttl, Verdict(reply[c]))
<1> DEFINE r == call[c]
<1>0. << >> \in Seq({"tls", "auth"})
  OBVIOUS
<1>1. ASSUME ~At(c, "idle"),
             NEW rc \in {"NONE", "OK", "DECLINED", "ERROR"}, Return(c, rc)
      PROVE  Becomes(c, "over", r.local, r.ttl, rc)
  <2> DEFINE todo == << >>
  <2>1. r \in Run /\ todo \in Seq({"tls", "auth"})
    BY <1>0, <1>1, ActiveRun, Zenon
  <2>2. call' = [call EXCEPT ![c].pc = "over", ![c].todo = todo, ![c].rc = rc]
    BY <1>1, Zenon DEF Return
  <2> HIDE DEF todo
  <2> QED BY <2>1, <2>2, Zenon DEF Becomes, TypeInv, Run
<1>2. ExpiredMeanwhile(c) => Becomes(c, "over", r.local, r.ttl, "DECLINED")
  BY <1>1, Zenon DEF ExpiredMeanwhile, At
<1>3. Fail(c) \/ GiveUp(c) => Becomes(c, "over", r.local, r.ttl, "ERROR")
  BY <1>1, Zenon DEF Fail, GiveUp, Unanswered, At
<1>4. ReadReply(c) => Becomes(c, "over", r.local, r.ttl, Verdict(reply[c]))
  <2> SUFFICES ASSUME ReadReply(c) 
               PROVE Becomes(c, "over", r.local, r.ttl, Verdict(reply[c]))
    BY Zenon
  <2>1. Verdict(reply[c]) \in {"OK", "DECLINED", "ERROR"}
    BY Zenon DEF ReadReply, Verdict, TypeInv, TypeOK
  <2>2. ~At(c, "idle") /\ Return(c, Verdict(reply[c]))
    BY Zenon DEF ReadReply, At
  <2> HIDE DEF r
  <2> QED BY <1>1, <2>1, <2>2, Zenon DEF r
<1>5. SendSet(c) => Becomes(c, "wait", r.local, r.ttl, r.rc)
  <2> SUFFICES ASSUME SendSet(c) PROVE Becomes(c, "wait", r.local, r.ttl, r.rc)
    BY Zenon
  <2>1. r \in Run
    BY ActiveRun, Zenon DEF SendSet, At
  <2> QED BY <2>1, Zenon DEF SendSet, Becomes, TypeInv, Run
<1>6. Connect(c) => Becomes(c, "prelude", r.local, Ttl(r.node), r.rc)
  <2> SUFFICES ASSUME Connect(c) 
               PROVE Becomes(c, "prelude", r.local, Ttl(r.node), r.rc)
    BY Zenon
  <2>1. r \in Run
    BY ActiveRun, Zenon DEF Connect, At
  <2>2. Ttl(r.node) \in Nat
    BY <2>1, FleetAssumption, SMTT(30) DEF Connect, Ttl, TypeInv, TypeOK, Run
  <2> QED BY <2>1, <2>2, Zenon DEF Connect, Becomes, TypeInv, Run
<1>7. Handshake(c) \/ Authenticate(c) =>
         Becomes(c, "prelude", r.local, r.ttl, r.rc)
  <2> SUFFICES ASSUME Handshake(c) \/ Authenticate(c) 
               PROVE Becomes(c, "prelude", r.local, r.ttl, r.rc)
    BY Zenon
  <2>1. r \in Run /\ r.pc = "prelude"
    BY ActiveRun, Zenon DEF Handshake, Authenticate, Proceed, At
  <2>2. PICK todo \in Seq({"tls", "auth"}) :
            call' = [call EXCEPT ![c].todo = todo]
    <3>1. r.todo \in Seq({"tls", "auth"}) /\ r.todo # << >>
      BY <2>1, Zenon DEF Handshake, Authenticate, Proceed, Run
    <3>2. Tail(r.todo) \in Seq({"tls", "auth"})
      BY <3>1
    <3> QED BY <3>2, Zenon DEF Handshake, Authenticate, Proceed
  <2> QED BY <2>1, <2>2, Zenon DEF Becomes, TypeInv, Run
<1> QED BY <1>2, <1>3, <1>4, <1>5, <1>6, <1>7, Zenon

\* nonce_memory: entries are reclaimed only once they expired, and only a
\* nonce that is not there is recorded.
LEMMA ZoneEffect ==
    ASSUME TypeInv, NEW c \in Calls, Zone(c)
    PROVE  LET r == call[c] IN
           \E kept \in SUBSET zone[r.node] :
              /\ kept = zone[r.node] \/ Expiry <= time[r.node]
              /\ \/ /\ r.nonce \in kept
                    /\ zone' = [zone EXCEPT ![r.node] = kept]
                    /\ Becomes(c, "over", "DECLINED", r.ttl, "DECLINED")
                 \/ /\ r.nonce \notin kept
                    /\ zone' = [zone EXCEPT ![r.node] = kept \cup {r.nonce}]
                    /\ Becomes(c, "redis", "OK", r.ttl, r.rc)
                 \/ /\ r.nonce \notin kept
                    /\ zone' = [zone EXCEPT ![r.node] = kept]
                    /\ Becomes(c, "redis", "ERROR", r.ttl, r.rc)
<1> DEFINE r == call[c]
           d == r.node
           expired == IF Expiry <= time[d] THEN zone[d] ELSE {}
<1>1. r \in Run
  BY ActiveRun, Zenon DEF Zone, At
<1>2. PICK dropped \in SUBSET expired :
         LET kept == zone[d] \ dropped IN
         \/ /\ r.nonce \in kept
            /\ zone' = [zone EXCEPT ![d] = kept]
            /\ call' = [call EXCEPT ![c].pc = "over",
                           ![c].local = "DECLINED", ![c].rc = "DECLINED"]
         \/ /\ r.nonce \notin kept
            /\ zone' = [zone EXCEPT ![d] = kept \cup {r.nonce}]
            /\ call' = [call EXCEPT ![c].pc = "redis", ![c].local = "OK"]
         \/ /\ r.nonce \notin kept
            /\ zone' = [zone EXCEPT ![d] = kept]
            /\ call' = [call EXCEPT ![c].pc = "redis", ![c].local = "ERROR"]
  BY Zenon DEF Zone
<1> DEFINE kept == zone[d] \ dropped
<1>3. kept \in SUBSET zone[d] /\ (kept = zone[d] \/ Expiry <= time[d])
  BY Zenon
<1> HIDE DEF kept, expired, d
<1>4. ASSUME call' = [call EXCEPT ![c].pc = "over", ![c].local = "DECLINED",
                                  ![c].rc = "DECLINED"]
      PROVE  Becomes(c, "over", "DECLINED", r.ttl, "DECLINED")
  BY <1>1, <1>4, Zenon DEF Becomes, TypeInv, Run
<1>5. ASSUME call' = [call EXCEPT ![c].pc = "redis", ![c].local = "OK"]
      PROVE  Becomes(c, "redis", "OK", r.ttl, r.rc)
  BY <1>1, <1>5, Zenon DEF Becomes, TypeInv, Run
<1>6. ASSUME call' = [call EXCEPT ![c].pc = "redis", ![c].local = "ERROR"]
      PROVE  Becomes(c, "redis", "ERROR", r.ttl, r.rc)
  BY <1>1, <1>6, Zenon DEF Becomes, TypeInv, Run
<1> QED BY <1>2, <1>3, <1>4, <1>5, <1>6, Zenon DEF kept, d

\* A cold start ends the calls of the node and forgets what its zone said.
LEMMA ColdStartEffect ==
    ASSUME TypeInv, NEW d \in Nodes, ColdStart(d)
    PROVE  /\ call' \in [Calls -> Run \cup {Idle}]
           /\ \A c \in Calls : Active(c)' <=> Active(c)
           /\ \A c \in Calls : Active(c) =>
                 /\ call'[c].nonce = call[c].nonce
                 /\ call'[c].node = call[c].node
                 /\ call'[c].ttl = call[c].ttl /\ call'[c].rc = call[c].rc
                 /\ call[c].node = d =>
                       At(c, "over")' /\ call'[c].local = "NONE"
                 /\ call[c].node # d => call'[c] = call[c]
<1>1. \A c \in Calls : Active(c) =>
         call[c] \in Run
  BY ActiveRun, Zenon
<1> SUFFICES ASSUME NEW c \in Calls
             PROVE  /\ call'[c] \in Run \cup {Idle}
                    /\ Active(c)' <=> Active(c)
                    /\ Active(c) =>
                       /\ call'[c].nonce = call[c].nonce
                       /\ call'[c].node = call[c].node
                       /\ call'[c].ttl = call[c].ttl /\ call'[c].rc = call[c].rc
                       /\ call[c].node = d =>
                             At(c, "over")' /\ call'[c].local = "NONE"
                       /\ call[c].node # d => call'[c] = call[c]
  BY Zenon DEF ColdStart
<1>2. CASE Active(c) /\ call[c].node = d
  <2>1. call[c] \in Run
    BY <1>1, <1>2, Zenon
  <2>2. call'[c] = [call[c] EXCEPT !.pc = "over", !.local = "NONE"]
    BY <1>2, Zenon DEF ColdStart, Active
  <2> QED BY <2>1, <2>2, <1>2, Zenon DEF Run, Active, At, Idle
<1>3. CASE ~(Active(c) /\ call[c].node = d)
  BY <1>3, Zenon DEF ColdStart, Active, TypeInv
<1> QED BY <1>2, <1>3, Zenon

\* validate_consume starts a call of check_and_set, at its first step.
LEMMA BeginEffect ==
    ASSUME TypeInv, NEW c \in Calls, NEW d \in Nodes, NEW n \in Nonces,
           Begin(c, d, n)
    PROVE  /\ call' \in [Calls -> Run \cup {Idle}]
           /\ \A e \in Calls \ {c} : call'[e] = call[e]
           /\ ~Active(c) /\ call'[c] \in Run
           /\ call'[c].pc = "zone" /\ call'[c].node = d /\ call'[c].nonce = n
           /\ call'[c].local = "NONE" /\ call'[c].rc = "NONE"
<1>1. ~Active(c)
  BY ActiveRun, Zenon DEF Begin
<1> QED BY <1>1, FleetAssumption, Zenon DEF Begin, TypeInv, Run

\* What a step that changes one call leaves as it was.
LEMMA Frame ==
    ASSUME TypeInv, NEW c \in Calls, NEW pc, NEW local, NEW ttl, NEW rc,
           Becomes(c, pc, local, ttl, rc)
    PROVE  /\ Active(c) /\ Active(c)'
           /\ \A e \in Calls : Active(e)' <=> Active(e)
           /\ \A e \in Calls : /\ call'[e].nonce = call[e].nonce
                               /\ call'[e].node = call[e].node
<1>1. Active(c) /\ Active(c)'
  BY DEF Becomes, Active, Run, Idle
<1>2. \A e \in Calls \ {c} : call'[e] = call[e]
  BY Zenon DEF Becomes
<1>3. \A e \in Calls : Active(e)' <=> Active(e)
  BY <1>1, <1>2, Zenon DEF Active
<1> QED BY <1>1, <1>2, <1>3, Zenon DEF Becomes

\* The facts about types that the arithmetic below needs.
LEMMA Typed ==
    ASSUME TypeInv
    PROVE  /\ Expiry \in Nat /\ clock \in Nat /\ wire \subseteq Calls
           /\ \A d \in Nodes : time[d] \in Nat
           /\ \A n \in Nonces : redis[n] \in Nat
           /\ \A c \in Calls : Active(c) =>
                 /\ call[c].node \in Nodes /\ call[c].nonce \in Nonces
                 /\ call[c].ttl \in Nat /\ time[call[c].node] \in Nat
<1>1. \A c \in Calls : Active(c) => call[c] \in Run
  BY ActiveRun, Zenon
<1> QED BY <1>1, FleetAssumption, SMTT(30) DEF TypeInv, TypeOK, Run

-----------------------------------------------------------------------------
(* The steps of check_and_set after the zone's.                            *)

\* What the invariant sees of such a step: c goes on towards its end, with the
\* answer of the zone it had; a SET still to be executed sets a key that
\* outlives the challenge; there is no grant, and no replay before the expiry,
\* that Redis did not report.
Moved(c) ==
    /\ call' \in [Calls -> Run \cup {Idle}]
    /\ reply' \in [Calls -> {"none", "+", "$", "-"}]
    /\ UNCHANGED <<clock, time, faults, lost, zone, redis>>
    /\ \/ wire' = wire
       \/ wire' = wire \cup {c} /\ At(c, "prelude") /\ At(c, "wait")'
    /\ Active(c) /\ Active(c)' /\ ~At(c, "over")
    /\ \A e \in Calls \ {c} : call'[e] = call[e] /\ reply'[e] = reply[e]
    /\ call'[c].nonce = call[c].nonce
    /\ call'[c].node = call[c].node
    /\ call'[c].local = call[c].local
    /\ At(c, "prelude")' \/ At(c, "wait")' \/ At(c, "over")'
    /\ At(c, "wait") \/ c \in wire => At(c, "over")'
    /\ At(c, "over")' \/ call'[c].rc = "NONE"
    /\ call'[c].ttl + clock >= Expiry \/ (At(c, "over")' /\ c \notin wire)
    /\ Won(c)' => Won(c)
    /\ Late(c) => Late(c)'
    /\ reply'[c] = reply[c] \/ reply'[c] = "none"
    /\ call'[c].rc = "DECLINED" =>
          reply[c] = "$" \/ time[call[c].node] >= Expiry

\* Such a step preserves the invariant.
LEMMA MovedKeeps ==
    ASSUME IInv, NEW c \in Calls, Moved(c)
    PROVE  IInv'
<1>1. /\ \A e \in Calls : Active(e)' <=> Active(e)
      /\ \A e \in Calls : /\ call'[e].nonce = call[e].nonce
                          /\ call'[e].node = call[e].node
                          /\ call'[e].local = call[e].local
  BY Zenon DEF Moved, Active
<1>2. \A e \in Calls : Won(e)' => Won(e)
  BY <1>1, Zenon DEF Moved, Won
<1>3. \A e \in Calls : Late(e) => Late(e)'
  BY <1>1, ZenonT(40) DEF Moved, Late, At
<1>4. /\ clock' = clock /\ time' = time /\ lost' = lost
      /\ zone' = zone /\ redis' = redis
  BY Zenon DEF Moved
<1>5. TypeInv' /\ TimeInv'
  BY Zenon DEF Moved, IInv, TypeInv, TypeOK, TimeInv
<1>6. TtlInv' /\ WireInv'
  BY <1>1, Typed DEF Moved, IInv, TtlInv, WireInv, At
<1>7. ReplyInv' /\ ResultInv'
  BY <1>1 DEF Moved, IInv, ReplyInv, ResultInv, At
<1>8. KeyInv' /\ WinnerInv'
  BY <1>1, <1>2, <1>4 DEF IInv, KeyInv, WinnerInv, KeyHeld, SameNonce
<1>9. ZoneInv' /\ SecondInv'
  BY <1>1, <1>3, <1>4, Zenon DEF IInv, ZoneInv, SecondInv, SameNonce
<1>10. \A e \in Calls : ~At(e, "zone") => ~At(e, "zone")'
  BY Zenon DEF Moved, At
<1>11. \A e \in Calls \ wire : At(e, "wait") \/ At(e, "over")
          => e \notin wire' /\ (At(e, "wait")' \/ At(e, "over")')
  <2>1. \A e \in Calls \ {c} : /\ e \in wire' <=> e \in wire
                               /\ At(e, "wait")' <=> At(e, "wait")
                               /\ At(e, "over")' <=> At(e, "over")
    BY Zenon DEF Moved, At
  <2>2. c \notin wire /\ At(c, "wait") => c \notin wire' /\ At(c, "over")'
    BY DEF Moved, At
  <2> QED BY <2>1, <2>2, Zenon DEF Moved
<1>12. ZoneTraceInv' /\ KeyTraceInv'
  <2>1. ZoneTraceInv'
    BY <1>1, <1>4, <1>10, Zenon DEF IInv, ZoneTraceInv
  <2>2. KeyTraceInv'
    BY <1>1, <1>4, <1>11, ZenonT(40) DEF IInv, KeyTraceInv
  <2> QED BY <2>1, <2>2, Zenon
<1>13. NilInv' /\ ReplayInv'
  <2>1. \A e, f \in Calls : SameNonce(e, f) => SameNonce(e, f)'
    BY <1>1, Zenon DEF SameNonce
  <2>2. NilInv'
    BY <2>1, Zenon DEF Moved, IInv, NilInv
  <2>3. ReplayInv'
    BY <1>1, <1>4, <2>1 DEF Moved, IInv, NilInv, ReplayInv
  <2> QED BY <2>2, <2>3, Zenon
<1> QED
  BY <1>5, <1>6, <1>7, <1>8, <1>9, <1>12, <1>13, Zenon DEF IInv

\* Every step of check_and_set but the zone's is such a step: nonce_redis
\* refuses a challenge that expired meanwhile, connects, goes through the
\* handshake and AUTH, fails, sends its SET, reads the reply or gives up.
LEMMA StepsMove ==
    ASSUME IInv, NEW c \in Calls, Step(c), ~Zone(c)
    PROVE  Moved(c)
<1> DEFINE r == call[c]
           Same == UNCHANGED <<clock, time, faults, lost, zone, redis>>
<1>0. /\ reply \in [Calls -> {"none", "+", "$", "-"}] /\ wire \subseteq Calls
      /\ Active(c) => r.ttl \in Nat /\ time[r.node] \in Nat
                        /\ time[r.node] <= clock
      /\ clock \in Nat /\ Expiry \in Nat
      /\ c \in wire => At(c, "wait") \/ At(c, "over")
      /\ At(c, "prelude") \/ At(c, "wait") => r.ttl + clock >= Expiry
      /\ Active(c) /\ ~At(c, "over") => r.rc = "NONE"
      /\ TypeInv
  BY Typed, Zenon DEF IInv, TypeInv, TypeOK, TimeInv, WireInv, TtlInv,
     ResultInv
<1>1. CASE ExpiredMeanwhile(c)
  <2>1. /\ Becomes(c, "over", r.local, r.ttl, "DECLINED")
        /\ At(c, "redis") /\ Expiry - time[r.node] <= 0
        /\ Same /\ wire' = wire /\ reply' = reply
    BY <1>0, <1>1, Effects, Zenon DEF ExpiredMeanwhile, Ttl, environment
  <2> QED BY <1>0, <2>1, Frame DEF Moved, Becomes, Won, Late, At
<1>2. CASE Connect(c)
  <2>1. /\ Becomes(c, "prelude", r.local, Expiry - time[r.node], r.rc)
        /\ At(c, "redis") /\ Expiry - time[r.node] > 0
        /\ Same /\ wire' = wire /\ reply' = reply
    BY <1>0, <1>2, Effects, Zenon DEF Connect, Ttl, environment
  <2> QED BY <1>0, <2>1, Frame DEF Moved, Becomes, Won, Late, At
<1>3. CASE Handshake(c) \/ Authenticate(c)
  <2>1. /\ Becomes(c, "prelude", r.local, r.ttl, r.rc)
        /\ At(c, "prelude")
        /\ Same /\ wire' = wire /\ reply' = reply
    BY <1>0, <1>3, Effects, Zenon DEF Handshake, Authenticate, Proceed,
       environment
  <2> QED BY <1>0, <2>1, Frame, Zenon DEF Moved, Becomes, Won, Late, At
<1>4. CASE Fail(c) \/ GiveUp(c)
  <2>1. /\ Becomes(c, "over", r.local, r.ttl, "ERROR")
        /\ At(c, "redis") \/ At(c, "prelude") \/ At(c, "wait")
        /\ Same /\ wire' = wire /\ reply' = reply
    BY <1>0, <1>4, Effects, Zenon DEF Fail, GiveUp, Unanswered, environment
  <2> QED BY <1>0, <2>1, Frame, Zenon DEF Moved, Becomes, Won, Late, At
<1>5. CASE SendSet(c)
  <2>1. /\ Becomes(c, "wait", r.local, r.ttl, r.rc)
        /\ At(c, "prelude")
        /\ Same /\ wire' = wire \cup {c} /\ reply' = reply
    BY <1>0, <1>5, Effects, Zenon DEF SendSet, environment
  <2> QED BY <1>0, <2>1, Frame, Zenon DEF Moved, Becomes, Won, Late, At
<1>6. CASE ReadReply(c)
  <2>1. /\ Becomes(c, "over", r.local, r.ttl, Verdict(reply[c]))
        /\ At(c, "wait") /\ reply[c] # "none"
        /\ Same /\ wire' = wire /\ reply' = [reply EXCEPT ![c] = "none"]
    BY <1>0, <1>6, Effects, Zenon DEF ReadReply, environment
  <2>2. /\ Verdict(reply[c]) = "OK" <=> reply[c] = "+"
        /\ Verdict(reply[c]) = "DECLINED" <=> reply[c] = "$"
    BY <1>0, <2>1, Zenon DEF Verdict
  <2> HIDE DEF r
  <2> QED BY <1>0, <2>1, <2>2, Frame, Zenon DEF Moved, Becomes, Won, Late, At,
             r
<1> QED BY <1>1, <1>2, <1>3, <1>4, <1>5, <1>6, Zenon DEF Step

-----------------------------------------------------------------------------
(* The other steps.                                                        *)

\* Redis's clock moves on.
LEMMA TickStep ==
    ASSUME IInv, Tick
    PROVE  IInv'
<1>1. /\ \A c \in Calls : Active(c)' <=> Active(c)
      /\ clock' = clock + 1 /\ clock < MaxClock
      /\ time' = time /\ faults' = faults /\ lost' = lost /\ zone' = zone
      /\ redis' = redis /\ wire' = wire /\ reply' = reply /\ call' = call
  BY Zenon DEF Tick, Active
<1>2. TypeInv' /\ TimeInv'
  BY <1>1, FleetAssumption, SMTT(30) DEF IInv, TypeInv, TypeOK, TimeInv
<1>3. TtlInv' /\ WinnerInv'
  BY <1>1, Typed DEF IInv, TtlInv, WinnerInv, At, Won, SameNonce
<1>4. WireInv' /\ ReplyInv' /\ ResultInv' /\ KeyInv'
  BY <1>1, Zenon DEF IInv, WireInv, ReplyInv, ResultInv, KeyInv, At, Won,
     KeyHeld
<1>5. ZoneInv' /\ SecondInv' /\ ZoneTraceInv' /\ KeyTraceInv'
  BY <1>1 DEF IInv, ZoneInv, SecondInv, ZoneTraceInv, KeyTraceInv, At, Late,
     SameNonce
<1>6. NilInv' /\ ReplayInv'
  BY <1>1, Zenon DEF IInv, NilInv, ReplayInv, SameNonce
<1> QED
  BY <1>2, <1>3, <1>4, <1>5, <1>6, Zenon DEF IInv

\* A node's clock catches up.
LEMMA UpdateTimeStep ==
    ASSUME IInv, NEW d \in Nodes, UpdateTime(d)
    PROVE  IInv'
<1>1. /\ \A c \in Calls : Active(c)' <=> Active(c)
      /\ time' = [time EXCEPT ![d] = clock]
      /\ clock' = clock /\ faults' = faults /\ lost' = lost /\ zone' = zone
      /\ redis' = redis /\ wire' = wire /\ reply' = reply /\ call' = call
  BY Zenon DEF UpdateTime, Active
<1>2. \A x \in Nodes : /\ time'[x] \in Nat
                       /\ time[x] <= time'[x] /\ time'[x] <= clock
  BY <1>1, Typed DEF IInv, TypeInv, TypeOK, TimeInv
<1>3. TypeInv' /\ TimeInv'
  BY <1>1, <1>2, Zenon DEF IInv, TypeInv, TypeOK, TimeInv
<1>4. ZoneInv' /\ SecondInv' /\ ReplayInv'
  <2>1. \A c \in Calls : Active(c) =>
           time[call[c].node] <= time'[call[c].node]
             /\ time[call[c].node] \in Nat /\ time'[call[c].node] \in Nat
    BY <1>2, Typed, Zenon DEF IInv
  <2>2. Expiry \in Nat
    BY Typed, Zenon DEF IInv
  <2> QED BY <1>1, <2>1, <2>2 DEF IInv, ZoneInv, SecondInv, ReplayInv, At,
             Late, SameNonce
<1>5. TtlInv' /\ WireInv' /\ ReplyInv' /\ ResultInv' /\ KeyInv' /\ WinnerInv'
  BY <1>1, Zenon DEF IInv, TtlInv, WireInv, ReplyInv, ResultInv, KeyInv,
     WinnerInv,
     At, Won, KeyHeld, SameNonce
<1>6. ZoneTraceInv' /\ KeyTraceInv' /\ NilInv'
  BY <1>1 DEF IInv, ZoneTraceInv, KeyTraceInv, NilInv, At, SameNonce
<1> QED
  BY <1>3, <1>4, <1>5, <1>6, Zenon DEF IInv

\* Redis loses a key: from then on its nonce counts as lost.
LEMMA RedisLosesStep ==
    ASSUME IInv, NEW n \in Nonces, RedisLoses(n)
    PROVE  IInv'
<1>1. /\ \A c \in Calls : Active(c)' <=> Active(c)
      /\ redis' = [redis EXCEPT ![n] = 0] /\ lost' = lost \cup {n}
      /\ faults < MaxFaults /\ faults' = faults + 1
      /\ clock' = clock /\ time' = time /\ zone' = zone
      /\ wire' = wire /\ reply' = reply /\ call' = call
  BY Zenon DEF RedisLoses, Active
<1>2. redis'[n] = 0 /\ \A m \in Nonces \ {n} : redis'[m] = redis[m]
  BY <1>1, Zenon DEF IInv, TypeInv, TypeOK
<1>3. TypeInv' /\ TimeInv'
  BY <1>1, FleetAssumption DEF IInv, TypeInv, TypeOK, TimeInv
<1>4. KeyInv' /\ WinnerInv'
  BY <1>1, <1>2, Typed, SMTT(30)
     DEF IInv, KeyInv, WinnerInv, Won, KeyHeld, SameNonce
<1>5. TtlInv' /\ WireInv' /\ ReplyInv' /\ ResultInv' /\ ZoneInv' /\ SecondInv'
  BY <1>1 DEF IInv, TtlInv, WireInv, ReplyInv, ResultInv, ZoneInv, SecondInv,
     At, Late, SameNonce
<1>6. ZoneTraceInv' /\ KeyTraceInv' /\ NilInv' /\ ReplayInv'
  BY <1>1, <1>2 DEF IInv, ZoneTraceInv, KeyTraceInv, NilInv, ReplayInv, At,
     SameNonce
<1> QED
  BY <1>3, <1>4, <1>5, <1>6, Zenon DEF IInv

\* The network loses a SET.
LEMMA LoseSetStep ==
    ASSUME IInv, NEW c \in Calls, LoseSet(c)
    PROVE  IInv'
<1>1. /\ \A e \in Calls : Active(e)' <=> Active(e)
      /\ wire' = wire \ {c}
      /\ clock' = clock /\ time' = time /\ faults' = faults /\ lost' = lost
      /\ zone' = zone /\ redis' = redis /\ reply' = reply /\ call' = call
  BY Zenon DEF LoseSet, Active, environment
<1>2. TypeInv' /\ TimeInv' /\ TtlInv' /\ WireInv'
  BY <1>1, Zenon DEF IInv, TypeInv, TypeOK, TimeInv, TtlInv, WireInv, At
<1>3. ReplyInv' /\ ResultInv' /\ KeyInv' /\ WinnerInv' /\ ZoneInv' /\ SecondInv'
  BY <1>1 DEF IInv, ReplyInv, ResultInv, KeyInv, WinnerInv, ZoneInv, SecondInv,
     At, Won, KeyHeld, Late, SameNonce
<1>4. ZoneTraceInv' /\ KeyTraceInv' /\ NilInv' /\ ReplayInv'
  BY <1>1 DEF IInv, ZoneTraceInv, KeyTraceInv, NilInv, ReplayInv, At, SameNonce
<1> QED
  BY <1>2, <1>3, <1>4, Zenon DEF IInv

\* Redis executes a SET NX EX: a key that is there is not set again, and a key
\* that it sets outlives the challenge.
LEMMA SetNxStep ==
    ASSUME IInv, NEW c \in Calls, SetNx(c)
    PROVE  IInv'
<1>1. /\ \A e \in Calls : Active(e)' <=> Active(e)
      /\ c \in wire /\ wire' = wire \ {c}
      /\ clock' = clock /\ time' = time /\ faults' = faults /\ lost' = lost
      /\ zone' = zone /\ call' = call
  BY Zenon DEF SetNx, Active, environment
<1>2. /\ Active(c) /\ call[c].ttl + clock >= Expiry
      /\ At(c, "wait") \/ At(c, "over")
      /\ call[c].nonce \in Nonces
  BY <1>1, Typed, Zenon DEF IInv, TtlInv, WireInv
<1>3. PICK n \in Nonces : n = call[c].nonce
  BY <1>2, Zenon
<1>4. /\ \A e \in Calls \ {c} : reply'[e] = reply[e]
      /\ \A m \in Nonces \ {n} : redis'[m] = redis[m]
      /\ \/ /\ reply'[c] = "+" /\ redis[n] <= clock
            /\ redis'[n] = clock + call[c].ttl
         \/ reply'[c] = "$" /\ redis[n] > clock /\ redis' = redis
         \/ reply'[c] = "-" /\ redis' = redis
  BY <1>3, Typed DEF SetNx, InRedis, IInv, TypeInv, TypeOK
<1>5. TypeInv' /\ TimeInv'
  BY <1>1, <1>2, Typed, SMTT(30) DEF SetNx, IInv, TypeInv, TypeOK, TimeInv
<1>6. TtlInv' /\ WireInv' /\ ReplyInv' /\ ResultInv' /\ ZoneInv' /\ SecondInv'
  BY <1>1, <1>2, <1>4 DEF IInv, TtlInv, WireInv, ReplyInv, ResultInv, ZoneInv,
     SecondInv, At, Late, SameNonce
<1>7. redis[n] \in Nat /\ clock \in Nat /\ Expiry \in Nat /\ call[c].ttl \in Nat
  BY <1>2, Typed, Zenon DEF IInv
<1>8. KeyInv'
  <2>1. redis'[n] >= Expiry \/ (redis'[n] = redis[n] /\ ~Won(c)')
          \/ (redis'[n] = redis[n] /\ Won(c))
    BY <1>1, <1>2, <1>4, <1>7 DEF Won
  <2>2. \A e \in Calls \ {c} : Won(e)' <=> Won(e)
    BY <1>1, <1>4, Zenon DEF Won
  <2>3. ASSUME NEW e \in Calls, Won(e)'
        PROVE  redis'[call[e].nonce] >= Expiry \/ call[e].nonce \in lost
    <3>1. CASE Won(e)
      BY <1>2, <1>3, <1>4, <1>7, <2>1, <3>1, Typed, Zenon DEF IInv, KeyInv,
         KeyHeld, Won
    <3>2. CASE ~Won(e)
      BY <1>3, <2>1, <2>2, <2>3, <3>2, Zenon
    <3> QED BY <3>1, <3>2, Zenon
  <2> QED BY <1>1, <2>3, Zenon DEF KeyInv, KeyHeld
<1>9. WinnerInv'
  <2> SUFFICES ASSUME NEW x \in Calls, NEW y \in Calls, x # y,
                      Won(x)', Won(y)', SameNonce(x, y)'
               PROVE  (clock >= Expiry \/ call[x].nonce \in lost)'
    BY Zenon DEF WinnerInv
  <2>1. CASE Won(x) /\ Won(y)
    BY <1>1, <2>1, Zenon DEF IInv, WinnerInv, SameNonce
  <2>2. ASSUME NEW e \in Calls, Won(e), call[e].nonce = n, redis[n] <= clock
        PROVE  clock >= Expiry \/ n \in lost
    BY <1>7, <2>2 DEF IInv, KeyInv, KeyHeld
  <2>3. \A e \in Calls : Won(e)' => Won(e) \/ (e = c /\ redis[n] <= clock)
    BY <1>1, <1>4, Zenon DEF Won
  <2> QED BY <1>1, <1>3, <2>1, <2>2, <2>3, Zenon DEF SameNonce
<1>10. ZoneTraceInv' /\ KeyTraceInv'
  BY <1>1, <1>2, <1>3, <1>4 DEF IInv, ZoneTraceInv, KeyTraceInv, At
<1>11. NilInv'
  <2>1. redis[n] > clock => \E e \in Calls \ {c} : SameNonce(c, e)
    BY <1>1, <1>2, <1>3, <1>7 DEF IInv, KeyTraceInv, SameNonce
  <2> QED BY <1>1, <1>4, <2>1, Zenon DEF IInv, NilInv, SameNonce
<1>12. ReplayInv'
  BY <1>1, Zenon DEF IInv, ReplayInv, SameNonce
<1> QED
  BY <1>5, <1>6, <1>8, <1>9, <1>10, <1>11, <1>12, Zenon DEF IInv

\* A call begins.
LEMMA BeginStep ==
    ASSUME IInv, NEW c \in Calls, NEW d \in Nodes, NEW n \in Nonces,
           Begin(c, d, n)
    PROVE  IInv'
<1>1. /\ call' \in [Calls -> Run \cup {Idle}] /\ faults' = faults
      /\ clock' = clock /\ time' = time /\ lost' = lost /\ zone' = zone
      /\ redis' = redis /\ wire' = wire /\ reply' = reply
  BY BeginEffect, Zenon DEF IInv, Begin, environment
<1>2. /\ ~Active(c) /\ Active(c)'
      /\ \A e \in Calls \ {c} : call'[e] = call[e] /\ (Active(e)' <=> Active(e))
      /\ call'[c].pc = "zone" /\ call'[c].node = d /\ call'[c].nonce = n
      /\ call'[c].local = "NONE" /\ call'[c].rc = "NONE"
  BY BeginEffect DEF IInv, Active, Run, Idle
<1>3. c \notin wire /\ reply[c] = "none"
  BY <1>2, Zenon DEF IInv, TtlInv, ReplyInv
<1>4. TypeInv' /\ TimeInv'
  BY <1>1, Zenon DEF IInv, TypeInv, TypeOK, TimeInv
<1>5. TtlInv' /\ WireInv' /\ ReplyInv' /\ ResultInv'
  BY <1>1, <1>2, <1>3, Typed, Zenon DEF IInv, TtlInv, WireInv, ReplyInv,
     ResultInv, At
<1>6. KeyInv' /\ WinnerInv'
  BY <1>1, <1>2, <1>3, ZenonT(40) DEF IInv, KeyInv, WinnerInv, Won, KeyHeld,
     SameNonce
<1>7. ZoneInv' /\ SecondInv'
  BY <1>1, <1>2 DEF IInv, ZoneInv, SecondInv, Late, SameNonce, At
<1>8. ZoneTraceInv' /\ KeyTraceInv'
  <2>1. \A e \in Calls : Active(e) => e # c
    BY <1>2, Zenon
  <2> QED BY <1>1, <1>2, <2>1 DEF IInv, ZoneTraceInv, KeyTraceInv, At
<1>9. \A e, f \in Calls : SameNonce(e, f) => SameNonce(e, f)'
  BY <1>2, Zenon DEF SameNonce
<1>10. NilInv' /\ ReplayInv'
  BY <1>1, <1>2, <1>3, <1>9, Zenon DEF IInv, NilInv, ReplayInv
<1> QED
  BY <1>4, <1>5, <1>6, <1>7, <1>8, <1>10, Zenon DEF IInv

\* A node is started cold.
LEMMA ColdStartStep ==
    ASSUME IInv, NEW d \in Nodes, ColdStart(d)
    PROVE  IInv'
<1>1. /\ call' \in [Calls -> Run \cup {Idle}]
      /\ zone' = [zone EXCEPT ![d] = {}]
      /\ faults < MaxFaults /\ faults' = faults + 1
      /\ clock' = clock /\ time' = time /\ lost' = lost
      /\ redis' = redis /\ wire' = wire /\ reply' = reply
  BY ColdStartEffect, Zenon DEF IInv, ColdStart
<1>2. /\ \A c \in Calls : Active(c)' <=> Active(c)
      /\ \A c \in Calls : Active(c) =>
            /\ call'[c].nonce = call[c].nonce
            /\ call'[c].node = call[c].node
            /\ call'[c].ttl = call[c].ttl /\ call'[c].rc = call[c].rc
            /\ call[c].node = d =>
                  At(c, "over")' /\ call'[c].local = "NONE"
            /\ call[c].node # d => call'[c] = call[c]
  BY ColdStartEffect, Zenon DEF IInv
<1>3. /\ \A e, f \in Calls : SameNonce(e, f)' <=> SameNonce(e, f)
      /\ \A e \in Calls : Won(e)' <=> Won(e)
  BY <1>1, <1>2, Zenon DEF SameNonce, Won
<1>4. \A e \in Calls : Active(e) => At(e, "over")' \/ call'[e] = call[e]
  BY <1>2, Zenon
<1>5. TypeInv' /\ TimeInv'
  BY <1>1, FleetAssumption DEF IInv, TypeInv, TypeOK, TimeInv
<1>6. TtlInv' /\ WireInv'
  <2>1. \A e \in Calls : At(e, "prelude")' \/ At(e, "wait")' => Active(e)'
    BY <1>1 DEF Active, At, Idle
  <2> QED BY <1>1, <1>2, <1>4, <2>1, Typed, ZenonT(40)
     DEF IInv, TtlInv, WireInv, At
<1>7. ReplyInv' /\ ResultInv'
  BY <1>1, <1>2, <1>4, ZenonT(40) DEF IInv, ReplyInv, ResultInv, At
<1>8. KeyInv' /\ WinnerInv'
  <2>1. \A e \in Calls : Won(e) => call'[e].nonce = call[e].nonce
    BY <1>2, Zenon DEF Won
  <2> QED BY <1>1, <1>3, <2>1, Zenon DEF IInv, KeyInv, WinnerInv, KeyHeld
<1>9. /\ \A x \in Nodes \ {d} : zone'[x] = zone[x]
      /\ zone'[d] = {}
  BY <1>1, Zenon DEF IInv, TypeInv, TypeOK
<1>10. ZoneInv'
  BY <1>1, <1>2, <1>9, Typed, SMTT(30) DEF IInv, ZoneInv
<1>11. SecondInv'
  BY <1>1, <1>2, <1>3, SMTT(30) DEF IInv, SecondInv, SameNonce, Late, At
<1>12. ZoneTraceInv' /\ KeyTraceInv'
  BY <1>1, <1>2, <1>4, <1>9 DEF IInv, ZoneTraceInv, KeyTraceInv, At
<1>13. NilInv' /\ ReplayInv'
  BY <1>1, <1>2, <1>3, Zenon DEF IInv, NilInv, ReplayInv
<1> QED
  BY <1>5, <1>6, <1>7, <1>8, <1>10, <1>11, <1>12, <1>13, Zenon DEF IInv

\* nonce_memory answers: what it recorded before stays, unless it expired, and
\* then this call comes too late for Redis.
LEMMA ZoneStep ==
    ASSUME IInv, NEW c \in Calls, Zone(c)
    PROVE  IInv'
<1>1. PICK kept \in SUBSET zone[call[c].node] :
         /\ kept = zone[call[c].node] \/ Expiry <= time[call[c].node]
         /\ \/ /\ call[c].nonce \in kept
               /\ zone' = [zone EXCEPT ![call[c].node] = kept]
               /\ Becomes(c, "over", "DECLINED", call[c].ttl, "DECLINED")
            \/ /\ call[c].nonce \notin kept
               /\ zone' = [zone EXCEPT ![call[c].node] =
                                          kept \cup {call[c].nonce}]
               /\ Becomes(c, "redis", "OK", call[c].ttl, call[c].rc)
            \/ /\ call[c].nonce \notin kept
               /\ zone' = [zone EXCEPT ![call[c].node] = kept]
               /\ Becomes(c, "redis", "ERROR", call[c].ttl, call[c].rc)
  BY ZoneEffect, Zenon DEF IInv
<1>2. /\ Active(c) /\ \A e \in Calls : Active(e)' <=> Active(e)
      /\ \A e \in Calls : /\ call'[e].nonce = call[e].nonce
                          /\ call'[e].node = call[e].node
  BY <1>1, Frame, Zenon DEF IInv
<1>3. /\ UNCHANGED <<clock, time, faults, lost, redis, wire, reply>>
      /\ At(c, "zone") /\ call[c].node \in Nodes /\ call[c].nonce \in Nonces
      /\ zone \in [Nodes -> SUBSET Nonces]
  BY <1>2, Typed, Zenon DEF Zone, environment, IInv, TypeInv, TypeOK
<1>4. PICK d \in Nodes, n \in Nonces :
         /\ d = call[c].node /\ n = call[c].nonce
         /\ \A x \in Nodes \ {d} : zone'[x] = zone[x]
         /\ \A e \in Calls \ {c} : call'[e] = call[e]
         /\ call'[c].ttl = call[c].ttl
         /\ \/ /\ n \in kept /\ zone'[d] = kept
               /\ call'[c].pc = "over" /\ call'[c].local = "DECLINED"
               /\ call'[c].rc = "DECLINED"
            \/ /\ n \notin kept /\ zone'[d] = kept \cup {n}
               /\ call'[c].pc = "redis" /\ call'[c].local = "OK"
               /\ call'[c].rc = call[c].rc
            \/ /\ n \notin kept /\ zone'[d] = kept
               /\ call'[c].pc = "redis" /\ call'[c].local = "ERROR"
               /\ call'[c].rc = call[c].rc
  BY <1>1, <1>3, Zenon DEF Becomes
<1>5. kept \subseteq zone[d] /\ (kept = zone[d] \/ Expiry <= time[d])
  BY <1>1, <1>4, Zenon
<1>6. /\ \A e, f \in Calls : SameNonce(e, f)' <=> SameNonce(e, f)
      /\ \A e \in Calls : Won(e)' => Won(e)
  BY <1>2, <1>3, <1>4, ZenonT(40) DEF SameNonce, Won
<1>7. TypeInv' /\ TimeInv'
  BY <1>1, <1>3 DEF IInv, TypeInv, TypeOK, TimeInv, Becomes
<1>8. c \notin wire /\ call[c].rc = "NONE"
  BY <1>2, <1>3, Zenon DEF IInv, WireInv, ResultInv, At
<1>9. TtlInv' /\ WireInv' /\ ReplyInv' /\ ResultInv'
  <2>1. TtlInv' /\ WireInv'
    BY <1>2, <1>3, <1>4, <1>8, Typed, ZenonT(40) DEF At, IInv, TtlInv, WireInv
  <2>2. ReplyInv' /\ ResultInv'
    BY <1>2, <1>3, <1>4, <1>8 DEF At, IInv, ReplyInv, ResultInv
  <2> QED BY <2>1, <2>2, Zenon
<1>10. KeyInv' /\ WinnerInv'
  BY <1>2, <1>3, <1>6, ZenonT(40) DEF IInv, KeyInv, WinnerInv, KeyHeld
<1>11. ZoneInv'
  BY <1>2, <1>3, <1>4, <1>5, Typed, SMTT(30) DEF IInv, ZoneInv
<1>12. SecondInv'
  <2> SUFFICES ASSUME NEW e \in Calls, NEW f \in Calls, e # f,
                      SameNonce(e, f)', (call[e].node = call[f].node)',
                      (call[e].local = "OK")', (call[f].local = "OK")'
               PROVE  Late(e)' \/ Late(f)'
    BY Zenon DEF SecondInv
  <2>1. SameNonce(e, f) /\ call[e].node = call[f].node
    BY <1>2, <1>6, Zenon
  <2>2. CASE e # c /\ f # c
    <3>1. Late(e) \/ Late(f)
      BY <1>4, <2>1, <2>2, Zenon DEF IInv, SecondInv
    <3> QED BY <1>3, <1>4, <2>2, <3>1, ZenonT(40) DEF Late, At
  <2>3. ASSUME NEW g \in Calls \ {c}, SameNonce(g, c), call[g].node = d,
               call[g].local = "OK", (call[c].local = "OK")'
        PROVE  Late(c)'
    <3>1. At(c, "redis")' /\ n \notin kept
      BY <1>4, <2>3, Zenon DEF At
    <3>2. Expiry <= time[d]
      BY <1>4, <1>5, <2>3, <3>1, ZenonT(40) DEF IInv, ZoneInv, SameNonce
    <3> QED BY <1>2, <1>3, <1>4, <3>1, <3>2, Zenon DEF Late
  <2> QED BY <1>4, <2>1, <2>2, <2>3, ZenonT(40) DEF SameNonce
<1>13. ZoneTraceInv' /\ KeyTraceInv'
  BY <1>2, <1>3, <1>4, <1>5 DEF At, IInv, ZoneTraceInv, KeyTraceInv
<1>14. NilInv'
  BY <1>3, <1>6, Zenon DEF IInv, NilInv
<1>15. ReplayInv'
  <2>1. n \in kept => \E e \in Calls \ {c} : SameNonce(c, e)
    BY <1>2, <1>3, <1>4, <1>5 DEF IInv, ZoneTraceInv, SameNonce, At
  <2> QED BY <1>2, <1>3, <1>4, <1>6, <2>1, ZenonT(40) DEF IInv, ReplayInv
<1> QED
  BY <1>7, <1>9, <1>10, <1>11, <1>12, <1>13, <1>14, <1>15, Zenon DEF IInv

-----------------------------------------------------------------------------
(* The theorems.                                                           *)

\* The store starts in the invariant.
LEMMA InitIInv == Init => IInv
<1> SUFFICES ASSUME Init PROVE IInv
  BY Zenon
<1>1. TypeInv
  BY FleetAssumption DEF Init, TypeInv, TypeOK
<1>2. \A c \in Calls : ~Active(c) /\ At(c, "idle") /\ reply[c] = "none"
  BY Zenon DEF Init, Active, At, Idle
<1>3. TtlInv /\ WireInv /\ ReplyInv /\ ResultInv /\ ReplayInv /\ NilInv
  BY <1>2, Zenon DEF Init, At, TtlInv, WireInv, ReplyInv, ResultInv, ReplayInv,
     NilInv
<1>4. KeyInv /\ WinnerInv /\ ZoneInv /\ SecondInv
  BY <1>2, Zenon DEF KeyInv, WinnerInv, ZoneInv, SecondInv, Won, SameNonce
<1>5. TimeInv /\ ZoneTraceInv /\ KeyTraceInv
  BY DEF Init, TimeInv, ZoneTraceInv, KeyTraceInv
<1> QED BY <1>1, <1>3, <1>4, <1>5, Zenon DEF IInv

\* Every step of the fleet, the network and Redis preserves the invariant.
LEMMA NextIInv == IInv /\ [Next]_vars => IInv'
<1> SUFFICES ASSUME IInv, [Next]_vars PROVE IInv'
  BY Zenon
<1>1. CASE Tick
  BY <1>1, TickStep, Zenon
<1>2. CASE \E d \in Nodes : UpdateTime(d) \/ ColdStart(d)
  BY <1>2, UpdateTimeStep, ColdStartStep, Zenon
<1>3. CASE \E n \in Nonces : RedisLoses(n)
  BY <1>3, RedisLosesStep, Zenon
<1>4. CASE \E c \in Calls, d \in Nodes, n \in Nonces : Begin(c, d, n)
  BY <1>4, BeginStep, Zenon
<1>5. CASE \E c \in Calls : Step(c)
  BY <1>5, ZoneStep, StepsMove, MovedKeeps, Zenon
<1>6. CASE \E c \in Calls : SetNx(c) \/ LoseSet(c)
  BY <1>6, SetNxStep, LoseSetStep, Zenon
<1>7. CASE UNCHANGED vars
  <2>1. \A c \in Calls : /\ Active(c)' <=> Active(c)
                         /\ Won(c)' <=> Won(c)
                         /\ Late(c)' <=> Late(c)
    BY <1>7, Zenon DEF vars, environment, Active, Won, Late, At
  <2>2. TypeInv' /\ TimeInv' /\ TtlInv' /\ WireInv' /\ ReplyInv' /\ ResultInv'
    BY <1>7, <2>1, Zenon DEF vars, environment, IInv, TypeInv, TypeOK, TimeInv,
       TtlInv, WireInv, ReplyInv, ResultInv, At
  <2>3. KeyInv' /\ WinnerInv' /\ ZoneInv' /\ SecondInv'
    BY <1>7, <2>1, ZenonT(40) DEF vars, environment, IInv, KeyInv, WinnerInv,
       ZoneInv,
       SecondInv, KeyHeld, SameNonce
  <2>4. ZoneTraceInv' /\ KeyTraceInv' /\ NilInv' /\ ReplayInv'
    BY <1>7, <2>1 DEF vars, environment, IInv, ZoneTraceInv, KeyTraceInv,
       NilInv, ReplayInv, At, SameNonce
  <2> QED BY <2>2, <2>3, <2>4, Zenon DEF IInv
<1> QED BY <1>1, <1>2, <1>3, <1>4, <1>5, <1>6, <1>7, Zenon DEF Next

\* The invariant holds in every state that the calls, the network and the
\* faults can lead to.
LEMMA Invariance == Spec => []IInv
BY InitIInv, NextIInv, PTL DEF Spec

\* A set of more than one element has two.
LEMMA TwoElements ==
    ASSUME NEW S, Cardinality(S) > 1
    PROVE  \E x, y \in S : x # y
<1> SUFFICES ASSUME \A x, y \in S : x = y PROVE FALSE
  BY Zenon
<1>1. S = {} \/ \E x : S = {x}
  OBVIOUS
<1>2. Cardinality(S) = 0 \/ Cardinality(S) = 1
  BY <1>1, FS_EmptySet, FS_Singleton, Zenon
<1> QED BY <1>2

\* Types are kept, by every call of check_and_set on every node.
THEOREM TypeCorrect == Spec => []TypeOK
<1>1. IInv => TypeOK
  BY Zenon DEF IInv, TypeInv
<1> QED BY <1>1, Invariance, PTL

\* A challenge is granted at most once across the fleet before it expires, as
\* long as Redis keeps its key: for any number of nodes and verifications, any
\* lag of the clocks behind Redis's, and whatever SETs are lost or late.
THEOREM FleetGrantsOnce == Spec => []FleetSingleUse
<1>1. IInv => FleetSingleUse
  <2> SUFFICES ASSUME IInv, NEW n \in Nonces, Cardinality(Granted(n)) > 1
               PROVE  clock >= Expiry \/ n \in lost
    BY Zenon DEF FleetSingleUse
  <2>1. PICK c, e \in Granted(n) : c # e
    BY TwoElements
  <2>2. Won(c) /\ Won(e) /\ SameNonce(c, e) /\ call[c].nonce = n
    BY Zenon DEF Granted, Won, SameNonce, Active
  <2> QED BY <2>1, <2>2, Zenon DEF IInv, WinnerInv, Granted
<1> QED BY <1>1, Invariance, PTL

\* The zone of a node, which can only reject, still keeps the node from granting
\* a challenge twice when Redis lost the key or the challenge is expiring, unless
\* it was too full to record the first use.
THEOREM NodeGrantsOnce == Spec => []NodeSingleUse
<1>1. IInv => NodeSingleUse
  <2> SUFFICES ASSUME IInv, NEW n \in Nonces,
                      NEW c \in Granted(n), NEW e \in Granted(n), c # e,
                      call[c].node = call[e].node,
                      call[c].local = "OK", call[e].local = "OK"
               PROVE  FALSE
    BY Zenon DEF NodeSingleUse
  <2>1. Late(c) \/ Late(e)
    BY Zenon DEF IInv, SecondInv, Granted, SameNonce, Active
  <2> QED BY <2>1, Zenon DEF IInv, ResultInv, Late, Granted, Active, At
<1> QED BY <1>1, Invariance, PTL

\* No outage of Redis is reported as a replay: a call told "already used" has
\* another call for its nonce to point to, or came after the expiry.
THEOREM OutageIsNoReplay == Spec => []ReplayHadAttempt
<1>1. IInv => ReplayHadAttempt
  <2> SUFFICES ASSUME IInv, NEW c \in Calls, At(c, "over"),
                      call[c].rc = "DECLINED"
               PROVE  \/ \E e \in Calls \ {c} :
                            call[e] # Idle /\ call[e].nonce = call[c].nonce
                      \/ time[call[c].node] >= Expiry
    BY Zenon DEF ReplayHadAttempt
  <2>1. Active(c)
    BY ActiveRun, Zenon DEF IInv, At
  <2> QED BY <2>1, Zenon DEF IInv, ReplayInv, SameNonce, Active
<1> QED BY <1>1, Invariance, PTL
=============================================================================
