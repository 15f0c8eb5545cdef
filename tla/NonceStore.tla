----------------------------- MODULE NonceStore ------------------------------
(***************************************************************************)
(* What a single-use store promises its caller (the contract above         *)
(* check_and_set in nonce.h), whatever the backend: a nonce is accepted    *)
(* only while the store does not remember it, an accepted nonce is         *)
(* remembered, and a nonce is forgotten only once its challenge has        *)
(* expired or the store is started cold.                                   *)
(***************************************************************************)
EXTENDS Integers

CONSTANTS Nonces

VARIABLES
    clock,      \* wall clock
    exp,        \* expiry of each issued challenge, 0 before issue
    seen,       \* what the store remembers
    used,       \* accepted during this life of the store
    reused      \* accepted more than once in it

vars == <<clock, exp, seen, used, reused>>

Init ==
    /\ clock = 1
    /\ exp = [n \in Nonces |-> 0]
    /\ seen = {}
    /\ used = {}
    /\ reused = {}

Tick ==
    /\ clock' = clock + 1
    /\ UNCHANGED <<exp, seen, used, reused>>

\* Challenges are issued; the expiry signed into one never changes.
Issue ==
    /\ exp' \in [Nonces -> Nat]
    /\ \A n \in Nonces : exp[n] # 0 => exp'[n] = exp[n]
    /\ UNCHANGED <<clock, seen, used, reused>>

Forgettable == {n \in Nonces : exp[n] <= clock}

\* An answer may come with the reclaiming of any expired nonces.
Accept(n, forgotten) ==
    /\ n \notin seen \ forgotten
    /\ seen' = (seen \ forgotten) \cup {n}
    /\ used' = used \cup {n}
    /\ reused' = IF n \in used THEN reused \cup {n} ELSE reused
    /\ UNCHANGED <<clock, exp>>

Refuse(forgotten) ==
    /\ seen' = seen \ forgotten
    /\ UNCHANGED <<clock, exp, used, reused>>

ColdStart ==
    /\ seen' = {}
    /\ used' = {}
    /\ reused' = {}
    /\ UNCHANGED <<clock, exp>>

Next ==
    \/ Tick
    \/ Issue
    \/ \E F \in SUBSET Forgettable : Refuse(F) \/ \E n \in Nonces : Accept(n, F)
    \/ ColdStart

Spec == Init /\ [][Next]_vars
=============================================================================
