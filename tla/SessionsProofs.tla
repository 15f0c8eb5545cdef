--------------------------- MODULE SessionsProofs ---------------------------
(***************************************************************************)
(* Proofs about challenges and session cookies, for any clients, nodes,    *)
(* locations and directives, and any number of rotations.                  *)
(*                                                                         *)
(* A token carries the MAC of what it was made from (Made).  The nodes are *)
(* at most one secret apart (Abreast), and a live token's secret is known  *)
(* to every node that has come as far (Known): that is why it may be made  *)
(* anywhere while a rotation is under way.  The jar holds, under each      *)
(* cookie name, the last login that used the name (Shelved).  That a MAC   *)
(* says what it was made from is a matter of reading its input from the    *)
(* left: a field without separator ends at the first one (Parsed).         *)
(***************************************************************************)
EXTENDS Sessions, TLAPS, SequenceTheorems

Made(t) ==
    t.mac = Mac(t.secret, t.kind, t.loc, Payload(t.exp),
                BoundIp(t.loc, AddressOf[t.client]),
                BoundUa(t.loc, AgentOf[t.client]))

Held == Token \cup {NoToken}

TypeInv ==
    /\ clock \in 1..MaxClock
    /\ secret \in [Nodes -> [current : 1..MaxSecret, previous : 0..MaxSecret]]
    /\ page \in [Clients -> Held]
    /\ login \in [Clients -> [Locations -> Held]]
    /\ jar \in [Clients -> [CookieNames -> Held]]

MadeInv == \A t \in Tokens : Made(t)

\* The oldest secret a node still knows.
Oldest(d) ==
    IF secret[d].previous = 0 THEN secret[d].current ELSE secret[d].previous

Abreast ==
    /\ \A d \in Nodes : secret[d].previous \in {0, secret[d].current - 1}
    /\ \A d, e \in Nodes : secret[e].current >= Oldest(d)

Known ==
    \A t \in Tokens, d \in Nodes :
        Live(t) /\ t.secret <= secret[d].current => t.secret >= Oldest(d)

LoginInv ==
    \A c \in Clients, l \in Locations :
        login[c][l] # NoToken
            => /\ login[c][l].kind = Sess
               /\ login[c][l].client = c /\ login[c][l].loc = l

Shelved ==
    \A c \in Clients :
        /\ \A n \in CookieNames :
              jar[c][n] = NoToken
              \/ \E l \in Locations :
                    CookieName(l) = n /\ jar[c][n] = login[c][l]
        /\ \A l \in Locations :
              login[c][l] # NoToken =>
                 \E x \in Locations :
                    /\ CookieName(x) = CookieName(l)
                    /\ login[c][x] # NoToken
                    /\ jar[c][CookieName(l)] = login[c][x]

IInv ==
    TypeInv /\ MadeInv /\ Abreast /\ Known /\ LoginInv /\ Shelved

-----------------------------------------------------------------------------
(* Tokens.                                                                 *)

\* z is x, a separator and y.
Joined(z, x, y) ==
    /\ Len(z) = Len(x) + 1 + Len(y)
    /\ \A i \in 1..Len(x) : z[i] = x[i]
    /\ z[Len(x) + 1] = Sep
    /\ \A i \in 1..Len(y) : z[Len(x) + 1 + i] = y[i]

\* Two texts with a separator between them are a text.
LEMMA JoinText ==
    ASSUME NEW x \in Text, NEW y \in Text
    PROVE  Join(x, y) \in Text /\ Joined(Join(x, y), x, y)
BY DEF Join, Joined, Text, Sep

\* A field that has no separator ends where the first one is (hmac_raw).
LEMMA Parsed ==
    ASSUME NEW x \in Text, NEW y \in Text, NEW u \in Text, NEW v \in Text,
           Plain(x), Plain(u), Join(x, y) = Join(u, v)
    PROVE  x = u /\ y = v
<1>1. PICK z : z = Join(x, y) /\ z = Join(u, v)
  BY Zenon
<1>2. Joined(z, x, y)
  BY <1>1, JoinText, Zenon
<1>3. Joined(z, u, v)
  BY <1>1, JoinText, Zenon
<1>4. Len(x) \in Nat /\ Len(y) \in Nat /\ Len(u) \in Nat /\ Len(v) \in Nat
  BY DEF Text
<1>5. ~(Len(x) < Len(u)) /\ ~(Len(u) < Len(x))
  BY <1>2, <1>3, <1>4, SMTT(30) DEF Plain, Joined
<1>6. Len(x) = Len(u) /\ Len(y) = Len(v)
  BY <1>2, <1>3, <1>4, <1>5 DEF Joined
<1>7. \A i \in 1..Len(x) : x[i] = u[i]
  BY <1>2, <1>3, <1>6, Zenon DEF Joined
<1>8. \A i \in 1..Len(y) : y[i] = v[i]
  BY <1>2, <1>3, <1>6, Zenon DEF Joined
<1> QED BY <1>6, <1>7, <1>8, SeqEqual, SMTT(30) DEF Text

\* What goes into a MAC has no separator, the User-Agent excepted.
LEMMA Fields ==
    /\ \A kind \in Kinds : kind \in Text /\ Plain(kind)
    /\ \A exp \in Nat : Payload(exp) \in Text /\ Plain(Payload(exp))
    /\ \A l \in Locations, a \in Addresses :
          BoundIp(l, a) \in Text /\ Plain(BoundIp(l, a))
    /\ \A l \in Locations, agent \in Agents : BoundUa(l, agent) \in Text
    /\ \A l \in Locations : Conf[l].keyring \in Text /\ Plain(Conf[l].keyring)
<1>1. \A kind \in Kinds : kind \in Text /\ Plain(kind)
  <2>1. Chal \in Text /\ Plain(Chal)
    BY DEF Chal, Text, Plain, Sep
  <2>2. Sess \in Text /\ Plain(Sess)
    BY DEF Sess, Text, Plain, Sep
  <2> QED BY <2>1, <2>2, Zenon DEF Kinds
<1>2. \A exp \in Nat : Payload(exp) \in Text /\ Plain(Payload(exp))
  BY DEF Payload, Text, Plain, Sep
<1>3. NoText \in Text /\ Plain(NoText)
  BY DEF NoText, Text, Plain
<1>4. /\ \A a \in Addresses : a \in Text /\ Plain(a)
      /\ \A agent \in Agents : agent \in Text
      /\ \A l \in Locations : Conf[l].keyring \in Text /\ Plain(Conf[l].keyring)
  BY SessionsAssumption, Zenon
<1> QED BY <1>1, <1>2, <1>3, <1>4, Zenon DEF BoundIp, BoundUa

\* Make, with the current secret of the node.
LEMMA MakeToken ==
    ASSUME TypeInv, NEW d \in Nodes, NEW l \in Locations, NEW c \in Clients,
           NEW kind \in Kinds, NEW exp \in Nat
    PROVE  LET s == Make(d, l, c, kind, exp)
           IN /\ s \in Token /\ s # NoToken /\ Made(s)
              /\ s.kind = kind /\ s.client = c /\ s.loc = l
              /\ s.secret = secret[d].current
<1> DEFINE n == secret[d].current
           ip == BoundIp(l, AddressOf[c])
           ua == BoundUa(l, AgentOf[c])
           m == Mac(n, kind, l, Payload(exp), ip, ua)
           s == [kind |-> kind, exp |-> exp, mac |-> m, secret |-> n,
                 client |-> c, loc |-> l]
<1>1. n \in 1..MaxSecret
  BY Zenon DEF TypeInv
<1>2. ip \in Text /\ ua \in Text
  BY Fields, SessionsAssumption, Zenon
<1>3. /\ kind \in Text /\ Conf[l].keyring \in Text /\ Payload(exp) \in Text
  BY Fields, Zenon
<1>4. Make(d, l, c, kind, exp) = s
  BY Zenon DEF Make
<1> HIDE DEF n, ip, ua
<1>5. m \in [secret : 1..MaxSecret, input : Text]
  BY <1>1, <1>2, <1>3, JoinText, Zenon DEF Mac
<1> HIDE DEF m
<1>6. /\ s \in Token /\ s.kind = kind /\ s.client = c /\ s.loc = l
      /\ s.secret = n /\ s.mac = m /\ s.exp = exp
  BY <1>1, <1>5, Zenon DEF Token
<1> HIDE DEF s
<1>7. Made(s)
  BY <1>6, Zenon DEF Made, m, ip, ua
<1>8. s # NoToken
  BY <1>6, SessionsAssumption, Zenon
<1> QED BY <1>4, <1>6, <1>7, <1>8, Zenon DEF n

\* The tokens clients hold, by where they hold them.
LEMMA WhereTokens ==
    ASSUME NEW t
    PROVE  t \in Tokens <=>
              /\ t # NoToken
              /\ \E c \in Clients : \/ t = page[c]
                                    \/ \E l \in Locations : t = login[c][l]
BY DEF Tokens

\* A node that knows its secret accepts a token as what it was made for.
LEMMA KnownSecret ==
    ASSUME IInv, NEW t \in Tokens, NEW d \in Nodes, Live(t),
           secret[d].current >= t.secret
    PROVE  Accepted(t.client, d, t.loc, t.kind, t)
<1>1. t \in Token /\ Made(t) /\ t.secret \in Nat
  <2>1. t \in Token
    BY WhereTokens DEF IInv, TypeInv, Held
  <2> QED BY <2>1 DEF IInv, MadeInv, Token
<1>2. /\ secret[d].current \in Nat \ {0} /\ secret[d].previous \in Nat
      /\ secret[d].previous \in {0, secret[d].current - 1}
      /\ t.secret >= Oldest(d) /\ t.secret # 0
  <2>1. t.secret \in 1..MaxSecret
    BY <1>1, Zenon DEF Token
  <2> QED BY <2>1 DEF IInv, TypeInv, Abreast, Known
<1>3. t.secret \in Secrets(d)
  BY <1>1, <1>2 DEF Oldest, Secrets
<1> QED BY <1>1, <1>3, Zenon DEF Accepted, Genuine, Made

\* The secrets stay as they are and the tokens may be one more, made by d: no
\* node knows more than one secret besides its own, so every node that has come
\* as far as d knows the secret of d.
LEMMA OneMoreToken ==
    ASSUME IInv, clock' = clock, secret' = secret,
           NEW d \in Nodes, NEW s \in Token, Made(s),
           s.secret = secret[d].current, Tokens' \subseteq Tokens \cup {s}
    PROVE  MadeInv' /\ Abreast' /\ Known'
<1>1. MadeInv'
  BY Zenon DEF IInv, MadeInv, Made
<1>2. Abreast' /\ \A e \in Nodes : Oldest(e)' = Oldest(e)
  BY Zenon DEF IInv, Abreast, Oldest
<1>3. ASSUME NEW t \in Tokens', NEW e \in Nodes, Live(t)',
             t.secret <= secret[e].current
      PROVE  t.secret >= Oldest(e)
  <2>1. CASE t \in Tokens
    <3>1. Live(t)
      BY <1>3, Zenon DEF Live, Expires
    <3> QED BY <1>3, <2>1, <3>1, Zenon DEF IInv, Known
  <2>2. CASE t = s
    BY <2>2, Zenon DEF IInv, Abreast
  <2> QED BY <2>1, <2>2, Zenon
<1>4. Known'
  BY <1>2, <1>3, Zenon DEF Known
<1> QED BY <1>1, <1>2, <1>4, Zenon

-----------------------------------------------------------------------------
(* Requests.                                                               *)

\* A challenge page is sent.
LEMMA SendChallengeStep ==
    ASSUME IInv, NEW c \in Clients, NEW d \in Nodes, NEW l \in Locations,
           SendChallenge(c, d, l)
    PROVE  IInv'
<1>0. PICK s : s = Make(d, l, c, Chal, clock + Conf[l].challenge_timeout)
  BY Zenon
<1>1. s \in Token /\ Made(s) /\ s.secret = secret[d].current
  <2>1. clock + Conf[l].challenge_timeout \in Nat
    BY SessionsAssumption DEF IInv, TypeInv
  <2>2. Chal \in Kinds
    BY Zenon DEF Kinds
  <2> QED BY <1>0, <2>1, <2>2, MakeToken DEF IInv
<1>2. /\ page' = [page EXCEPT ![c] = s] /\ clock' = clock
      /\ secret' = secret /\ jar' = jar /\ login' = login
  BY <1>0, Zenon DEF SendChallenge
<1>3. TypeInv'
  BY <1>1, <1>2, Zenon DEF IInv, TypeInv, Held
<1>4. \A b \in Clients : page'[b] = s \/ page'[b] = page[b]
  BY <1>2, Zenon DEF IInv, TypeInv
<1>5. Tokens' \subseteq Tokens \cup {s}
  BY <1>2, <1>4 DEF Tokens
<1>6. MadeInv' /\ Abreast' /\ Known'
  BY <1>1, <1>2, <1>5, OneMoreToken, Zenon
<1> QED BY <1>2, <1>3, <1>6 DEF IInv, LoginInv, Shelved

\* A session is granted: it takes the place of the cookie of that name.
LEMMA LoginStep ==
    ASSUME IInv, NEW c \in Clients, NEW d \in Nodes, NEW l \in Locations,
           NEW t, Login(c, d, l, t)
    PROVE  IInv'
<1> DEFINE n == CookieName(l)
<1>0. PICK s : s = Make(d, l, c, Sess, SessionExpiry(l))
  BY Zenon
<1>1. /\ s \in Token /\ s # NoToken /\ Made(s) /\ s.kind = Sess
      /\ s.client = c /\ s.loc = l /\ s.secret = secret[d].current
  <2>1. SessionExpiry(l) \in Nat
    BY SessionsAssumption DEF IInv, TypeInv, SessionExpiry
  <2>2. Sess \in Kinds
    BY Zenon DEF Kinds
  <2> QED BY <1>0, <2>1, <2>2, MakeToken DEF IInv
<1>2. /\ login' = [login EXCEPT ![c][l] = s] /\ jar' = Keep(c, l, s)
      /\ clock' = clock /\ secret' = secret /\ page' = page
  BY <1>0, Zenon DEF Login, Grant
<1>3. n \in CookieNames /\ jar' = [jar EXCEPT ![c][n] = s]
  BY <1>2, Zenon DEF Keep, CookieName, CookieNames
<1> HIDE DEF n
<1>4. /\ login' \in [Clients -> [Locations -> Held]]
      /\ jar' \in [Clients -> [CookieNames -> Held]]
  BY <1>1, <1>2, <1>3 DEF IInv, TypeInv, Held
<1>5. /\ login'[c][l] = s /\ jar'[c][n] = s
      /\ \A b \in Clients, m \in Locations :
            b # c \/ m # l => login'[b][m] = login[b][m]
      /\ \A b \in Clients, m \in CookieNames :
            b # c \/ m # n => jar'[b][m] = jar[b][m]
  BY <1>2, <1>3, ZenonT(40) DEF IInv, TypeInv
<1>6. TypeInv'
  BY <1>2, <1>4, Zenon DEF IInv, TypeInv
<1>7. Tokens' \subseteq Tokens \cup {s}
  <2>1. ASSUME NEW u \in Tokens' PROVE u \in Tokens \cup {s}
    BY <1>2, <1>5 DEF Tokens
  <2> QED BY <2>1, Zenon
<1>8. MadeInv' /\ Abreast' /\ Known'
  BY <1>1, <1>2, <1>7, OneMoreToken, Zenon
<1>9. LoginInv'
  BY <1>1, <1>5 DEF IInv, LoginInv
<1>10. Shelved'
  <2>1. ASSUME NEW b \in Clients, NEW m \in CookieNames, jar'[b][m] # NoToken
        PROVE  \E x \in Locations :
                  CookieName(x) = m /\ jar'[b][m] = login'[b][x]
    <3>1. CASE b = c /\ m = n
      BY <1>5, <3>1, Zenon DEF n
    <3>2. CASE ~(b = c /\ m = n)
      <4>1. jar'[b][m] = jar[b][m]
        BY <1>5, <3>2, Zenon
      <4>2. PICK x \in Locations :
               CookieName(x) = m /\ jar[b][m] = login[b][x]
        BY <2>1, <4>1, Zenon DEF IInv, Shelved
      <4>3. b # c \/ x # l
        BY <3>2, <4>2, Zenon DEF n
      <4> QED BY <1>5, <4>1, <4>2, <4>3, Zenon
    <3> QED BY <3>1, <3>2, Zenon
  <2>2. ASSUME NEW b \in Clients, NEW m \in Locations, login'[b][m] # NoToken
        PROVE  \E x \in Locations :
                  /\ CookieName(x) = CookieName(m)
                  /\ login'[b][x] # NoToken
                  /\ jar'[b][CookieName(m)] = login'[b][x]
    <3>1. CASE b = c /\ CookieName(m) = n
      BY <1>1, <1>5, <3>1, Zenon DEF n
    <3>2. CASE ~(b = c /\ CookieName(m) = n)
      <4>1. /\ login'[b][m] = login[b][m] /\ CookieName(m) \in CookieNames
            /\ jar'[b][CookieName(m)] = jar[b][CookieName(m)]
        BY <1>5, <3>2, Zenon DEF n, CookieName, CookieNames
      <4>2. PICK x \in Locations :
               /\ CookieName(x) = CookieName(m)
               /\ login[b][x] # NoToken
               /\ jar[b][CookieName(m)] = login[b][x]
        BY <2>2, <4>1, Zenon DEF IInv, Shelved
      <4>3. b # c \/ x # l
        BY <3>2, <4>2, Zenon DEF n
      <4> QED BY <1>5, <4>1, <4>2, <4>3, Zenon
    <3> QED BY <3>1, <3>2, Zenon
  <2> QED BY <2>1, <2>2, Zenon DEF Shelved
<1> QED BY <1>6, <1>8, <1>9, <1>10, Zenon DEF IInv

-----------------------------------------------------------------------------
(* Time and operators.                                                     *)

\* A token that is live in the next second is live now.
LEMMA TickStep ==
    ASSUME IInv, Tick
    PROVE  IInv'
<1>1. /\ clock' = clock + 1 /\ clock < MaxClock /\ secret' = secret
      /\ page' = page /\ jar' = jar /\ login' = login
  BY Zenon DEF Tick
<1>2. TypeInv'
  BY <1>1, SessionsAssumption DEF IInv, TypeInv
<1>3. Tokens' = Tokens
  BY <1>1 DEF Tokens
<1>4. \A t \in Tokens : Live(t)' => Live(t)
  <2>1. ASSUME NEW t \in Tokens PROVE t \in Token
    BY <2>1, WhereTokens DEF IInv, TypeInv, Held
  <2> QED BY <1>1, <2>1 DEF Live, Expires, IInv, TypeInv, Token
<1>5. MadeInv' /\ Abreast'
  BY <1>1, <1>3, Zenon DEF IInv, MadeInv, Made, Abreast, Oldest
<1>6. Known'
  BY <1>1, <1>3, <1>4, Zenon DEF IInv, Known, Oldest
<1> QED BY <1>1, <1>2, <1>5, <1>6 DEF IInv, LoginInv, Shelved

\* A node goes on to the next secret, or forgets the one before.
LEMMA OperatorStep ==
    ASSUME IInv, NEW d \in Nodes, Rotate(d) \/ Retire(d)
    PROVE  IInv'
<1>0. /\ clock' = clock /\ page' = page /\ jar' = jar /\ login' = login
  BY Zenon DEF Rotate, Retire
<1>1. Tokens' = Tokens /\ \A t : Live(t)' <=> Live(t)
  BY <1>0 DEF Tokens, Live, Expires
<1>2. \A e \in Nodes :
         /\ secret[e].current \in Nat \ {0} /\ secret[e].previous \in Nat
         /\ secret[e].previous \in {0, secret[e].current - 1}
         /\ \A f \in Nodes : secret[f].current >= Oldest(e)
         /\ Oldest(e) \in Nat
  BY DEF IInv, TypeInv, Abreast, Oldest
<1>3. \A t \in Tokens : t.secret \in Nat
  <2>1. ASSUME NEW t \in Tokens PROVE t \in Token
    BY <2>1, WhereTokens DEF IInv, TypeInv, Held
  <2> QED BY <2>1 DEF Token
<1>4. CASE Rotate(d)
  <2> DEFINE k == secret[d].current
             new == k + 1
  <2>1. /\ secret' = [secret EXCEPT ![d] = [current |-> new, previous |-> k]]
        /\ k < MaxSecret /\ secret[d].previous = 0
    BY <1>4, Zenon DEF Rotate
  <2>2. new \in 1..MaxSecret /\ k \in 0..MaxSecret
    BY <2>1, SessionsAssumption DEF IInv, TypeInv
  <2> HIDE DEF new
  <2>3. /\ secret' \in [Nodes -> [current : 1..MaxSecret,
                                  previous : 0..MaxSecret]]
        /\ secret'[d].current = new /\ secret'[d].previous = k
        /\ \A e \in Nodes \ {d} : secret'[e] = secret[e]
    BY <2>1, <2>2, Zenon DEF IInv, TypeInv
  <2>4. /\ Oldest(d)' = k /\ Oldest(d) = k
        /\ \A e \in Nodes \ {d} : Oldest(e)' = Oldest(e)
    BY <1>2, <2>1, <2>3, Zenon DEF Oldest
  <2>5. Abreast'
    <3>1. \A e \in Nodes : secret'[e].previous \in {0, secret'[e].current - 1}
      BY <1>2, <2>3 DEF new
    <3>2. \A e, f \in Nodes : secret'[f].current >= Oldest(e)
      <4>1. \A e \in Nodes : new >= Oldest(e)
        BY <1>2 DEF new
      <4> QED BY <1>2, <2>3, <4>1, Zenon
    <3>3. \A e \in Nodes : Oldest(e)' = Oldest(e)
      BY <2>4, Zenon
    <3> QED BY <3>1, <3>2, <3>3, Zenon DEF Abreast
  <2>6. Known'
    <3>1. ASSUME NEW t \in Tokens, NEW e \in Nodes, Live(t),
                 t.secret <= secret'[e].current
          PROVE  t.secret >= Oldest(e)'
      <4>1. CASE e = d
        <5>1. t.secret <= k \/ t.secret >= k
          BY <1>2, <1>3
        <5> QED BY <2>4, <3>1, <4>1, <5>1, Zenon DEF IInv, Known
      <4>2. CASE e # d
        BY <2>3, <2>4, <3>1, <4>2, Zenon DEF IInv, Known
      <4> QED BY <4>1, <4>2, Zenon
    <3> QED BY <1>1, <3>1, Zenon DEF Known
  <2> QED BY <1>0, <1>1, <2>3, <2>5, <2>6 DEF IInv, TypeInv, MadeInv, Made,
       LoginInv, Shelved
<1>5. CASE Retire(d)
  <2>1. /\ secret' = [secret EXCEPT ![d].previous = 0]
        /\ secret[d].previous # 0
        /\ ~Outstanding(secret[d].previous)
        /\ \A e \in Nodes : secret[e].current >= secret[d].current
    BY <1>5, Zenon DEF Retire
  <2>2. /\ secret' \in [Nodes -> [current : 1..MaxSecret,
                                  previous : 0..MaxSecret]]
        /\ secret'[d].current = secret[d].current
        /\ secret'[d].previous = 0
        /\ \A e \in Nodes \ {d} : secret'[e] = secret[e]
    BY <2>1, SessionsAssumption DEF IInv, TypeInv
  <2>3. /\ Oldest(d)' = secret[d].current
        /\ Oldest(d) = secret[d].current - 1
        /\ \A e \in Nodes \ {d} : Oldest(e)' = Oldest(e)
    BY <1>2, <2>1, <2>2, Zenon DEF Oldest
  <2>4. Abreast'
    BY <1>2, <2>1, <2>2, <2>3 DEF Abreast
  <2>5. Known'
    <3>1. ASSUME NEW t \in Tokens, NEW e \in Nodes, Live(t),
                 t.secret <= secret[e].current
          PROVE  t.secret >= Oldest(e)'
      <4>1. CASE e = d
        <5>1. t.secret >= Oldest(d)
          BY <3>1, <4>1, Zenon DEF IInv, Known
        <5>2. t.secret # secret[d].previous
          BY <2>1, <3>1, Zenon DEF Outstanding
        <5> QED BY <1>2, <1>3, <2>1, <2>3, <4>1, <5>1, <5>2
      <4>2. CASE e # d
        BY <2>3, <3>1, <4>2, Zenon DEF IInv, Known
      <4> QED BY <4>1, <4>2
    <3> QED BY <1>1, <2>2, <3>1, Zenon DEF Known
  <2> QED BY <1>0, <1>1, <2>2, <2>4, <2>5 DEF IInv, TypeInv, MadeInv, Made,
       LoginInv, Shelved
<1> QED BY <1>4, <1>5, Zenon

-----------------------------------------------------------------------------
(* The theorems.                                                           *)

\* The deployment starts in the invariant, and every step preserves it.
LEMMA Invariance == Spec => []IInv
<1>1. Init => IInv
  <2> SUFFICES ASSUME Init PROVE IInv
    BY Zenon
  <2>1. TypeInv
    BY SessionsAssumption DEF Init, TypeInv, Held
  <2>2. Tokens = {}
    BY DEF Init, Tokens
  <2>3. Abreast
    BY DEF Init, Abreast, Oldest
  <2>4. LoginInv /\ Shelved
    BY Zenon DEF Init, LoginInv, Shelved
  <2> QED BY <2>1, <2>2, <2>3, <2>4, Zenon DEF IInv, MadeInv, Known
<1>2. IInv /\ [Next]_vars => IInv'
  <2> SUFFICES ASSUME IInv, [Next]_vars PROVE IInv'
    BY Zenon
  <2>1. CASE Tick
    BY <2>1, TickStep, Zenon
  <2>2. ASSUME NEW d \in Nodes, Rotate(d) \/ Retire(d) PROVE IInv'
    BY <2>2, OperatorStep, Zenon
  <2>3. ASSUME NEW c \in Clients, NEW d \in Nodes, NEW l \in Locations,
               \/ SendChallenge(c, d, l)
               \/ \E owner \in Clients : Login(c, d, l, page[owner])
        PROVE  IInv'
    <3>1. CASE SendChallenge(c, d, l)
      BY <3>1, SendChallengeStep, Zenon
    <3>2. ASSUME NEW owner \in Clients, Login(c, d, l, page[owner])
          PROVE  IInv'
      <4>1. PICK t : t = page[owner]
        BY Zenon
      <4>2. Login(c, d, l, t)
        BY <3>2, <4>1, Zenon
      <4> QED BY <4>2, LoginStep, Zenon
    <3> QED BY <2>3, <3>1, <3>2, Zenon
  <2>4. CASE UNCHANGED vars
    <3>1. Tokens' = Tokens /\ \A t : Live(t)' <=> Live(t)
      BY <2>4 DEF vars, Tokens, Live, Expires
    <3> QED BY <2>4, <3>1 DEF vars, IInv, TypeInv, MadeInv, Made, Abreast,
         Oldest, Known, LoginInv, Shelved
  <2> QED BY <2>1, <2>2, <2>3, <2>4, Zenon DEF Next
<1> QED BY <1>1, <1>2, PTL DEF Spec

\* Tokens, jars and secrets have their types; a jar holds no cookie that was
\* not granted.
THEOREM TypeCorrect == Spec => []TypeOK
<1>1. ASSUME IInv PROVE TypeOK
  <2>1. Tokens \subseteq Token
    <3>1. ASSUME NEW t \in Tokens PROVE t \in Token
      BY <1>1, <3>1, WhereTokens DEF IInv, TypeInv, Held
    <3> QED BY <3>1, Zenon
  <2>2. \A c \in Clients, l \in Locations : login[c][l] \in Tokens \cup {NoToken}
    BY WhereTokens, Zenon
  <2>3. \A c \in Clients, n \in CookieNames : jar[c][n] \in Tokens \cup {NoToken}
    BY <1>1, <2>2, Zenon DEF IInv, Shelved
  <2>4. jar \in [Clients -> [CookieNames -> Tokens \cup {NoToken}]]
    BY <1>1, <2>3, Zenon DEF IInv, TypeInv
  <2>5. \A d \in Nodes : /\ secret[d].current \in 1..MaxSecret
                         /\ secret[d].previous \in 0..(secret[d].current - 1)
    BY <1>1 DEF IInv, TypeInv, Abreast
  <2> QED BY <1>1, <2>1, <2>4, <2>5, Zenon DEF IInv, TypeInv, TypeOK
<1> QED BY <1>1, Invariance, PTL

\* hmac_raw confines a token to its role and its keyring, and, if it comes with
\* a payload that has no separator, to its payload and what it is bound to, for
\* all directives of all locations that share the secret and all User-Agents.
THEOREM MacConfinesTokens == Spec => []TokensConfined
<1>1. ASSUME IInv, NEW t \in Tokens, NEW data \in Payloads,
             NEW a \in Addresses, NEW agent \in Agents,
             NEW d \in Nodes, NEW l \in Locations, NEW kind \in Kinds,
             Genuine(d, l, kind, data, t.mac, a, agent)
      PROVE  /\ kind = t.kind
             /\ Conf[l].keyring = Conf[t.loc].keyring
             /\ Plain(data) =>
                   /\ data = Payload(t.exp)
                   /\ Conf[t.loc].bind_ip => a = AddressOf[t.client]
                   /\ Conf[t.loc].bind_ua =>
                         \/ agent = AgentOf[t.client]
                         \/ AgentOf[t.client] = NoText /\ ~Conf[l].bind_ua
  <2>1. t \in Token /\ Made(t)
    BY <1>1, WhereTokens DEF IInv, TypeInv, MadeInv, Held
  <2>2. /\ t.client \in Clients /\ t.loc \in Locations
        /\ t.kind \in Kinds /\ t.exp \in Nat
    BY <2>1, Zenon DEF Token
  <2>3. /\ AddressOf[t.client] \in Addresses /\ AgentOf[t.client] \in Agents
        /\ data \in Text
    BY <1>1, <2>2, SessionsAssumption, Zenon
  <2>4. PICK s : t.mac = Mac(s, kind, l, data, BoundIp(l, a), BoundUa(l, agent))
    BY <1>1, Zenon DEF Genuine
  <2>5. PICK k0, k1, r0, r1, p, i0, i1, u0, u1 :
           /\ k0 = t.kind /\ k1 = kind
           /\ r0 = Conf[t.loc].keyring /\ r1 = Conf[l].keyring
           /\ p = Payload(t.exp)
           /\ i0 = BoundIp(t.loc, AddressOf[t.client]) /\ i1 = BoundIp(l, a)
           /\ u0 = BoundUa(t.loc, AgentOf[t.client])
           /\ u1 = BoundUa(l, agent)
    BY Zenon
  <2>6. /\ k0 \in Text /\ Plain(k0) /\ k1 \in Text /\ Plain(k1)
        /\ r0 \in Text /\ Plain(r0) /\ r1 \in Text /\ Plain(r1)
        /\ p \in Text /\ Plain(p)
        /\ i0 \in Text /\ Plain(i0) /\ i1 \in Text /\ Plain(i1)
        /\ u0 \in Text /\ u1 \in Text
    BY <1>1, <2>2, <2>3, <2>5, Fields, Zenon
  <2>7. /\ Join(i0, u0) \in Text /\ Join(i1, u1) \in Text
        /\ Join(p, Join(i0, u0)) \in Text /\ Join(data, Join(i1, u1)) \in Text
        /\ Join(r0, Join(p, Join(i0, u0))) \in Text
        /\ Join(r1, Join(data, Join(i1, u1))) \in Text
    BY <2>3, <2>6, JoinText, Zenon
  <2>8. Join(k0, Join(r0, Join(p, Join(i0, u0))))
           = Join(k1, Join(r1, Join(data, Join(i1, u1))))
    <3>1. t.mac.input = Join(k0, Join(r0, Join(p, Join(i0, u0))))
      BY <2>1, <2>5 DEF Made, Mac
    <3>2. t.mac.input = Join(k1, Join(r1, Join(data, Join(i1, u1))))
      BY <2>4, <2>5 DEF Mac
    <3> QED BY <3>1, <3>2, Zenon
  <2>9. /\ k0 = k1
        /\ Join(r0, Join(p, Join(i0, u0))) = Join(r1, Join(data, Join(i1, u1)))
    BY <2>6, <2>7, <2>8, Parsed
  <2>10. r0 = r1 /\ Join(p, Join(i0, u0)) = Join(data, Join(i1, u1))
    BY <2>6, <2>7, <2>9, Parsed
  <2>11. Plain(data) => p = data /\ i0 = i1 /\ u0 = u1
    <3>1. Plain(data) => p = data /\ Join(i0, u0) = Join(i1, u1)
      BY <2>3, <2>6, <2>7, <2>10, Parsed
    <3> QED BY <2>6, <3>1, Parsed
  <2>12. i0 = i1 /\ Conf[t.loc].bind_ip => a = AddressOf[t.client]
    <3>1. AddressOf[t.client] # NoText
      BY <2>3, SessionsAssumption, Zenon
    <3> QED BY <2>5, <3>1, Zenon DEF BoundIp
  <2>13. u0 = u1 /\ Conf[t.loc].bind_ua =>
            \/ agent = AgentOf[t.client]
            \/ AgentOf[t.client] = NoText /\ ~Conf[l].bind_ua
    BY <2>5, Zenon DEF BoundUa
  <2> QED BY <2>5, <2>9, <2>10, <2>11, <2>12, <2>13, Zenon
<1>2. IInv => TokensConfined
  BY <1>1, Zenon DEF TokensConfined
<1> QED BY <1>2, Invariance, PTL

\* A rotation done as documented loses no live token, on any number of nodes.
THEOREM RotationLosesNothing == Spec => []RotationKeepsTokens
<1>1. IInv => RotationKeepsTokens
  BY KnownSecret, Zenon DEF RotationKeepsTokens
<1> QED BY <1>1, Invariance, PTL

\* A login lasts until it expires or another location's takes its cookie.
THEOREM LoginsLast == Spec => []LoginLasts
<1>1. ASSUME IInv, NEW c \in Clients, NEW l \in Locations, NEW d \in Nodes,
             login[c][l] # NoToken, Live(login[c][l]),
             secret[d].current >= login[c][l].secret
      PROVE  \/ CheckSession(c, d, l)
             \/ \E other \in Locations \ {l} :
                   /\ CookieName(other) = CookieName(l)
                   /\ login[c][other] # NoToken
                   /\ jar[c][CookieName(l)] = login[c][other]
  <2>1. PICK x \in Locations : /\ CookieName(x) = CookieName(l)
                               /\ login[c][x] # NoToken
                               /\ jar[c][CookieName(l)] = login[c][x]
    BY <1>1, Zenon DEF IInv, Shelved
  <2>2. CASE x = l
    <3>1. login[c][l] \in Tokens
      BY <1>1, WhereTokens, Zenon
    <3>2. /\ login[c][l].kind = Sess /\ login[c][l].client = c
          /\ login[c][l].loc = l
      BY <1>1, ZenonT(40) DEF IInv, LoginInv
    <3>3. Accepted(c, d, l, Sess, login[c][l])
      BY <1>1, <3>1, <3>2, KnownSecret, Zenon
    <3> QED BY <1>1, <2>1, <2>2, <3>3, Zenon DEF CheckSession
  <2> QED BY <2>1, <2>2, Zenon
<1>2. IInv => LoginLasts
  BY <1>1, Zenon DEF LoginLasts
<1> QED BY <1>2, Invariance, PTL
=============================================================================
