------------------------------- MODULE Sessions -------------------------------
(***************************************************************************)
(* Challenges and session cookies as tokens: what goes into their MAC,     *)
(* where they are accepted again, and how they live through a rotation of  *)
(* pgp_session_secret, in a deployment of several locations on several     *)
(* nodes that share the secret.                                            *)
(*                                                                         *)
(* Texts are sequences of bytes.  A MAC is the secret and the text that    *)
(* hmac_raw feeds it: two MACs are equal when both are.  Secrets are       *)
(* numbered in the order they are introduced.  Single use and revocation   *)
(* are modelled elsewhere.                                                 *)
(***************************************************************************)
EXTENDS Integers, Sequences

CONSTANTS
    Clients,
    AgentOf,    \* AgentOf[c]: the User-Agent c sends, or NoText
    AddressOf,  \* AddressOf[c]: its address
    Agents,     \* the User-Agents a request can come with, NoText included
    Addresses,  \* the addresses a request can come from
    Payloads,   \* the payloads a token's MAC can be presented with
    NoToken,
    Nodes,
    Locations,
    Conf,       \* Conf[l]: the location's directives
    MaxSecret,  \* bound: secrets ever used
    MaxClock    \* bound: the clock stops here

CookieNames == {"pgp_session", "__Host-pgp_session"}

Text == Seq(Nat)
NoText == << >>
Sep == 30

Plain(x) == \A i \in 1..Len(x) : x[i] # Sep

\* The labels of challenges and sessions, by their first letters.
Chal == <<99>>
Sess == <<115>>
Kinds == {Chal, Sess}

\* The payload that the module gives a token: digits and '|', here one symbol.
Payload(exp) == <<256 + exp>>

Token ==
    [kind : Kinds,
     exp : Nat,                          \* 0: a session that never expires
     mac : [secret : 1..MaxSecret, input : Text],
     secret : 1..MaxSecret,              \* history, as are the next two
     client : Clients, loc : Locations]

ASSUME SessionsAssumption ==
    /\ Addresses \cup Agents \cup Payloads \subseteq Text
    /\ \A a \in Addresses : a # NoText /\ Plain(a)
    /\ NoText \in Agents /\ AgentOf \in [Clients -> Agents]
    /\ AddressOf \in [Clients -> Addresses]
    /\ \A l \in Locations :
          /\ Conf[l].keyring \in Text /\ Plain(Conf[l].keyring)
          /\ {Conf[l].bind_ip, Conf[l].bind_ua, Conf[l].host_prefix,
              Conf[l].secure} \subseteq BOOLEAN
          /\ Conf[l].challenge_timeout \in Nat \ {0}
          /\ Conf[l].session_timeout \in Nat
    /\ {MaxSecret, MaxClock} \subseteq Nat \ {0}
    /\ NoToken \notin Token

VARIABLES
    clock,
    secret,     \* secret[d]: the node's current and previous secret, 0: none
    page,       \* page[c]: the challenge on the page client c has open
    jar,        \* jar[c][name]: the cookie client c keeps under that name
    login       \* history: login[c][l], the session c last got at l

vars == <<clock, secret, page, jar, login>>

\* The tokens that clients hold.
Tokens ==
    ({page[c] : c \in Clients} \cup {login[c][l] : c \in Clients, l \in Locations})
        \ {NoToken}

TypeOK ==
    /\ clock \in 1..MaxClock
    /\ \A d \in Nodes :
          /\ secret[d].current \in 1..MaxSecret
          /\ secret[d].previous \in 0..(secret[d].current - 1)
    /\ Tokens \subseteq Token
    /\ jar \in [Clients -> [CookieNames -> Tokens \cup {NoToken}]]

Init ==
    /\ clock = 1
    /\ secret = [d \in Nodes |-> [current |-> 1, previous |-> 0]]
    /\ page = [c \in Clients |-> NoToken]
    /\ jar = [c \in Clients |-> [n \in CookieNames |-> NoToken]]
    /\ login = [c \in Clients |-> [l \in Locations |-> NoToken]]

Expires(t) == t.exp # 0
Live(t) == ~Expires(t) \/ t.exp >= clock

-----------------------------------------------------------------------------
(* MACs.                                                                    *)

Join(x, y) == x \o <<Sep>> \o y

\* Faulty Mac: the keyring is left out.
MacUnscoped(s, kind, l, data, ip, ua) ==
    [secret |-> s, input |-> Join(kind, Join(data, Join(ip, ua)))]

\* The fields go in one after the other with a separator between them, which is
\* not escaped where a field has one.
Mac(s, kind, l, data, ip, ua) ==
    [secret |-> s,
     input |-> Join(kind, Join(Conf[l].keyring, Join(data, Join(ip, ua))))]

BoundIp(l, a) == IF Conf[l].bind_ip THEN a ELSE NoText
BoundUa(l, agent) == IF Conf[l].bind_ua THEN agent ELSE NoText

\* Faulty Make: the previous secret signs.
MakePrevious(d, l, c, kind, exp) ==
    LET s == secret[d].previous IN
    [kind |-> kind, exp |-> exp,
     mac |-> Mac(s, kind, l, Payload(exp), BoundIp(l, AddressOf[c]),
                 BoundUa(l, AgentOf[c])),
     secret |-> s, client |-> c, loc |-> l]

\* Tokens are always made with the current secret of the node.
Make(d, l, c, kind, exp) ==
    LET s == secret[d].current IN
    [kind |-> kind, exp |-> exp,
     mac |-> Mac(s, kind, l, Payload(exp), BoundIp(l, AddressOf[c]),
                 BoundUa(l, AgentOf[c])),
     secret |-> s, client |-> c, loc |-> l]

\* Faulty Secrets: the previous secret is not tried.
SecretsCurrent(d) == {secret[d].current}

\* The secrets tried, one after the other.
Secrets(d) == {secret[d].current, secret[d].previous} \ {0}

\* A MAC presented with a payload is the one this location computes over it for
\* a request from that address with that User-Agent.
Genuine(d, l, kind, data, mac, a, agent) ==
    \E s \in Secrets(d) :
        mac = Mac(s, kind, l, data, BoundIp(l, a), BoundUa(l, agent))

\* A token as the module made it is good for client c at location l of node d.
Accepted(c, d, l, kind, t) ==
    Genuine(d, l, kind, Payload(t.exp), t.mac, AddressOf[c], AgentOf[c])

\* Faulty CookieName: the prefix without Secure.
CookieNamePrefix(l) ==
    IF Conf[l].host_prefix THEN "__Host-pgp_session" ELSE "pgp_session"

CookieName(l) ==
    IF Conf[l].host_prefix /\ Conf[l].secure
       THEN "__Host-pgp_session" ELSE "pgp_session"

\* check_session on what client c sends to location l of node d.
CheckSession(c, d, l) ==
    LET t == jar[c][CookieName(l)] IN
    /\ t # NoToken
    /\ Accepted(c, d, l, Sess, t)
    /\ Live(t)

-----------------------------------------------------------------------------
(* Requests.                                                                *)

SendChallenge(c, d, l) ==
    /\ page' = [page EXCEPT ![c] =
          Make(d, l, c, Chal, clock + Conf[l].challenge_timeout)]
    /\ UNCHANGED <<clock, secret, jar, login>>

SessionExpiry(l) ==
    IF Conf[l].session_timeout = 0 THEN 0 ELSE clock + Conf[l].session_timeout

\* A browser takes a __Host- cookie only if it is Secure, and keeps one cookie
\* per name: the module sets all of them with Path=/.
Keep(c, l, s) ==
    IF CookieName(l) = "__Host-pgp_session" /\ ~Conf[l].secure THEN jar
    ELSE [jar EXCEPT ![c][CookieName(l)] = s]

Grant(c, d, l) ==
    LET s == Make(d, l, c, Sess, SessionExpiry(l)) IN
    /\ jar' = Keep(c, l, s)
    /\ login' = [login EXCEPT ![c][l] = s]

\* validate_consume and grant: a challenge that any client was given, signed
\* and submitted here by client c.
Login(c, d, l, t) ==
    /\ t # NoToken
    /\ Accepted(c, d, l, Chal, t)
    /\ t.exp >= clock
    /\ Grant(c, d, l)
    /\ UNCHANGED <<clock, secret, page>>

-----------------------------------------------------------------------------
(* The surroundings: time passes, operators rotate the secret.              *)

Tick ==
    /\ clock < MaxClock
    /\ clock' = clock + 1
    /\ UNCHANGED <<secret, page, jar, login>>

Outstanding(s) == \E t \in Tokens : t.secret = s /\ Live(t)

\* A reload with the next secret as pgp_session_secret and the old one as
\* pgp_session_secret_previous, once nothing needs the one before.
Rotate(d) ==
    /\ secret[d].current < MaxSecret
    /\ secret[d].previous = 0
    /\ secret' = [secret EXCEPT ![d] = [current |-> @.current + 1,
                                        previous |-> @.current]]
    /\ UNCHANGED <<clock, page, jar, login>>

\* A reload without pgp_session_secret_previous: every node has rotated, and
\* what the old secret signed has expired.
Retire(d) ==
    /\ secret[d].previous # 0
    /\ ~Outstanding(secret[d].previous)
    /\ \A e \in Nodes : secret[e].current >= secret[d].current
    /\ secret' = [secret EXCEPT ![d].previous = 0]
    /\ UNCHANGED <<clock, page, jar, login>>

Next ==
    \/ Tick
    \/ \E d \in Nodes : Rotate(d) \/ Retire(d)
    \/ \E c \in Clients, d \in Nodes, l \in Locations :
          \/ SendChallenge(c, d, l)
          \/ \E owner \in Clients : Login(c, d, l, page[owner])

Spec == Init /\ [][Next]_vars

-----------------------------------------------------------------------------
(* Properties.                                                              *)

\* Where a token's MAC is accepted, whoever presents it, wherever, as whatever
\* and with whatever payload: in the role and under the keyring it was made for.
\* With a payload that has no separator in it, also: with the payload it was made
\* with and, if the location that made it binds, from the address and the
\* User-Agent it was made for, whatever those agents contain, also at a location
\* that does not bind (hmac_raw, binding).  A client that sends no User-Agent is
\* bound to none: only a location that binds tells its token from an unbound one.
\* The code looks for no separator in the payload it is sent; of one that has a
\* separator nothing is said but role and keyring.
TokensConfined ==
    \A t \in Tokens, data \in Payloads, a \in Addresses, agent \in Agents,
       d \in Nodes, l \in Locations, kind \in Kinds :
        Genuine(d, l, kind, data, t.mac, a, agent)
            => /\ kind = t.kind
               /\ Conf[l].keyring = Conf[t.loc].keyring
               /\ Plain(data) =>
                     /\ data = Payload(t.exp)
                     /\ Conf[t.loc].bind_ip => a = AddressOf[t.client]
                     /\ Conf[t.loc].bind_ua =>
                           \/ agent = AgentOf[t.client]
                           \/ AgentOf[t.client] = NoText /\ ~Conf[l].bind_ua

\* Rotation logs nobody out: a token that has not expired is good at every node
\* that has come at least as far in the rotation as the node that made it, when
\* the nodes rotate one after the other and the previous secret is kept for as
\* long as the documentation says (check_session, validate_consume).
RotationKeepsTokens ==
    \A t \in Tokens, d \in Nodes :
        Live(t) /\ secret[d].current >= t.secret
            => Accepted(t.client, d, t.loc, t.kind, t)

\* A login lasts: until its session expires a client stays logged in at the
\* location, on every node that knows its secret, unless a login at another
\* location took the cookie's place (grant, check_session, cookie_name).
LoginLasts ==
    \A c \in Clients, l \in Locations, d \in Nodes :
        LET s == login[c][l] IN
        /\ s # NoToken
        /\ Live(s)
        /\ secret[d].current >= s.secret
        => \/ CheckSession(c, d, l)
           \/ \E other \in Locations \ {l} :
                 /\ CookieName(other) = CookieName(l)
                 /\ login[c][other] # NoToken
                 /\ jar[c][CookieName(l)] = login[c][other]
=============================================================================
