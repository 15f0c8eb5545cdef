------------------------------ MODULE ConfMerge ------------------------------
(***************************************************************************)
(* The module's configuration: what the http, server and location blocks   *)
(* say, and what merge_loc_conf makes of it.  nginx reads all blocks, then *)
(* merges http into server and server into location; http is only ever a   *)
(* parent.  Directives that only choose a cookie attribute, a log line or  *)
(* a buffer size are left out.                                             *)
(*                                                                         *)
(* Numbers are the code's; -1 and the empty string are nginx's unset       *)
(* values.                                                                 *)
(***************************************************************************)
EXTENDS Integers, FiniteSets

CONSTANTS
    Values,         \* Values[d]: what a block may say for directive d
    Disk,           \* Disk[f]: the secret files; text is what is left without
                    \* trailing blanks
    Enables,        \* the ways pgp_auth itself is set, one value per block
    MaxGiven        \* bound: other directives given in all blocks together

Blocks == {"http", "server", "location"}

Empty == ""

Default ==
    [enable |-> 0, challenge_timeout |-> 120, session_timeout |-> 3600,
     failure_limit |-> 0, failure_window |-> 60, failure_ban_time |-> 300,
     gpg_timeout |-> 2000, nonce_storage |-> 1, nonce_addr |-> Empty,
     nonce_password |-> Empty, nonce_password_file |-> Empty,
     keyring |-> "/etc/nginx/pubkeys.gpg", secret_file |-> Empty,
     secret_previous_file |-> Empty]

Directives == DOMAIN Default
Files == {"secret_file", "secret_previous_file", "nonce_password_file"}
Strings == Files \cup {"nonce_addr", "nonce_password", "keyring"}

REDIS == 2
NONE == 0

ASSUME ValuesAssumption ==
    /\ DOMAIN Values = Directives
    /\ \A d \in Directives \ Strings : Values[d] \subseteq Nat
    /\ Values["enable"] \subseteq {0, 1}
    /\ Enables \subseteq [Blocks -> {-1, 0, 1}]
    /\ \A f \in Files : Values[f] \subseteq DOMAIN Disk
    /\ \A f \in DOMAIN Disk :
          Disk[f].opens \in BOOLEAN /\ Disk[f].size \in Nat
    /\ MaxGiven \in Nat

VARIABLES
    conf,       \* conf[b]: the directives as written in block b
    merged,     \* merged[b]: as they are in effect in block b
    made,       \* made[b]: what the merge of b loaded or created
    pc          \* "parse", "server", "location", then "ok" or "refused"

vars == <<conf, merged, made, pc>>

Unset(d) == IF d \in Strings THEN Empty ELSE -1

NothingMade ==
    [secret |-> Empty, secret_previous |-> Empty, nonce_zone |-> FALSE,
     failure_zone |-> FALSE]

Numbers == Directives \ Strings

TypeOK ==
    /\ \A b \in Blocks :
          /\ DOMAIN conf[b] = Directives /\ DOMAIN merged[b] = Directives
          /\ \A d \in Numbers : conf[b][d] \in Nat \cup {-1}
          /\ DOMAIN made[b] = DOMAIN NothingMade
    /\ pc \in {"parse", "server", "location", "ok", "refused"}
    /\ pc \in {"location", "ok"}
          => \A d \in Numbers : merged["server"][d] \in Nat
    /\ pc = "ok" => \A d \in Numbers : merged["location"][d] \in Nat

\* create_loc_conf for every block, and where the module is turned on.
Init ==
    /\ \E on \in Enables :
          conf = [b \in Blocks |-> [d \in Directives |->
                     IF d = "enable" THEN on[b] ELSE Unset(d)]]
    /\ merged = conf
    /\ made = [b \in Blocks |-> NothingMade]
    /\ pc = "parse"

Given == {g \in Blocks \X (Directives \ {"enable"}) :
             conf[g[1]][g[2]] # Unset(g[2])}

\* A directive of the configuration file.
Set(b, d, v) ==
    /\ pc = "parse"
    /\ conf[b][d] = Unset(d)
    /\ Cardinality(Given) < MaxGiven
    /\ conf' = [conf EXCEPT ![b][d] = v]
    /\ merged' = conf'
    /\ UNCHANGED <<made, pc>>

EndOfFile ==
    /\ pc = "parse"
    /\ pc' = "server"
    /\ UNCHANGED <<conf, merged, made>>

-----------------------------------------------------------------------------
(* merge_loc_conf, up to the check of pgp_auth.                             *)

Parent(b) == IF b = "location" THEN "server" ELSE "http"

\* The previous secret's file and the password file are never merged.
Unmerged == {"secret_previous_file", "nonce_password_file"}

\* Faulty Inherit: no defaults.
InheritOnly(c, p) ==
    [d \in Directives |->
        IF c[d] # Unset(d) \/ d \in Unmerged THEN c[d] ELSE p[d]]

Inherit(c, p) ==
    [d \in Directives |->
        IF c[d] # Unset(d) \/ d \in Unmerged THEN c[d]
        ELSE IF p[d] # Unset(d) THEN p[d]
        ELSE Default[d]]

Clamp(low, high, v) == IF v < low THEN low ELSE IF v > high THEN high ELSE v

InBand(low, high, v, fallback) == IF v \in low..high THEN v ELSE fallback

\* The bounds.  A session timeout of 0 has no bound; the throttle's times have
\* one only where the throttle is on.
Bounded(c) ==
    [c EXCEPT
        !.challenge_timeout = Clamp(5, 3600, @),
        !.session_timeout = IF @ > 2592000 THEN 2592000 ELSE @,
        !.failure_window = IF c.failure_limit > 0 THEN InBand(1, 3600, @, 60)
                           ELSE @,
        !.failure_ban_time = IF c.failure_limit > 0
                                THEN InBand(1, 86400, @, 300) ELSE @,
        !.gpg_timeout = Clamp(1000, 60000, @)]

\* Faulty Settings: the bounds are applied to what the block itself says.
SettingsBoundedFirst(c, p) == Inherit(Bounded(c), p)

Settings(c, p) == Bounded(Inherit(c, p))

-----------------------------------------------------------------------------
(* The rest, for a block with pgp_auth on.                                  *)

\* load_secret: what the file says; nothing, an error, if it cannot be opened,
\* is empty or over 64k, or has nothing but blanks.
LoadSecret(file) ==
    IF Disk[file].opens /\ Disk[file].size \in 1..65536
       THEN Disk[file].text ELSE Empty

\* A file the block has to read itself.
Loads(file, parentFile, loaded) ==
    file # Empty /\ ~(file = parentFile /\ loaded # Empty)

\* What the block itself must get right.  The Redis password in effect is
\* measured before a password file is read.
Acceptable(c, p, m) ==
    /\ c.nonce_password # "overlong"
    /\ c.keyring # "relative"
    /\ ~(c.nonce_storage = REDIS /\ c.nonce_addr = Empty)
    /\ ~(c.nonce_password # Empty /\ c.nonce_password_file # Empty)
    /\ \A f \in {<<c.nonce_password_file, p.nonce_password_file, p.nonce_password>>,
                 <<c.secret_file, p.secret_file, m.secret>>,
                 <<c.secret_previous_file, p.secret_previous_file,
                   m.secret_previous>>} :
          Loads(f[1], f[2], f[3]) => LoadSecret(f[1]) # Empty

Random == [server |-> "random, server", location |-> "random, location"]

\* Faulty Secret: the parent's, whether it has one or not.
SecretUnchecked(b, c, p, m) ==
    IF c.secret_file = p.secret_file THEN m.secret ELSE LoadSecret(c.secret_file)

\* The parent's secret, the file's, or 32 random bytes.
Secret(b, c, p, m) ==
    IF c.secret_file = p.secret_file /\ m.secret # Empty THEN m.secret
    ELSE IF c.secret_file # Empty THEN LoadSecret(c.secret_file)
    ELSE Random[b]

\* The parent's if the block names the same file again, else its own, if any.
SecretPrevious(c, p, m) ==
    IF c.secret_previous_file = p.secret_previous_file
          /\ m.secret_previous # Empty
       THEN m.secret_previous
    ELSE IF c.secret_previous_file # Empty
       THEN LoadSecret(c.secret_previous_file)
    ELSE Empty

\* A zone is the parent's or made here; both are the one of its name.
Resources(b, c, p, m) ==
    [secret |-> Secret(b, c, p, m), secret_previous |-> SecretPrevious(c, p, m),
     nonce_zone |-> c.nonce_storage # NONE,
     failure_zone |-> c.failure_limit > 0]

WithPassword(c) ==
    IF c.nonce_password_file # Empty
       THEN [c EXCEPT !.nonce_password = LoadSecret(c.nonce_password_file)]
       ELSE c

Merge(b) ==
    LET p == merged[Parent(b)]
        m == made[Parent(b)]
        c == Settings(conf[b], p)
    IN /\ pc = b
       /\ pc' = IF b = "server" THEN "location" ELSE "ok"
       /\ \/ /\ c.enable = 0
             /\ merged' = [merged EXCEPT ![b] = c]
             /\ UNCHANGED made
          \/ /\ c.enable # 0
             /\ Acceptable(c, p, m)
             /\ merged' = [merged EXCEPT ![b] = WithPassword(c)]
             /\ made' = [made EXCEPT ![b] = Resources(b, c, p, m)]
       /\ UNCHANGED conf

\* An unacceptable block, a gpg path that is not absolute, or no memory, no
\* zone, no thread pool, no random bytes, no locked memory: nginx does not start.
Refuse(b) ==
    /\ pc = b
    /\ Settings(conf[b], merged[Parent(b)]).enable # 0
    /\ pc' = "refused"
    /\ UNCHANGED <<conf, merged, made>>

Next ==
    \/ \E b \in Blocks, d \in Directives : \E v \in Values[d] : Set(b, d, v)
    \/ EndOfFile
    \/ \E b \in {"server", "location"} : Merge(b) \/ Refuse(b)

Spec == Init /\ [][Next]_vars

-----------------------------------------------------------------------------
(* Properties.                                                              *)

\* What the innermost block that says anything says.
Nearest(d) ==
    LET said == {b \in Blocks : conf[b][d] # Unset(d)} IN
    CASE "location" \in said -> conf["location"][d]
      [] "location" \notin said /\ "server" \in said -> conf["server"][d]
      [] said = {"http"} -> conf["http"][d]
      [] OTHER -> Default[d]

Serves == pc = "ok" /\ merged["location"].enable = 1

\* The setting of a location is what the nearest block says, brought within its
\* bounds, however the blocks share it out between them; a bound applied to an
\* unset value would hide the outer blocks (merge_loc_conf, order of the merges
\* and the range checks).
NearestWins ==
    LET nearest == Bounded([d \in Directives |-> Nearest(d)]) IN
    Serves =>
        \A d \in {"challenge_timeout", "session_timeout", "gpg_timeout",
                  "failure_limit", "failure_window", "failure_ban_time"} :
            \/ merged["location"][d] = nearest[d]
            \/ nearest.failure_limit = 0
                  /\ d \in {"failure_window", "failure_ban_time"}

\* A location's secret is the nearest file's; without any file it is random, the
\* server's if the server has pgp_auth on and the location's own otherwise.  It
\* is never empty, also when the file is.
SecretInEffect ==
    Serves =>
        /\ made["location"].secret # Empty
        /\ made["location"].secret =
              IF Nearest("secret_file") # Empty
                 THEN LoadSecret(Nearest("secret_file"))
              ELSE IF merged["server"].enable = 1 THEN Random["server"]
              ELSE Random["location"]
=============================================================================
