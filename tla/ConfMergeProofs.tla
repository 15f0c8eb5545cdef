--------------------------- MODULE ConfMergeProofs ---------------------------
(***************************************************************************)
(* Proofs about merge_loc_conf, for any values the blocks give, any files  *)
(* and any number of directives.                                           *)
(*                                                                         *)
(* The server block is merged before the location, from what http says:    *)
(* ServerInv keeps its settings and its secret until then.  A location     *)
(* inherits settings that were brought within bounds already; that does    *)
(* not show because a bound applied twice is applied once (BoundedOnce);   *)
(* the throttle's times are bounded only where the throttle is on, which   *)
(* the location may have changed.                                          *)
(*                                                                         *)
(* Within and Inherited are Bounded and Inherit for one directive.         *)
(***************************************************************************)
EXTENDS ConfMerge, TLAPS

\* What a block may say before it is merged.
Said(c) ==
    /\ DOMAIN c = Directives
    /\ \A d \in Numbers : c[d] \in Nat \cup {-1}
    /\ c["enable"] \in {-1, 0, 1}

\* What it says when it is.
Complete(c) ==
    /\ DOMAIN c = Directives
    /\ \A d \in Numbers : c[d] \in Nat
    /\ c["enable"] \in {0, 1}

\* The settings s are in effect in block b, up to a password from a file.
InEffect(b, s) ==
    \A d \in Directives \ {"nonce_password"} : merged[b][d] = s[d]

TypeInv ==
    /\ pc \in {"parse", "server", "location", "ok", "refused"}
    /\ DOMAIN conf = Blocks /\ DOMAIN merged = Blocks /\ DOMAIN made = Blocks
    /\ \A b \in Blocks : /\ Said(conf[b])
                         /\ DOMAIN merged[b] = Directives
                         /\ DOMAIN made[b] = DOMAIN NothingMade

\* http is only a parent.
HttpInv ==
    /\ merged["http"] = conf["http"] /\ made["http"] = NothingMade
    /\ pc \in {"parse", "server"} => made["server"] = NothingMade

ServerInv ==
    pc \in {"location", "ok"} =>
        LET s == Settings(conf["server"], conf["http"])
        IN /\ InEffect("server", s)
           /\ s["enable"] = 0 => made["server"].secret = Empty
           /\ s["enable"] = 1 =>
                 /\ made["server"].secret # Empty
                 /\ made["server"].secret =
                       IF s["secret_file"] # Empty
                          THEN LoadSecret(s["secret_file"])
                       ELSE Random["server"]

LocationInv ==
    pc = "ok" =>
        LET p == merged["server"]
            s == Settings(conf["location"], p)
        IN /\ InEffect("location", s)
           /\ s["enable"] = 1 =>
                 /\ Acceptable(s, p, made["server"])
                 /\ made["location"].secret =
                       Secret("location", s, p, made["server"])

IInv == TypeInv /\ HttpInv /\ ServerInv /\ LocationInv

-----------------------------------------------------------------------------
(* Directives.                                                              *)

\* The directives and their defaults, one by one.
LEMMA TheDirectives ==
    /\ Directives = {"enable", "challenge_timeout", "session_timeout",
                     "failure_limit", "failure_window", "failure_ban_time",
                     "gpg_timeout", "nonce_storage", "nonce_addr",
                     "nonce_password", "nonce_password_file", "keyring",
                     "secret_file", "secret_previous_file"}
    /\ Numbers = {"enable", "challenge_timeout", "session_timeout",
                  "failure_limit", "failure_window", "failure_ban_time",
                  "gpg_timeout", "nonce_storage"}
    /\ \A d \in Numbers : Default[d] \in Nat /\ Unset(d) = -1
    /\ Default["enable"] = 0 /\ Default["secret_file"] = Empty
    /\ Unset("secret_file") = Empty
<1>1. Directives = {"enable", "challenge_timeout", "session_timeout",
                    "failure_limit", "failure_window", "failure_ban_time",
                    "gpg_timeout", "nonce_storage", "nonce_addr",
                    "nonce_password", "nonce_password_file", "keyring",
                    "secret_file", "secret_previous_file"}
    BY DEF Directives, Default
<1>2. Numbers = {"enable", "challenge_timeout", "session_timeout",
                 "failure_limit", "failure_window", "failure_ban_time",
                 "gpg_timeout", "nonce_storage"}
    BY <1>1 DEF Numbers, Strings, Files
<1>3. \A d \in Numbers : Default[d] \in Nat
    BY <1>2 DEF Default
<1>4. \A d \in Numbers : Unset(d) = -1
    BY DEF Numbers, Unset
<1>5. Default["enable"] = 0 /\ Default["secret_file"] = Empty
    BY DEF Default
<1>6. Unset("secret_file") = Empty
    BY DEF Unset, Strings, Files
<1> QED  BY <1>1, <1>2, <1>3, <1>4, <1>5, <1>6, Zenon

\* A value brought within a range stays there.
LEMMA Ranges ==
    ASSUME NEW low \in Nat, NEW high \in Nat, NEW v \in Nat,
           NEW fallback \in Nat, low <= fallback, fallback <= high
    PROVE  /\ Clamp(low, high, v) \in Nat
           /\ Clamp(low, high, Clamp(low, high, v)) = Clamp(low, high, v)
           /\ InBand(low, high, v, fallback) \in Nat
           /\ InBand(low, high, InBand(low, high, v, fallback), fallback)
                 = InBand(low, high, v, fallback)
<1>1. /\ Clamp(low, high, v) \in Nat
      /\ Clamp(low, high, Clamp(low, high, v)) = Clamp(low, high, v)
    BY DEF Clamp
<1>2. /\ InBand(low, high, v, fallback) \in Nat
      /\ InBand(low, high, InBand(low, high, v, fallback), fallback)
            = InBand(low, high, v, fallback)
    BY DEF InBand
<1> QED  BY <1>1, <1>2

\* What the range check of directive d makes of a value v.
Within(d, throttled, v) ==
    IF d = "challenge_timeout" THEN Clamp(5, 3600, v)
    ELSE IF d = "session_timeout" THEN IF v > 2592000 THEN 2592000 ELSE v
    ELSE IF d = "gpg_timeout" THEN Clamp(1000, 60000, v)
    ELSE IF d = "failure_window" /\ throttled THEN InBand(1, 3600, v, 60)
    ELSE IF d = "failure_ban_time" /\ throttled THEN InBand(1, 86400, v, 300)
    ELSE v

\* Bounded applies to each directive its own check, and the throttle's only
\* where the throttle is on.
LEMMA Bounds ==
    ASSUME NEW c, DOMAIN c = Directives
    PROVE  /\ DOMAIN Bounded(c) = Directives
           /\ \A d \in Directives :
                 Bounded(c)[d] = Within(d, c["failure_limit"] > 0, c[d])
<1>1. DOMAIN Bounded(c) = Directives
    BY SMT DEF Bounded
<1>2. ASSUME NEW d \in Directives
      PROVE  Bounded(c)[d] = Within(d, c["failure_limit"] > 0, c[d])
  <2>1. CASE d = "challenge_timeout"
      BY <2>1, SMT DEF Bounded, Within
  <2>2. CASE d = "session_timeout"
      BY <2>2, SMT DEF Bounded, Within
  <2>3. CASE d = "gpg_timeout"
      BY <2>3, SMT DEF Bounded, Within
  <2>4. CASE d = "failure_window"
      BY <2>4, SMT DEF Bounded, Within
  <2>5. CASE d = "failure_ban_time"
      BY <2>5, SMT DEF Bounded, Within
  <2>6. CASE /\ d # "challenge_timeout" /\ d # "session_timeout"
             /\ d # "failure_window" /\ d # "failure_ban_time"
             /\ d # "gpg_timeout"
    <3>1. Bounded(c)[d] = c[d]
      <4> DEFINE c1 == [c EXCEPT !.challenge_timeout = Clamp(5, 3600, @)]
                 c2 == [c1 EXCEPT !.session_timeout =
                           IF @ > 2592000 THEN 2592000 ELSE @]
                 c3 == [c2 EXCEPT !.failure_window =
                           IF c.failure_limit > 0 THEN InBand(1, 3600, @, 60)
                           ELSE @]
                 c4 == [c3 EXCEPT !.failure_ban_time =
                           IF c.failure_limit > 0 THEN InBand(1, 86400, @, 300)
                           ELSE @]
                 c5 == [c4 EXCEPT !.gpg_timeout = Clamp(1000, 60000, @)]
      <4>1. DOMAIN c1 = Directives /\ c1[d] = c[d]
          BY <2>6, SMT
      <4>2. DOMAIN c2 = Directives /\ c2[d] = c1[d]
        <5> HIDE DEF c1
        <5> QED  BY <2>6, <4>1, SMT
      <4>3. DOMAIN c3 = Directives /\ c3[d] = c2[d]
        <5> HIDE DEF c2
        <5> QED  BY <2>6, <4>2, SMT
      <4>4. DOMAIN c4 = Directives /\ c4[d] = c3[d]
        <5> HIDE DEF c3
        <5> QED  BY <2>6, <4>3, SMT
      <4>5. DOMAIN c5 = Directives /\ c5[d] = c4[d]
        <5> HIDE DEF c4
        <5> QED  BY <2>6, <4>4, SMT
      <4>6. Bounded(c) = c5
          BY SMT DEF Bounded
      <4> HIDE DEF c1, c2, c3, c4, c5
      <4> QED  BY <4>1, <4>2, <4>3, <4>4, <4>5, <4>6
    <3>2. Within(d, c["failure_limit"] > 0, c[d]) = c[d]
        BY <2>6, SMT DEF Within
    <3> QED  BY <3>1, <3>2
  <2> QED  BY <2>1, <2>2, <2>3, <2>4, <2>5, <2>6
<1> QED  BY <1>1, <1>2

\* A bound applied twice is applied once; the throttle's can come late.
LEMMA BoundedOnce ==
    ASSUME NEW d, NEW v \in Nat, NEW a \in BOOLEAN, NEW b \in BOOLEAN
    PROVE  /\ Within(d, a, v) \in Nat
           /\ Within(d, TRUE, Within(d, a, v)) = Within(d, TRUE, v)
           /\ d \notin {"failure_window", "failure_ban_time"}
                 => Within(d, b, Within(d, a, v)) = Within(d, b, v)
<1>1. CASE d = "challenge_timeout"
    BY <1>1, Ranges, SMT DEF Within
<1>2. CASE d = "session_timeout"
    BY <1>2, SMT DEF Within
<1>3. CASE d = "gpg_timeout"
    BY <1>3, Ranges, SMT DEF Within
<1>4. CASE d = "failure_window"
  <2>1. /\ InBand(1, 3600, v, 60) \in Nat
        /\ InBand(1, 3600, InBand(1, 3600, v, 60), 60)
              = InBand(1, 3600, v, 60)
      BY Ranges, SMT
  <2>2. CASE a
      BY <1>4, <2>1, <2>2, SMT DEF Within
  <2>3. CASE ~a
      BY <1>4, <2>3, SMT DEF Within
  <2> QED  BY <2>2, <2>3, Zenon
<1>5. CASE d = "failure_ban_time"
  <2>1. /\ InBand(1, 86400, v, 300) \in Nat
        /\ InBand(1, 86400, InBand(1, 86400, v, 300), 300)
              = InBand(1, 86400, v, 300)
      BY Ranges, SMT
  <2>2. CASE a
      BY <1>5, <2>1, <2>2, SMT DEF Within
  <2>3. CASE ~a
      BY <1>5, <2>3, SMT DEF Within
  <2> QED  BY <2>2, <2>3, Zenon
<1>6. CASE /\ d # "challenge_timeout" /\ d # "session_timeout"
           /\ d # "failure_window" /\ d # "failure_ban_time"
           /\ d # "gpg_timeout"
    BY <1>6, SMT DEF Within
<1> QED  BY <1>1, <1>2, <1>3, <1>4, <1>5, <1>6, Zenon

\* Pick what the block, else its parent, else the default says.
Inherited(d, v, w) ==
    IF v # Unset(d) \/ d \in Unmerged THEN v
    ELSE IF w # Unset(d) THEN w ELSE Default[d]

\* A merged block says something for every directive.
LEMMA Merged ==
    ASSUME NEW c, NEW p, Said(c), Said(p) \/ Complete(p)
    PROVE  /\ Complete(Inherit(c, p))
           /\ Complete(Settings(c, p))
           /\ \A d \in Directives : Inherit(c, p)[d] = Inherited(d, c[d], p[d])
           /\ \A d \in Directives : Settings(c, p)[d] =
                 Within(d, Inherit(c, p)["failure_limit"] > 0,
                        Inherit(c, p)[d])
<1> DEFINE i == Inherit(c, p)
<1>1. /\ DOMAIN i = Directives
      /\ \A d \in Directives : i[d] = Inherited(d, c[d], p[d])
    BY Zenon DEF Inherit, Inherited
<1>2. \A d \in Numbers : d \in Directives /\ d \notin Unmerged
    BY Zenon DEF Numbers, Strings, Files, Unmerged
<1> HIDE DEF i
<1>3. ASSUME NEW d \in Numbers
      PROVE  i[d] \in Nat
  <2>1. c[d] \in Nat \cup {-1} /\ p[d] \in Nat \cup {-1}
      BY DEF Said, Complete
  <2>2. Unset(d) = -1 /\ Default[d] \in Nat
      BY TheDirectives
  <2> QED  BY <1>1, <1>2, <2>1, <2>2 DEF Inherited
<1>4. i["enable"] \in {0, 1}
  <2>1. c["enable"] \in {-1, 0, 1} /\ p["enable"] \in {-1, 0, 1}
      BY DEF Said, Complete
  <2>2. "enable" \in Numbers /\ Unset("enable") = -1 /\ Default["enable"] = 0
      BY TheDirectives
  <2> QED  BY <1>1, <1>2, <2>1, <2>2 DEF Inherited
<1>5. Complete(i)
    BY <1>1, <1>3, <1>4 DEF Complete
<1> DEFINE on == i["failure_limit"] > 0
           s == Bounded(i)
<1>6. /\ DOMAIN s = Directives
      /\ \A d \in Directives : s[d] = Within(d, on, i[d])
    BY <1>1, Bounds, Zenon
<1>7. on \in BOOLEAN
  <2>1. i["failure_limit"] \in Nat
      BY <1>3, TheDirectives
  <2> QED  BY <2>1
<1> HIDE DEF s, on
<1>8. \A d \in Numbers : s[d] \in Nat
  <2> TAKE d \in Numbers
  <2>1. i[d] \in Nat
      BY <1>3
  <2>2. Within(d, on, i[d]) \in Nat
      BY <1>7, <2>1, BoundedOnce, ZenonT(40)
  <2> QED  BY <1>2, <1>6, <2>2, Zenon
<1>9. s["enable"] = i["enable"]
  <2>1. "enable" \in Directives
      BY TheDirectives, Zenon
  <2>2. Within("enable", on, i["enable"]) = i["enable"]
      BY SMT DEF Within
  <2> QED  BY <1>6, <2>1, <2>2, Zenon
<1>10. Complete(s)
    BY <1>4, <1>6, <1>8, <1>9, Zenon DEF Complete
<1>11. Settings(c, p) = s
    BY Zenon DEF Settings, i, s
<1> QED  BY <1>1, <1>5, <1>6, <1>10, <1>11, Zenon DEF i, on
-----------------------------------------------------------------------------
(* The merges.                                                              *)

\* A password from a file is the only setting changed after the range checks.
LEMMA Password ==
    ASSUME NEW s, DOMAIN s = Directives
    PROVE  /\ DOMAIN WithPassword(s) = Directives
           /\ \A d \in Directives \ {"nonce_password"} :
                 WithPassword(s)[d] = s[d]
    BY DEF WithPassword

\* A merge replaces what block b has in effect and nothing else.
LEMMA MergeOf ==
    ASSUME TypeInv, NEW b \in {"server", "location"}, Merge(b),
           Complete(merged[Parent(b)]) \/ Said(merged[Parent(b)])
    PROVE  LET p == merged[Parent(b)]
               m == made[Parent(b)]
               s == Settings(conf[b], p)
           IN /\ pc = b /\ conf' = conf
              /\ pc' = IF b = "server" THEN "location" ELSE "ok"
              /\ TypeInv'
              /\ \A a \in Blocks \ {b} :
                    merged'[a] = merged[a] /\ made'[a] = made[a]
              /\ InEffect(b, s)'
              /\ s["enable"] = 0 => made'[b] = made[b]
              /\ s["enable"] = 1 =>
                    /\ Acceptable(s, p, m)
                    /\ made'[b].secret = Secret(b, s, p, m)
<1> DEFINE p == merged[Parent(b)]
           m == made[Parent(b)]
           s == Settings(conf[b], p)
           set == IF s.enable = 0 THEN s ELSE WithPassword(s)
           got == IF s.enable = 0 THEN made[b] ELSE Resources(b, s, p, m)
<1>1. b \in Blocks /\ Said(conf[b])
    BY DEF TypeInv, Blocks
<1>2. Complete(s)
    BY <1>1, Merged
<1>3. /\ pc = b /\ conf' = conf
      /\ pc' = IF b = "server" THEN "location" ELSE "ok"
      /\ merged' = [merged EXCEPT ![b] = set]
    BY Zenon DEF Merge
<1>4. /\ made'[b] = got /\ DOMAIN made' = Blocks
      /\ \A a \in Blocks \ {b} : made'[a] = made[a]
  <2>1. CASE s.enable = 0
    <3>1. made' = made /\ got = made[b]
        BY <2>1, Zenon DEF Merge
    <3> QED  BY <3>1, Zenon DEF TypeInv
  <2>2. CASE s.enable # 0
    <3>1. made' = [made EXCEPT ![b] = got]
        BY <2>2, Zenon DEF Merge
    <3> HIDE DEF got
    <3> QED  BY <1>1, <3>1, Zenon DEF TypeInv
  <2> QED  BY <2>1, <2>2, Zenon
<1>5. DOMAIN set = Directives
         /\ \A d \in Directives \ {"nonce_password"} : set[d] = s[d]
    BY <1>2, Password, Zenon DEF Complete
<1>6. DOMAIN got = DOMAIN NothingMade
    BY <1>1 DEF TypeInv, Resources, NothingMade
<1>7. s["enable"] = 0 => got = made[b]
    BY Zenon
<1>8. s["enable"] = 1 => /\ Acceptable(s, p, m)
                         /\ got.secret = Secret(b, s, p, m)
  <2> SUFFICES ASSUME s["enable"] = 1
               PROVE  Acceptable(s, p, m) /\ got.secret = Secret(b, s, p, m)
      OBVIOUS
  <2>1. s.enable # 0
      OBVIOUS
  <2>2. got = Resources(b, s, p, m)
      BY <2>1, Zenon
  <2>3. Acceptable(s, p, m)
      BY <2>1, Zenon DEF Merge
  <2> HIDE DEF got, s, p, m
  <2> QED  BY <2>2, <2>3 DEF Resources
<1> HIDE DEF set, got, s, p, m
<1>9. merged'[b] = set /\ made'[b] = got
    BY <1>1, <1>3, <1>4, Zenon DEF TypeInv
<1>10. \A a \in Blocks \ {b} : merged'[a] = merged[a] /\ made'[a] = made[a]
    BY <1>1, <1>3, <1>4, Zenon DEF TypeInv
<1>11. DOMAIN merged' = Blocks /\ DOMAIN made' = Blocks
    BY <1>3, <1>4, Zenon DEF TypeInv
<1>12. TypeInv'
  <2>1. pc' \in {"parse", "server", "location", "ok", "refused"}
      BY <1>3, Zenon
  <2>2. \A a \in Blocks : /\ DOMAIN merged'[a] = Directives
                          /\ DOMAIN made'[a] = DOMAIN NothingMade
      BY <1>5, <1>6, <1>9, <1>10, Zenon DEF TypeInv
  <2>3. \A a \in Blocks : Said(conf[a])'
      BY <1>3, Zenon DEF TypeInv, Said
  <2> QED  BY <1>3, <1>11, <2>1, <2>2, <2>3, Zenon DEF TypeInv
<1>13. InEffect(b, s)'
  <2>1. \A d \in Directives \ {"nonce_password"} : merged'[b][d] = s[d]
      BY <1>5, <1>9, Zenon
  <2>2. Parent(b) \in Blocks \ {b}
      BY Zenon DEF Parent, Blocks
  <2>3. s' = s
      BY <1>3, <1>10, <2>2 DEF s, p
  <2> QED  BY <2>1, <2>3, Zenon DEF InEffect
<1> QED  BY <1>3, <1>7, <1>8, <1>9, <1>10, <1>12, <1>13, Zenon DEF s, p, m
\* The server's settings, while they can be inherited, are complete.
LEMMA ServerComplete ==
    ASSUME IInv, pc \in {"location", "ok"}
    PROVE  Complete(merged["server"])
<1> DEFINE s == Settings(conf["server"], conf["http"])
<1>1. Said(conf["server"]) /\ Said(conf["http"])
    BY DEF IInv, TypeInv, Blocks
<1>2. Complete(s)
    BY <1>1, Merged
<1>3. \A d \in Directives \ {"nonce_password"} : merged["server"][d] = s[d]
    BY Zenon DEF IInv, ServerInv, InEffect
<1>4. /\ "enable" \in Directives \ {"nonce_password"}
      /\ Numbers \subseteq Directives \ {"nonce_password"}
    BY TheDirectives
<1>5. DOMAIN merged["server"] = Directives
    BY DEF IInv, TypeInv, Blocks
<1> HIDE DEF s
<1> QED  BY <1>2, <1>3, <1>4, <1>5, Zenon DEF Complete

\* The server inherits from http, which has no secret to hand on: it makes its
\* own.
LEMMA MergeServerStep ==
    ASSUME IInv, Merge("server")
    PROVE  IInv'
<1> DEFINE p == merged["http"]
           m == made["http"]
           s == Settings(conf["server"], p)
<1>1. Parent("server") = "http"
    BY DEF Parent
<1>2. p = conf["http"] /\ m = NothingMade /\ made["server"] = NothingMade
    BY DEF IInv, HttpInv, Merge
<1>3. Said(conf["server"]) /\ Said(p)
    BY <1>2 DEF IInv, TypeInv, Blocks
<1>4. Complete(s)
    BY <1>3, Merged
<1>5. /\ conf' = conf /\ pc' = "location"
      /\ TypeInv'
      /\ \A a \in Blocks \ {"server"} :
            merged'[a] = merged[a] /\ made'[a] = made[a]
      /\ InEffect("server", s)'
      /\ s["enable"] = 0 => made'["server"] = made["server"]
      /\ s["enable"] = 1 =>
            /\ Acceptable(s, p, m)
            /\ made'["server"].secret = Secret("server", s, p, m)
  <2>1. TypeInv /\ Said(merged[Parent("server")])
      BY <1>1, <1>3, Zenon DEF IInv
  <2> QED  BY <1>1, <2>1, MergeOf, Zenon
<1>6. merged'["http"] = merged["http"] /\ made'["http"] = made["http"]
    BY <1>5, Zenon DEF Blocks
<1>7. s' = s /\ s = Settings(conf'["server"], conf'["http"])
    BY <1>2, <1>5, <1>6, Zenon
<1>8. NothingMade.secret = Empty
    BY DEF NothingMade
<1>9. s["enable"] = 1 =>
         /\ made'["server"].secret # Empty
         /\ made'["server"].secret =
               IF s["secret_file"] # Empty THEN LoadSecret(s["secret_file"])
               ELSE Random["server"]
  <2> HIDE DEF s, p, m
  <2> SUFFICES ASSUME s["enable"] = 1
               PROVE  /\ made'["server"].secret # Empty
                      /\ made'["server"].secret =
                            IF s["secret_file"] # Empty
                               THEN LoadSecret(s["secret_file"])
                            ELSE Random["server"]
      BY Zenon
  <2>1. m.secret = Empty
      BY <1>2, <1>8, Zenon
  <2>2. made'["server"].secret = IF s["secret_file"] # Empty
                                    THEN LoadSecret(s["secret_file"])
                                 ELSE Random["server"]
      BY <1>5, <2>1 DEF Secret
  <2>3. s["secret_file"] # Empty => LoadSecret(s["secret_file"]) # Empty
    <3>1. Loads(s.secret_file, p.secret_file, m.secret)
             => LoadSecret(s.secret_file) # Empty
        BY <1>5 DEF Acceptable
    <3> QED  BY <2>1, <3>1, Zenon DEF Loads
  <2>4. Random["server"] # Empty
      BY Zenon DEF Random, Empty
  <2> QED  BY <2>2, <2>3, <2>4, Zenon
<1>10. s["enable"] = 0 => made'["server"].secret = Empty
    BY <1>2, <1>5, <1>8, Zenon
<1>11. InEffect("server", Settings(conf["server"], conf["http"]))'
    BY <1>5, <1>7, Zenon DEF InEffect
<1> HIDE DEF s, p, m
<1>12. ServerInv'
    BY <1>7, <1>9, <1>10, <1>11, Zenon DEF ServerInv
<1>13. HttpInv'
    BY <1>2, <1>5, <1>6, Zenon DEF HttpInv, p, m
<1>14. LocationInv'
    BY <1>5, Zenon DEF LocationInv
<1> QED  BY <1>5, <1>12, <1>13, <1>14, Zenon DEF IInv

\* The location inherits what is in effect in the server.
LEMMA MergeLocationStep ==
    ASSUME IInv, Merge("location")
    PROVE  IInv'
<1> DEFINE p == merged["server"]
           m == made["server"]
           s == Settings(conf["location"], p)
<1>1. Parent("location") = "server"
    BY DEF Parent
<1>2. pc = "location"
    BY DEF Merge
<1>3. Complete(p)
    BY <1>2, ServerComplete
<1>4. /\ conf' = conf /\ pc' = "ok"
      /\ TypeInv'
      /\ \A a \in Blocks \ {"location"} :
            merged'[a] = merged[a] /\ made'[a] = made[a]
      /\ InEffect("location", s)'
      /\ s["enable"] = 1 =>
            /\ Acceptable(s, p, m)
            /\ made'["location"].secret = Secret("location", s, p, m)
  <2>1. TypeInv /\ Complete(merged[Parent("location")])
      BY <1>1, <1>3, Zenon DEF IInv
  <2> QED  BY <1>1, <2>1, MergeOf, Zenon
<1>5. /\ merged'["http"] = merged["http"] /\ made'["http"] = made["http"]
      /\ merged'["server"] = p /\ made'["server"] = m
    BY <1>4, Zenon DEF Blocks
<1>6. HttpInv'
    BY <1>4, <1>5, Zenon DEF IInv, HttpInv
<1>7. ServerInv'
    BY <1>2, <1>4, <1>5, Zenon DEF IInv, ServerInv, InEffect
<1>8. s' = s /\ p' = p /\ m' = m
    BY <1>4, <1>5, Zenon
<1>9. LocationInv'
    BY <1>4, <1>8, Zenon DEF LocationInv
<1> QED  BY <1>4, <1>6, <1>7, <1>9, Zenon DEF IInv

\* A directive is checked by its own parser.
LEMMA SetStep ==
    ASSUME IInv, NEW b \in Blocks, NEW d \in Directives, NEW v \in Values[d],
           Set(b, d, v)
    PROVE  IInv'
<1>1. /\ pc = "parse" /\ pc' = pc /\ made' = made
      /\ conf' = [conf EXCEPT ![b][d] = v] /\ merged' = conf'
    BY DEF Set
<1>2. /\ DOMAIN conf' = Blocks
      /\ \A a \in Blocks : DOMAIN conf'[a] = Directives
    BY <1>1, Zenon DEF IInv, TypeInv, Said
<1>3. ASSUME NEW a \in Blocks
      PROVE  Said(conf'[a])
  <2>1. Said(conf[a])
      BY DEF IInv, TypeInv
  <2>2. \A e \in Directives :
           conf'[a][e] = IF a = b /\ e = d THEN v ELSE conf[a][e]
      BY <1>1, Zenon DEF IInv, TypeInv, Said
  <2>3. d \in Numbers => v \in Nat
      BY ValuesAssumption DEF Numbers
  <2>4. d = "enable" => v \in {0, 1}
      BY ValuesAssumption, Zenon
  <2>5. \A e \in Numbers : e \in Directives
      BY DEF Numbers
  <2>6. "enable" \in Directives
      BY TheDirectives, Zenon
  <2>7. \A e \in Numbers : conf'[a][e] \in Nat \cup {-1}
      BY <2>1, <2>2, <2>3, <2>5 DEF Said
  <2>8. conf'[a]["enable"] \in {-1, 0, 1}
      BY <2>1, <2>2, <2>4, <2>6 DEF Said
  <2> QED  BY <1>2, <2>7, <2>8, Zenon DEF Said
<1>4. TypeInv'
    BY <1>1, <1>2, <1>3, Zenon DEF IInv, TypeInv
<1>5. HttpInv'
    BY <1>1, Zenon DEF IInv, HttpInv
<1>6. ServerInv' /\ LocationInv'
    BY <1>1, Zenon DEF ServerInv, LocationInv
<1> QED  BY <1>4, <1>5, <1>6 DEF IInv

\* The invariant of the configuration phase.
LEMMA Invariance == Spec => []IInv
<1>1. Init => IInv
  <2> SUFFICES ASSUME Init PROVE IInv
      OBVIOUS
  <2>1. PICK on \in Enables :
           conf = [b \in Blocks |-> [d \in Directives |->
                      IF d = "enable" THEN on[b] ELSE Unset(d)]]
      BY DEF Init
  <2>2. on \in [Blocks -> {-1, 0, 1}]
      BY ValuesAssumption
  <2>3. ASSUME NEW b \in Blocks
        PROVE  Said(conf[b])
    <3>1. /\ DOMAIN conf[b] = Directives
          /\ \A d \in Directives :
                conf[b][d] = IF d = "enable" THEN on[b] ELSE Unset(d)
        BY <2>1, Zenon
    <3>2. on[b] \in {-1, 0, 1}
        BY <2>2
    <3>3. "enable" \in Directives /\ \A d \in Numbers : d \in Directives
        BY TheDirectives
    <3>4. \A d \in Numbers : Unset(d) = -1
        BY TheDirectives
    <3> QED  BY <3>1, <3>2, <3>3, <3>4 DEF Said
  <2>4. DOMAIN conf = Blocks
      BY <2>1, Zenon
  <2>5. /\ merged = conf /\ pc = "parse" /\ DOMAIN made = Blocks
        /\ \A b \in Blocks : made[b] = NothingMade
      BY Zenon DEF Init
  <2>6. TypeInv
      BY <2>3, <2>4, <2>5, Zenon DEF TypeInv, Said
  <2>7. HttpInv
      BY <2>5, Zenon DEF HttpInv, Blocks
  <2> QED  BY <2>5, <2>6, <2>7, Zenon DEF IInv, ServerInv, LocationInv
<1>2. IInv /\ [Next]_vars => IInv'
  <2> SUFFICES ASSUME IInv, [Next]_vars PROVE IInv'
      OBVIOUS
  <2>1. CASE \E b \in Blocks, d \in Directives : \E v \in Values[d] :
                Set(b, d, v)
      BY <2>1, SetStep, Zenon
  <2>2. CASE EndOfFile
      BY <2>2, Zenon
         DEF IInv, EndOfFile, TypeInv, HttpInv, ServerInv, LocationInv, Said
  <2>3. CASE Merge("server")
      BY <2>3, MergeServerStep
  <2>4. CASE Merge("location")
      BY <2>4, MergeLocationStep
  <2>5. CASE \E b \in {"server", "location"} : Refuse(b)
      BY <2>5, Zenon
         DEF IInv, Refuse, TypeInv, HttpInv, ServerInv, LocationInv, Said
  <2>6. CASE UNCHANGED vars
    <3>1. conf' = conf /\ merged' = merged /\ made' = made /\ pc' = pc
        BY <2>6 DEF vars
    <3> QED  BY <3>1, Zenon
         DEF IInv, TypeInv, HttpInv, ServerInv, LocationInv, Said, InEffect
  <2> QED  BY <2>1, <2>2, <2>3, <2>4, <2>5, <2>6, Zenon DEF Next
<1> QED  BY <1>1, <1>2, PTL DEF Spec
-----------------------------------------------------------------------------
(* Theorems.                                                                *)

\* Every setting of a merged block has a value (ngx_conf_merge_*_value).
THEOREM TypeCorrect == Spec => []TypeOK
<1>1. IInv => TypeOK
  <2> SUFFICES ASSUME IInv PROVE TypeOK
      OBVIOUS
  <2>1. pc \in {"location", "ok"} => Complete(merged["server"])
      BY ServerComplete
  <2>2. ASSUME pc = "ok"
        PROVE  \A d \in Numbers : merged["location"][d] \in Nat
    <3> DEFINE s == Settings(conf["location"], merged["server"])
    <3>1. Said(conf["location"]) /\ Complete(merged["server"])
        BY <2>1, <2>2 DEF IInv, TypeInv, Blocks
    <3>2. Complete(s)
        BY <3>1, Merged
    <3>3. \A d \in Directives \ {"nonce_password"} :
             merged["location"][d] = s[d]
        BY <2>2, Zenon DEF IInv, LocationInv, InEffect
    <3>4. Numbers \subseteq Directives \ {"nonce_password"}
        BY TheDirectives
    <3> HIDE DEF s
    <3> QED  BY <3>2, <3>3, <3>4, Zenon DEF Complete
  <2> QED  BY <2>1, <2>2, Zenon DEF IInv, TypeInv, TypeOK, Said, Complete
<1> QED  BY <1>1, Invariance, PTL

\* What a location inherits is what the nearest block says: the server hands
\* on its own value, else http's, else the default.
LEMMA NearestOf ==
    ASSUME IInv, pc = "ok", NEW d \in Directives \ Unmerged
    PROVE  Nearest(d) =
              IF conf["location"][d] # Unset(d) THEN conf["location"][d]
              ELSE Inherit(conf["server"], conf["http"])[d]
<1> DEFINE said == {b \in Blocks : conf[b][d] # Unset(d)}
<1>1. Inherit(conf["server"], conf["http"])[d]
         = Inherited(d, conf["server"][d], conf["http"][d])
  <2>1. Said(conf["server"]) /\ Said(conf["http"])
      BY DEF IInv, TypeInv, Blocks
  <2> QED  BY <2>1, Merged
<1>2. CASE conf["location"][d] # Unset(d)
  <2>1. "location" \in said
      BY <1>2, Zenon DEF Blocks
  <2> QED  BY <1>2, <2>1 DEF Nearest
<1>3. CASE conf["location"][d] = Unset(d) /\ conf["server"][d] # Unset(d)
  <2>1. "location" \notin said /\ "server" \in said
      BY <1>3, Zenon DEF Blocks
  <2>2. said # {"http"}
      BY <2>1
  <2> QED  BY <1>1, <1>3, <2>1, <2>2 DEF Nearest, Inherited
<1>4. CASE /\ conf["location"][d] = Unset(d) /\ conf["server"][d] = Unset(d)
           /\ conf["http"][d] # Unset(d)
  <2>1. "location" \notin said /\ "server" \notin said
      BY <1>4, Zenon
  <2>2. said = {"http"}
      BY <1>4 DEF Blocks
  <2> QED  BY <1>1, <1>4, <2>1, <2>2 DEF Nearest, Inherited
<1>5. CASE /\ conf["location"][d] = Unset(d) /\ conf["server"][d] = Unset(d)
           /\ conf["http"][d] = Unset(d)
  <2>1. "location" \notin said /\ "server" \notin said /\ said # {"http"}
      BY <1>5, Zenon
  <2> QED  BY <1>1, <1>5, <2>1 DEF Nearest, Inherited
<1> QED  BY <1>2, <1>3, <1>4, <1>5, Zenon

\* The setting of a location is the nearest block's, within bounds, whatever
\* the blocks say and although the server's was brought within bounds before
\* (merge_loc_conf).
THEOREM NearestBlockWins == Spec => []NearestWins
<1>1. IInv => NearestWins
  <2> SUFFICES ASSUME IInv, Serves,
                      NEW d \in {"challenge_timeout", "session_timeout",
                                 "gpg_timeout", "failure_limit",
                                 "failure_window", "failure_ban_time"}
               PROVE  LET nearest == Bounded([e \in Directives |-> Nearest(e)])
                      IN \/ merged["location"][d] = nearest[d]
                         \/ nearest.failure_limit = 0
                               /\ d \in {"failure_window", "failure_ban_time"}
      BY Zenon DEF NearestWins
  <2> DEFINE p == merged["server"]
             i0 == Inherit(conf["server"], conf["http"])
             i1 == Inherit(conf["location"], p)
             s0 == Settings(conf["server"], conf["http"])
             s1 == Settings(conf["location"], p)
             near == [e \in Directives |-> Nearest(e)]
             lim == "failure_limit"
  <2>1. /\ Said(conf["server"]) /\ Said(conf["http"])
        /\ Said(conf["location"]) /\ pc = "ok" /\ Complete(p)
      BY ServerComplete DEF IInv, TypeInv, Blocks, Serves
  <2>2. /\ d \in Numbers /\ lim \in Numbers
        /\ \A e \in Numbers : e \in (Directives \ Unmerged) \ {"nonce_password"}
      BY TheDirectives, Zenon DEF Unmerged
  <2>3. \A e \in Numbers : i0[e] \in Nat /\ p[e] \in Nat
      BY <2>1, Merged, Zenon DEF Complete
  <2>4. \A e \in Numbers : conf["location"][e] \in Nat \cup {-1}
      BY <2>1 DEF Said
  <2>5. \A e \in Numbers : p[e] = Within(e, i0[lim] > 0, i0[e])
    <3>1. \A e \in Directives \ {"nonce_password"} : p[e] = s0[e]
        BY <2>1, Zenon DEF IInv, ServerInv, InEffect
    <3>2. \A e \in Directives : s0[e] = Within(e, i0[lim] > 0, i0[e])
        BY <2>1, Merged
    <3> QED  BY <2>2, <3>1, <3>2, Zenon
  <2>6. \A e \in Numbers :
           merged["location"][e] = Within(e, i1[lim] > 0, i1[e])
    <3>1. \A e \in Directives \ {"nonce_password"} :
             merged["location"][e] = s1[e]
        BY <2>1, Zenon DEF IInv, LocationInv, InEffect
    <3>2. \A e \in Directives : s1[e] = Within(e, i1[lim] > 0, i1[e])
        BY <2>1, Merged
    <3> QED  BY <2>2, <3>1, <3>2, Zenon
  <2>7. \A e \in Numbers :
           i1[e] = IF conf["location"][e] # -1 THEN conf["location"][e]
                   ELSE p[e]
    <3> TAKE e \in Numbers
    <3>1. i1[e] = Inherited(e, conf["location"][e], p[e])
        BY <2>1, <2>2, Merged
    <3>2. Unset(e) = -1 /\ p[e] # -1 /\ e \notin Unmerged
        BY <2>2, <2>3, TheDirectives
    <3> HIDE DEF i1, p
    <3> QED  BY <3>1, <3>2, Zenon DEF Inherited
  <2>8. \A e \in Numbers :
           Nearest(e) = IF conf["location"][e] # -1 THEN conf["location"][e]
                        ELSE i0[e]
      BY <2>1, <2>2, NearestOf, TheDirectives, ZenonT(40)
  <2>9. \A e \in Numbers : near[e] = Nearest(e)
      BY <2>2, Zenon
  <2>10. \A e \in Numbers : Bounded(near)[e] = Within(e, near[lim] > 0, near[e])
      BY <2>2, Bounds, Zenon
  <2> HIDE DEF p, i0, i1, s0, s1, near
  <2>11. \A a, v : Within(lim, a, v) = v
      BY SMT DEF Within
  <2>12. i1[lim] = near[lim] /\ near[lim] \in Nat
    <3>1. p[lim] = i0[lim]
        BY <2>2, <2>5, <2>11, Zenon
    <3> QED  BY <2>2, <2>3, <2>4, <2>7, <2>8, <2>9, <3>1
  <2>13. CASE conf["location"][d] # -1
    <3>1. i1[d] = near[d]
        BY <2>2, <2>7, <2>8, <2>9, <2>13, Zenon
    <3>2. merged["location"][d] = Bounded(near)[d]
        BY <2>2, <2>6, <2>10, <2>12, <3>1, Zenon
    <3> QED  BY <3>2, Zenon DEF near
  <2>14. CASE conf["location"][d] = -1
    <3> DEFINE a == i0[lim] > 0
               b == near[lim] > 0
    <3>1. /\ i1[d] = Within(d, a, i0[d])
          /\ near[d] = i0[d]
        BY <2>2, <2>5, <2>7, <2>8, <2>9, <2>14, Zenon
    <3>2. merged["location"][d] = Within(d, b, Within(d, a, i0[d]))
        BY <2>2, <2>6, <2>12, <3>1, Zenon
    <3>3. Bounded(near)[d] = Within(d, b, i0[d])
        BY <2>2, <2>10, <3>1, Zenon
    <3>4. a \in BOOLEAN /\ b \in BOOLEAN /\ i0[d] \in Nat
        BY <2>2, <2>3, <2>12
    <3>5. ~b => Bounded(near).failure_limit = 0
        BY <2>2, <2>10, <2>11, <2>12
    <3> HIDE DEF a, b
    <3>6. CASE d \notin {"failure_window", "failure_ban_time"}
      <4>1. Within(d, b, Within(d, a, i0[d])) = Within(d, b, i0[d])
          BY <3>4, <3>6, BoundedOnce, ZenonT(40)
      <4> QED  BY <3>2, <3>3, <4>1, Zenon DEF near
    <3>7. CASE b
      <4>1. Within(d, TRUE, Within(d, a, i0[d])) = Within(d, TRUE, i0[d])
          BY <3>4, BoundedOnce, ZenonT(40)
      <4>2. b = TRUE
          BY <3>4, <3>7
      <4> QED  BY <3>2, <3>3, <4>1, <4>2, Zenon DEF near
    <3>8. CASE d \in {"failure_window", "failure_ban_time"} /\ ~b
        BY <3>5, <3>8, Zenon DEF near
    <3> QED  BY <3>6, <3>7, <3>8, Zenon
  <2> QED  BY <2>13, <2>14, Zenon
<1> QED  BY <1>1, Invariance, PTL

\* A location that serves has a secret, never an empty one, and it is the
\* nearest file's or the random one of the outermost block that has pgp_auth on
\* (merge_loc_conf, load_secret).
THEOREM SecretIsTheNearest == Spec => []SecretInEffect
<1>1. IInv => SecretInEffect
  <2> SUFFICES ASSUME IInv, Serves
               PROVE  LET file == Nearest("secret_file")
                          got == made["location"].secret
                      IN /\ got # Empty
                         /\ got = IF file # Empty THEN LoadSecret(file)
                                  ELSE IF merged["server"].enable = 1
                                     THEN Random["server"]
                                  ELSE Random["location"]
      BY Zenon DEF SecretInEffect
  <2> DEFINE p == merged["server"]
             m == made["server"]
             i0 == Inherit(conf["server"], conf["http"])
             i1 == Inherit(conf["location"], p)
             s0 == Settings(conf["server"], conf["http"])
             s1 == Settings(conf["location"], p)
             file == Nearest("secret_file")
             f == "secret_file"
  <2>1. /\ Said(conf["server"]) /\ Said(conf["http"])
        /\ Said(conf["location"]) /\ pc = "ok" /\ Complete(p)
      BY ServerComplete DEF IInv, TypeInv, Blocks, Serves
  <2>2. /\ f \in (Directives \ Unmerged) \ {"nonce_password"}
        /\ "enable" \in Directives \ {"nonce_password"}
      BY TheDirectives, Zenon DEF Unmerged
  <2>3. s0[f] = i0[f] /\ s1[f] = i1[f]
    <3>1. s0[f] = Within(f, i0["failure_limit"] > 0, i0[f])
        BY <2>1, <2>2, Merged
    <3>2. s1[f] = Within(f, i1["failure_limit"] > 0, i1[f])
        BY <2>1, <2>2, Merged
    <3> QED  BY <3>1, <3>2, SMT DEF Within
  <2>4. p[f] = i0[f] /\ p["enable"] = s0["enable"] /\ s0["enable"] \in {0, 1}
    <3>1. \A e \in Directives \ {"nonce_password"} : p[e] = s0[e]
        BY <2>1, Zenon DEF IInv, ServerInv, InEffect
    <3> QED  BY <2>1, <2>2, <2>3, <3>1, Merged, Zenon DEF Complete
  <2>5. s1["enable"] = 1
    <3>1. \A e \in Directives \ {"nonce_password"} :
             merged["location"][e] = s1[e]
        BY <2>1, Zenon DEF IInv, LocationInv, InEffect
    <3>2. merged["location"]["enable"] = 1
        BY DEF Serves
    <3> QED  BY <2>2, <3>1, <3>2, Zenon
  <2>6. /\ Acceptable(s1, p, m)
        /\ made["location"].secret = Secret("location", s1, p, m)
      BY <2>1, <2>5, Zenon DEF IInv, LocationInv
  <2>7. /\ s0["enable"] = 0 => m.secret = Empty
        /\ s0["enable"] = 1 =>
              /\ m.secret # Empty
              /\ m.secret = IF i0[f] # Empty THEN LoadSecret(i0[f])
                            ELSE Random["server"]
      BY <2>1, <2>3, Zenon DEF IInv, ServerInv
  <2>8. s1[f] = IF conf["location"][f] # Empty THEN conf["location"][f]
                ELSE i0[f]
    <3>1. i1[f] = Inherited(f, conf["location"][f], p[f])
        BY <2>1, <2>2, Merged
    <3>2. Unset(f) = Empty /\ Default[f] = Empty /\ f \notin Unmerged
        BY <2>2, TheDirectives, Zenon
    <3> HIDE DEF s1, i1, i0, p
    <3> QED  BY <2>3, <2>4, <3>1, <3>2, Zenon DEF Inherited
  <2>9. file = s1[f]
    <3>1. Unset(f) = Empty
        BY TheDirectives
    <3> QED  BY <2>1, <2>2, <2>8, <3>1, NearestOf, Zenon
  <2>10. Loads(s1[f], p[f], m.secret) => LoadSecret(s1[f]) # Empty
    <3> HIDE DEF s1, p, m
    <3> QED  BY <2>6 DEF Acceptable
  <2>11. Random["server"] # Empty /\ Random["location"] # Empty
      BY Zenon DEF Random, Empty
  <2>12. made["location"].secret =
            IF s1[f] = p[f] /\ m.secret # Empty THEN m.secret
            ELSE IF s1[f] # Empty THEN LoadSecret(s1[f])
            ELSE Random["location"]
    <3> HIDE DEF s1, p, m
    <3> QED  BY <2>6, Zenon DEF Secret
  <2>13. p.enable = s0["enable"]
      BY <2>4
  <2> HIDE DEF p, m, i0, i1, s0, s1, file
  <2>14. CASE s0["enable"] = 0
    <3>1. m.secret = Empty /\ p.enable # 1
        BY <2>7, <2>13, <2>14
    <3> QED  BY <2>9, <2>10, <2>11, <2>12, <3>1, Zenon DEF Loads, p, file
  <2>15. CASE s0["enable"] = 1 /\ s1[f] = p[f]
      BY <2>4, <2>7, <2>9, <2>12, <2>13, <2>15, Zenon DEF p, file
  <2>16. CASE s0["enable"] = 1 /\ s1[f] # p[f]
    <3>1. s1[f] # Empty
        BY <2>4, <2>8, <2>16, Zenon
    <3> QED  BY <2>9, <2>10, <2>12, <2>16, <3>1, Zenon DEF Loads, file
  <2> QED  BY <2>4, <2>14, <2>15, <2>16, Zenon
<1> QED  BY <1>1, Invariance, PTL
=============================================================================
