-------------------------- MODULE RequestLifeProofs --------------------------
(***************************************************************************)
(* Proofs about gpg_verify and the request that waits for it, for any      *)
(* number of requests, any gpg output, any size of the status buffer, of   *)
(* the pool and of its queue.                                              *)
(*                                                                         *)
(* The invariant is local.  GpgOK says what a call of gpg_verify has open, *)
(* blocked, forked and read at each of its steps.  RequestOK says what its *)
(* request holds meanwhile.  Only the queue relates requests: it holds a   *)
(* task once.                                                              *)
(***************************************************************************)
EXTENDS RequestLife, TLAPS, SequenceTheorems

Lines == {"VALIDSIG", "BADSIG", "OTHER"}

GpgRec ==
    [pc : {"idle", "begin", "home", "message", "written", "piped", "read",
           "wait", "done"},
     main : BOOLEAN, home : {"none", "made", "stuck"},
     fds : SUBSET {"m", "r", "w"},
     masked : BOOLEAN,
     child : {"none", "running", "silent", "dead", "reaped", "stolen"},
     todo : Seq(Lines), pipe : Seq(Lines), out : Seq(Lines),
     cut : {"no", "full", "deadline", "error"},
     rc : {"NONE", "OK", "ERROR"}, valid : BOOLEAN]

ReqRec ==
    [pc : {"new", "body", "sync", "pool", "over"}, count : 0..2,
     blocked : 0..1, timer : BOOLEAN, freed : BOOLEAN, answers : 0..2]

\* The steps of a call before there is a child.
Before == {"idle", "begin", "home", "message", "written", "piped"}

\* A call of gpg_verify: which descriptors it has open at each step, when the
\* mask and the home are there, and that before the fork there is no child.  A
\* child of the main thread is masked until it is reaped; an end of file leaves
\* nothing unread.
GpgOK(g) ==
    /\ g.pc = "idle" => ~g.main
    /\ g.pc \in Before => g.child = "none" /\ g.cut = "no" /\ g.out = << >>
    /\ g.pc \in Before \ {"piped"} => ~g.masked
    /\ g.pc \in {"idle", "begin"} => g.home = "none"
    /\ g.pc = "message" => g.fds = {"m"}
    /\ g.pc = "piped" => g.fds = {"r", "w"} /\ g.masked
    /\ g.pc = "read" => /\ g.fds = {"r"} /\ g.cut = "no"
                        /\ Len(g.out) < Buffer
    /\ g.pc \notin {"message", "piped", "read"} => g.fds = {}
    /\ g.pc # "read" => (g.cut = "no" => g.pipe = << >>)
    /\ g.pc = "done" => /\ g.home # "made" /\ ~g.masked
                        /\ g.child \in {"none", "reaped", "stolen"}
    /\ g.main => /\ g.child # "stolen"
                 /\ g.masked \/ g.child \in {"none", "reaped"}
    /\ g.valid => /\ g.pc = "done" /\ g.cut # "full"
                  /\ "BADSIG" \notin Range(g.out)

\* A request, its gpg_verify, and whether its task waits in the queue.
RequestOK(q, g, waits) ==
    /\ q.timer => q.pc = "pool"
    /\ q.blocked = IF q.pc = "pool" THEN 1 ELSE 0
    /\ q.pc = "over" => q.answers = 1
    /\ q.pc # "over" => /\ q.answers = 0 /\ ~q.freed
                        /\ q.count = IF q.pc = "new" THEN 1 ELSE 2
    /\ waits => q.pc = "pool" /\ g.pc = "idle"
    /\ q.pc = "pool" /\ ~waits => g.pc # "idle" /\ ~g.main
    /\ q.pc = "sync" => g.pc # "idle" /\ g.main
    /\ q.pc \notin {"pool", "sync"} => g.pc = "idle"

Waits(r) == r \in Range(queue)

GpgInv == gpg \in [Jobs -> GpgRec] /\ \A j \in Jobs : GpgOK(gpg[j])

RequestInv ==
    /\ req \in [Requests -> ReqRec]
    /\ \A r \in Requests : RequestOK(req[r], gpg[r], Waits(r))

QueueInv ==
    /\ queue \in Seq(Requests)
    /\ \A i, k \in DOMAIN queue : queue[i] = queue[k] => i = k

IInv == GpgInv /\ RequestInv /\ QueueInv

-----------------------------------------------------------------------------
(* The steps of a call and of its child.                                   *)

\* A step of j's call or child keeps the call on its thread.
GpgMoves(j) ==
    /\ gpg' \in [Jobs -> GpgRec]
    /\ \A i \in Jobs \ {j} : gpg'[i] = gpg[i]
    /\ GpgOK(gpg'[j])
    /\ gpg[j].pc # "idle" /\ gpg'[j].pc # "idle"
    /\ gpg'[j].main = gpg[j].main

\* What the status pipe held is read as far as the buffer goes.
LEMMA Chunk ==
    ASSUME NEW out \in Seq(Lines), NEW pipe \in Seq(Lines),
           Len(out) < Buffer
    PROVE  LET n == IF Len(pipe) < Buffer - Len(out) THEN Len(pipe)
                    ELSE Buffer - Len(out)
           IN /\ out \o SubSeq(pipe, 1, n) \in Seq(Lines)
              /\ SubSeq(pipe, n + 1, Len(pipe)) \in Seq(Lines)
<1> DEFINE n == IF Len(pipe) < Buffer - Len(out) THEN Len(pipe)
                ELSE Buffer - Len(out)
<1>1. n \in 0..Len(pipe)
  BY GpgAssumption
<1> HIDE DEF n
<1>2. SubSeq(pipe, 1, n) \in Seq(Lines)
  BY <1>1, SubSeqProperties
<1>3. SubSeq(pipe, n + 1, Len(pipe)) \in Seq(Lines)
  BY <1>1, SubSeqProperties
<1> QED BY <1>2, <1>3, ConcatProperties, Zenon DEF n

\* The end of the read loop: the child may be killed, and waitpid is next.
LEMMA Stopped ==
    ASSUME NEW g \in GpgRec, NEW cut \in {"no", "full", "deadline", "error"},
           NEW h, h = Stop(g, cut) \/ h = Stop(Killed(g), cut),
           cut = "no" => g.pipe = << >>, ~g.valid, g.fds = {"r"},
           g.main => /\ g.child # "stolen"
                     /\ g.masked \/ g.child \in {"none", "reaped"}
    PROVE  /\ h \in GpgRec /\ GpgOK(h)
           /\ h.pc = "wait" /\ h.main = g.main
<1> DEFINE none == << >>
           k == [g EXCEPT !.child = IF @ \in {"running", "silent"} THEN "dead"
                                    ELSE @, !.todo = none]
<1>1. none \in Seq(Lines)
  OBVIOUS
<1>2. Killed(g) = k
  BY Zenon DEF Killed
<1> HIDE DEF none
<1>3. /\ k \in GpgRec /\ k.main = g.main /\ k.masked = g.masked
      /\ k.pipe = g.pipe /\ k.valid = g.valid /\ k.fds = g.fds
      /\ \/ k.child = g.child
         \/ k.child = "dead" /\ g.child \in {"running", "silent"}
  BY <1>1, Zenon DEF GpgRec
<1> HIDE DEF k
<1>4. ASSUME NEW f \in GpgRec, f.fds = {"r"}
      PROVE  /\ Stop(f, cut) \in GpgRec /\ Stop(f, cut).pc = "wait"
             /\ Stop(f, cut).main = f.main /\ Stop(f, cut).masked = f.masked
             /\ Stop(f, cut).pipe = f.pipe /\ Stop(f, cut).valid = f.valid
             /\ Stop(f, cut).child = f.child /\ Stop(f, cut).fds = {}
             /\ Stop(f, cut).cut = cut
  <2> DEFINE closed == f.fds \ {"r"}
             s == [f EXCEPT !.pc = "wait", !.fds = closed, !.cut = cut]
  <2>1. closed = {} /\ closed \in SUBSET {"m", "r", "w"}
    BY <1>4, Zenon
  <2>2. Stop(f, cut) = s
    BY Zenon DEF Stop
  <2> HIDE DEF closed
  <2>3. /\ s \in GpgRec /\ s.pc = "wait" /\ s.main = f.main
        /\ s.masked = f.masked /\ s.pipe = f.pipe /\ s.valid = f.valid
        /\ s.child = f.child /\ s.fds = closed /\ s.cut = cut
    BY <1>4, <2>1, ZenonT(40) DEF GpgRec
  <2> QED BY <2>1, <2>2, <2>3, Zenon
<1>5. /\ h \in GpgRec /\ h.pc = "wait" /\ h.main = g.main
      /\ h.masked = g.masked /\ h.pipe = g.pipe /\ h.valid = g.valid
      /\ \/ h.child = g.child
         \/ h.child = "dead" /\ g.child \in {"running", "silent"}
      /\ h.fds = {} /\ h.cut = cut
  <2>1. CASE h = Stop(g, cut)
    BY <1>4, <2>1, Zenon
  <2>2. CASE h = Stop(k, cut)
    BY <1>3, <1>4, <2>2, Zenon
  <2> QED BY <1>2, <2>1, <2>2, Zenon
<1> QED BY <1>5, Zenon DEF GpgOK, Before

\* A call that fails returns with what it had before the fork.
LEMMA Failed ==
    ASSUME NEW g \in GpgRec, GpgOK(g), g.pc \in Before, g.pc # "idle",
           NEW f \in {g.fds, {}}, NEW m \in {g.masked, FALSE},
           NEW left \in {"none", "stuck"}, f = {}, ~m,
           NEW h, h = [g EXCEPT !.pc = "done", !.rc = "ERROR", !.fds = f,
                                !.masked = m, !.home = left]
    PROVE  h \in GpgRec /\ GpgOK(h) /\ h.pc = "done" /\ h.main = g.main
<1>1. f \in SUBSET {"m", "r", "w"} /\ m \in BOOLEAN
  BY Zenon DEF GpgRec
<1>2. /\ h \in GpgRec /\ h.pc = "done" /\ h.main = g.main
      /\ h.home = left /\ h.fds = f /\ h.masked = m /\ h.child = g.child
      /\ h.pipe = g.pipe /\ h.out = g.out /\ h.cut = g.cut
      /\ h.valid = g.valid
  BY <1>1, ZenonT(40) DEF GpgRec
<1>3. /\ g.child = "none" /\ ~g.valid
      /\ g.cut = "no" => g.pipe = << >>
  BY Zenon DEF GpgOK, Before
<1> QED BY <1>2, <1>3, ZenonT(40) DEF GpgOK, Before

\* What Finish makes of a call.
Result(g, fits, left) ==
    Return(Cleanup(
        [g EXCEPT !.child = IF g.child = "dead" THEN "reaped" ELSE g.child,
                  !.masked = FALSE,
                  !.valid = Parse(g.out) /\ g.cut # "full" /\ fits],
        left), "OK")

\* The child's verdict is read, and the call returns.
LEMMA Finished ==
    ASSUME NEW g \in GpgRec, GpgOK(g), g.pc = "wait",
           g.child \in {"dead", "stolen"}, NEW fits \in BOOLEAN,
           NEW left \in Leftovers
    PROVE  /\ Result(g, fits, left) \in GpgRec
           /\ GpgOK(Result(g, fits, left))
           /\ Result(g, fits, left).pc = "done"
           /\ Result(g, fits, left).main = g.main
<1> DEFINE v == Parse(g.out) /\ g.cut # "full" /\ fits
           c == IF g.child = "dead" THEN "reaped" ELSE g.child
           k == [g EXCEPT !.child = c, !.masked = FALSE, !.valid = v]
           h == [k EXCEPT !.pc = "done", !.rc = "OK", !.home = left]
<1>1. v \in BOOLEAN /\ (v => g.cut # "full" /\ "BADSIG" \notin Range(g.out))
  BY Zenon DEF Parse
<1>2. c \in {"reaped", "stolen"} /\ (g.child # "stolen" => c # "stolen")
  BY Zenon
<1> HIDE DEF v, c
<1>3. /\ k \in GpgRec /\ k.main = g.main /\ k.fds = g.fds
      /\ k.masked = FALSE /\ k.child = c /\ k.pipe = g.pipe
      /\ k.out = g.out /\ k.cut = g.cut /\ k.valid = v
  BY <1>1, <1>2, ZenonT(40) DEF GpgRec
<1> HIDE DEF k
<1>4. /\ h \in GpgRec /\ h.pc = "done" /\ h.home = left
      /\ h.main = k.main /\ h.fds = k.fds
      /\ h.masked = k.masked /\ h.child = k.child /\ h.pipe = k.pipe
      /\ h.out = k.out /\ h.cut = k.cut /\ h.valid = k.valid
  BY <1>3, ZenonT(40) DEF GpgRec, Leftovers
<1>5. Result(g, fits, left) = h
  <2>1. Result(g, fits, left) = Return(Cleanup(k, left), "OK")
    BY Zenon DEF Result, k, c, v
  <2>2. Return(Cleanup(k, left), "OK") = h
    BY <1>3, ZenonT(40) DEF Return, Cleanup, GpgRec
  <2> QED BY <2>1, <2>2, Zenon
<1> HIDE DEF h
<1>6. left # "made" /\ ~h.masked /\ h.fds = {}
  BY <1>3, <1>4, Zenon DEF Leftovers, GpgOK
<1>7. GpgOK(h)
  BY <1>1, <1>2, <1>3, <1>4, <1>6, ZenonT(40) DEF GpgOK, Before
<1> QED BY <1>3, <1>4, <1>5, <1>7, Zenon

\* Each step of gpg_verify is such a step.
LEMMA GpgStepMoves ==
    ASSUME GpgInv, NEW j \in Jobs, GpgStep(j)
    PROVE  GpgMoves(j)
<1> DEFINE g == gpg[j]
<1>0. g \in GpgRec /\ GpgOK(g)
  BY Zenon DEF GpgInv
<1>r. ASSUME NEW h \in GpgRec, GpgOK(h), gpg' = [gpg EXCEPT ![j] = h],
             g.pc # "idle", h.pc # "idle", h.main = g.main
      PROVE  GpgMoves(j)
  BY <1>r, Zenon DEF GpgInv, GpgMoves
<1> HIDE DEF g
<1>f. ASSUME NEW f \in {g.fds, {}}, NEW m \in {g.masked, FALSE},
             NEW left \in {"none", "stuck"}, f = {}, ~m,
             g.pc \in Before, g.pc # "idle",
             gpg' = [gpg EXCEPT ![j] =
                [g EXCEPT !.pc = "done", !.rc = "ERROR", !.fds = f,
                          !.masked = m, !.home = left]]
      PROVE  GpgMoves(j)
  BY <1>0, <1>f, <1>r, Failed, ZenonT(40)
<1>1. CASE MakeHome(j) \/ OpenMessage(j) \/ WriteMessage(j) \/ OpenPipe(j)
  <2>1. PICK pc \in Before, home \in {g.home, "made"},
             fds \in SUBSET {"m", "r", "w"}, masked \in BOOLEAN :
           /\ gpg' = [gpg EXCEPT ![j] = [g EXCEPT !.pc = pc, !.home = home,
                                            !.fds = fds, !.masked = masked]]
           /\ g.pc \in Before /\ g.pc # "idle" /\ pc \notin {"idle", "begin"}
           /\ pc = "message" => fds = {"m"}
           /\ pc = "piped" => fds = {"r", "w"}
           /\ pc \notin {"message", "piped"} => fds = {}
           /\ masked <=> pc = "piped"
    <3>1. CASE MakeHome(j)
      <4>1. /\ g.pc = "begin"
            /\ gpg' = [gpg EXCEPT ![j] =
                  [g EXCEPT !.pc = "home", !.home = "made", !.fds = g.fds,
                            !.masked = g.masked]]
        BY <1>0, <3>1, ZenonT(40) DEF MakeHome, GpgInv, GpgAt, GpgRec, g
      <4>2. g.fds = {} /\ ~g.masked /\ g.masked \in BOOLEAN
        BY <1>0, <4>1, Zenon DEF GpgOK, GpgRec, Before
      <4> QED BY <4>1, <4>2, ZenonT(40) DEF Before
    <3>2. CASE OpenMessage(j)
      <4>1. /\ g.pc = "home"
            /\ gpg' = [gpg EXCEPT ![j] =
                  [g EXCEPT !.pc = "message", !.home = g.home,
                            !.fds = g.fds \cup {"m"}, !.masked = g.masked]]
        BY <1>0, <3>2, ZenonT(40) DEF OpenMessage, GpgInv, GpgAt, GpgRec, g
      <4>2. g.fds \cup {"m"} = {"m"} /\ ~g.masked /\ g.masked \in BOOLEAN
        BY <1>0, <4>1, Zenon DEF GpgOK, GpgRec, Before
      <4> QED BY <4>1, <4>2, ZenonT(40) DEF Before
    <3>3. CASE WriteMessage(j)
      <4>1. /\ g.pc = "message"
            /\ gpg' = [gpg EXCEPT ![j] =
                  [g EXCEPT !.pc = "written", !.home = g.home,
                            !.fds = g.fds \ {"m"}, !.masked = g.masked]]
        BY <1>0, <3>3, ZenonT(40) DEF WriteMessage, GpgInv, GpgAt, GpgRec, g
      <4>2. g.fds \ {"m"} = {} /\ ~g.masked /\ g.masked \in BOOLEAN
        BY <1>0, <4>1, Zenon DEF GpgOK, GpgRec, Before
      <4> QED BY <4>1, <4>2, ZenonT(40) DEF Before
    <3>4. CASE OpenPipe(j)
      <4>1. /\ g.pc = "written"
            /\ gpg' = [gpg EXCEPT ![j] =
                  [g EXCEPT !.pc = "piped", !.home = g.home,
                            !.fds = g.fds \cup {"r", "w"}, !.masked = TRUE]]
        BY <1>0, <3>4, ZenonT(40) DEF OpenPipe, GpgInv, GpgAt, GpgRec, g
      <4>2. g.fds \cup {"r", "w"} = {"r", "w"}
        BY <1>0, <4>1, Zenon DEF GpgOK
      <4> QED BY <4>1, <4>2, ZenonT(40) DEF Before
    <3> QED BY <1>1, <3>1, <3>2, <3>3, <3>4, Zenon
  <2> DEFINE h == [g EXCEPT !.pc = pc, !.home = home, !.fds = fds,
                            !.masked = masked]
  <2>2. /\ h \in GpgRec /\ h.pc = pc /\ h.main = g.main /\ h.home = home
        /\ h.fds = fds /\ h.masked = masked /\ h.child = g.child
        /\ h.pipe = g.pipe /\ h.out = g.out /\ h.cut = g.cut
        /\ h.valid = g.valid
    BY <1>0, <2>1, ZenonT(40) DEF GpgRec, Before
  <2>3. gpg' = [gpg EXCEPT ![j] = h]
    BY <2>1, Zenon
  <2> HIDE DEF h
  <2>4. /\ g.child = "none" /\ ~g.valid /\ g.cut = "no" /\ g.out = << >>
        /\ g.pipe = << >>
    BY <1>0, <2>1, Zenon DEF GpgOK, Before
  <2>5. GpgOK(h)
    BY <2>1, <2>2, <2>4, ZenonT(40) DEF GpgOK, Before
  <2> QED BY <1>r, <2>1, <2>2, <2>3, <2>5, Zenon
<1>2. CASE \/ MakeHomeFails(j) \/ OpenMessageFails(j) \/ WriteMessageFails(j)
           \/ OpenPipeFails(j) \/ ForkFails(j)
  <2>1. CASE MakeHomeFails(j)
    <3>1. /\ g.pc = "begin"
          /\ gpg' = [gpg EXCEPT ![j] =
                [g EXCEPT !.pc = "done", !.rc = "ERROR", !.fds = g.fds,
                          !.masked = g.masked, !.home = g.home]]
      BY <1>0, <2>1, ZenonT(40) DEF MakeHomeFails, Return, GpgAt, GpgRec, g
    <3>2. g.fds = {} /\ ~g.masked /\ g.home = "none"
      BY <1>0, <3>1, Zenon DEF GpgOK, Before
    <3> QED BY <1>f, <3>1, <3>2, Zenon DEF Before
  <2>2. CASE OpenMessageFails(j) \/ OpenPipeFails(j)
    <3>1. PICK left \in {"none", "stuck"} :
             gpg' = [gpg EXCEPT ![j] = Return(Cleanup(g, left), "ERROR")]
      BY <2>2, Zenon DEF OpenMessageFails, OpenPipeFails, Leftovers, g
    <3>2. g.pc \in {"home", "written"}
      BY <2>2, Zenon DEF OpenMessageFails, OpenPipeFails, GpgAt, g
    <3>3. Return(Cleanup(g, left), "ERROR") =
             [g EXCEPT !.pc = "done", !.rc = "ERROR", !.fds = g.fds,
                       !.masked = g.masked, !.home = left]
      BY <1>0, ZenonT(40) DEF Return, Cleanup, GpgRec
    <3>4. g.fds = {} /\ ~g.masked
      BY <1>0, <3>2, Zenon DEF GpgOK, Before
    <3> QED BY <1>f, <3>1, <3>2, <3>3, <3>4, Zenon DEF Before
  <2>3. CASE WriteMessageFails(j)
    <3> DEFINE f == g.fds \ {"m"}
               k == [g EXCEPT !.fds = f]
    <3>1. PICK left \in {"none", "stuck"} :
             gpg' = [gpg EXCEPT ![j] = Return(Cleanup(k, left), "ERROR")]
      BY <2>3, Zenon DEF WriteMessageFails, Leftovers, g
    <3>2. g.pc = "message"
      BY <2>3, Zenon DEF WriteMessageFails, GpgAt, g
    <3>3. f = {} /\ ~g.masked
      BY <1>0, <3>2, Zenon DEF GpgOK, Before
    <3> HIDE DEF f
    <3>4. Return(Cleanup(k, left), "ERROR") =
             [g EXCEPT !.pc = "done", !.rc = "ERROR", !.fds = f,
                       !.masked = g.masked, !.home = left]
      BY <1>0, ZenonT(40) DEF Return, Cleanup, GpgRec
    <3> QED BY <1>f, <3>1, <3>2, <3>3, <3>4, Zenon DEF Before
  <2>4. CASE ForkFails(j)
    <3> DEFINE f == g.fds \ {"r", "w"}
               k == [g EXCEPT !.masked = FALSE, !.fds = f]
    <3>1. PICK left \in {"none", "stuck"} :
             gpg' = [gpg EXCEPT ![j] = Return(Cleanup(k, left), "ERROR")]
      BY <2>4, Zenon DEF ForkFails, Leftovers, g
    <3>2. g.pc = "piped"
      BY <2>4, Zenon DEF ForkFails, GpgAt, g
    <3>3. f = {}
      BY <1>0, <3>2, Zenon DEF GpgOK
    <3> HIDE DEF f
    <3>4. Return(Cleanup(k, left), "ERROR") =
             [g EXCEPT !.pc = "done", !.rc = "ERROR", !.fds = f,
                       !.masked = FALSE, !.home = left]
      BY <1>0, ZenonT(40) DEF Return, Cleanup, GpgRec
    <3> QED BY <1>f, <3>1, <3>2, <3>3, <3>4, Zenon DEF Before
  <2> QED BY <1>2, <2>1, <2>2, <2>3, <2>4, Zenon
<1>3. CASE Fork(j)
  <2> DEFINE f == g.fds \ {"w"}
  <2>1. PICK script \in Scripts :
           gpg' = [gpg EXCEPT ![j] = [g EXCEPT !.pc = "read", !.fds = f,
                                         !.child = "running", !.todo = script]]
    BY <1>3, ZenonT(40) DEF GpgInv, Fork, g
  <2>2. g.pc = "piped"
    BY <1>3, Zenon DEF Fork, GpgAt, g
  <2> DEFINE h == [g EXCEPT !.pc = "read", !.fds = f,
                            !.child = "running", !.todo = script]
  <2>3. script \in Seq(Lines) /\ f = {"r"}
    BY <1>0, <2>2, GpgAssumption, Zenon DEF Lines, GpgOK
  <2>f. f \in SUBSET {"m", "r", "w"}
    BY <2>3, Zenon
  <2> HIDE DEF f
  <2>4. /\ h \in GpgRec /\ h.pc = "read" /\ h.main = g.main /\ h.fds = f
        /\ h.masked = g.masked /\ h.out = g.out /\ h.cut = g.cut
        /\ h.valid = g.valid /\ h.child = "running"
    BY <1>0, <2>3, <2>f, ZenonT(40) DEF GpgRec
  <2>h. gpg' = [gpg EXCEPT ![j] = h]
    BY <2>1, Zenon
  <2> HIDE DEF h
  <2>5. /\ g.out = << >> /\ g.cut = "no" /\ ~g.valid /\ g.masked
    BY <1>0, <2>2, Zenon DEF GpgOK, Before
  <2>6. Len(h.out) < Buffer
    BY <2>4, <2>5, GpgAssumption
  <2>7. GpgOK(h)
    BY <2>3, <2>4, <2>5, <2>6, ZenonT(40) DEF GpgOK, Before
  <2> QED BY <1>r, <2>2, <2>4, <2>7, <2>h, ZenonT(40)
<1>4. CASE ReadStatus(j)
  <2> DEFINE n == IF Len(g.pipe) < Buffer - Len(g.out) THEN Len(g.pipe)
                  ELSE Buffer - Len(g.out)
             o == g.out \o SubSeq(g.pipe, 1, n)
             p == SubSeq(g.pipe, n + 1, Len(g.pipe))
             got == [g EXCEPT !.out = o, !.pipe = p]
             h == IF Len(got.out) >= Buffer THEN Stop(Killed(got), "full")
                  ELSE got
  <2>1. gpg' = [gpg EXCEPT ![j] = h] /\ g.pc = "read"
    BY <1>4, Zenon DEF ReadStatus, GpgAt, g
  <2>2. o \in Seq(Lines) /\ p \in Seq(Lines)
    BY <1>0, <2>1, Chunk, Zenon DEF GpgOK, GpgRec
  <2> HIDE DEF o, p
  <2>3. /\ got \in GpgRec /\ got.pc = "read" /\ got.out = o
        /\ got.main = g.main /\ got.child = g.child /\ got.masked = g.masked
        /\ got.cut = g.cut /\ got.valid = g.valid /\ got.fds = g.fds
    BY <1>0, <2>1, <2>2, Zenon DEF GpgRec
  <2> HIDE DEF got
  <2>4. CASE Len(got.out) >= Buffer
    <3>1. h = Stop(Killed(got), "full")
      BY <2>4, Zenon
    <3> HIDE DEF h
    <3>2. h \in GpgRec /\ GpgOK(h) /\ h.pc = "wait" /\ h.main = got.main
      <4>1. /\ ~got.valid /\ got.fds = {"r"}
            /\ got.main => /\ got.child # "stolen"
                           /\ got.masked \/ got.child \in {"none", "reaped"}
        BY <1>0, <2>1, <2>3, Zenon DEF GpgOK
      <4> QED BY <2>3, <3>1, <4>1, Stopped, ZenonT(40)
    <3> QED BY <1>r, <2>1, <2>3, <3>2, Zenon
  <2>5. CASE ~(Len(got.out) >= Buffer)
    <3>1. h = got
      BY <2>5, Zenon
    <3>2. Len(got.out) < Buffer
      BY <2>2, <2>3, <2>5, GpgAssumption
    <3> HIDE DEF h
    <3>3. GpgOK(h)
      BY <1>0, <2>1, <2>3, <3>1, <3>2, ZenonT(60) DEF GpgOK, Before
    <3> QED BY <1>r, <2>1, <2>3, <3>1, <3>3, ZenonT(40)
  <2> QED BY <2>4, <2>5, Zenon
<1>5. CASE ReadEnds(j) \/ Deadline(j) \/ ReadFails(j)
  <2>1. PICK h : /\ gpg' = [gpg EXCEPT ![j] = h]
                 /\ \E cut \in {"no", "deadline", "error"} :
                       /\ h = Stop(g, cut) \/ h = Stop(Killed(g), cut)
                       /\ cut = "no" => g.pipe = << >>
    BY <1>5, Zenon DEF ReadEnds, Deadline, ReadFails, g
  <2>2. g.pc = "read"
    BY <1>5, Zenon DEF ReadEnds, Deadline, ReadFails, GpgAt, g
  <2>3. h \in GpgRec /\ GpgOK(h) /\ h.pc = "wait" /\ h.main = g.main
    <3>1. /\ ~g.valid /\ g.fds = {"r"}
          /\ g.main => /\ g.child # "stolen"
                       /\ g.masked \/ g.child \in {"none", "reaped"}
      BY <1>0, <2>2, Zenon DEF GpgOK
    <3> QED BY <1>0, <2>1, <3>1, Stopped
  <2> QED BY <1>r, <2>1, <2>2, <2>3, Zenon
<1>6. CASE Finish(j)
  <2>1. PICK fits \in BOOLEAN, left \in Leftovers :
           gpg' = [gpg EXCEPT ![j] = Result(gpg[j], fits, left)]
    BY <1>6, Zenon DEF Finish, Result
  <2> DEFINE h == Result(g, fits, left)
  <2>2. gpg' = [gpg EXCEPT ![j] = h]
    BY <2>1, Zenon DEF g
  <2>3. g.pc = "wait" /\ g.child \in {"dead", "stolen"}
    BY <1>6, Zenon DEF Finish, GpgAt, g
  <2>4. h \in GpgRec /\ GpgOK(h) /\ h.pc = "done" /\ h.main = g.main
    BY <1>0, <2>3, Finished, Zenon
  <2> HIDE DEF h
  <2> QED BY <1>r, <2>2, <2>3, <2>4, Zenon
<1> QED BY <1>1, <1>2, <1>3, <1>4, <1>5, <1>6, Zenon DEF GpgStep

\* So is each step of the child and of nginx's SIGCHLD handler.  There is a
\* child only while its call reads or waits, and the pipe is open only while
\* it reads.
LEMMA ChildStepMoves ==
    ASSUME GpgInv, NEW j \in Jobs, ChildStep(j)
    PROVE  GpgMoves(j)
<1> DEFINE g == gpg[j]
<1>0. g \in GpgRec /\ GpgOK(g)
  BY DEF GpgInv
<1>r. ASSUME NEW h \in GpgRec, GpgOK(h), gpg' = [gpg EXCEPT ![j] = h],
             g.pc # "idle", h.pc # "idle", h.main = g.main
      PROVE  GpgMoves(j)
  BY <1>r DEF GpgInv, GpgMoves
<1> HIDE DEF g
<1>1. CASE ChildWrites(j)
  <2> DEFINE p == Append(g.pipe, Head(g.todo))
             t == Tail(g.todo)
             h == [g EXCEPT !.pipe = p, !.todo = t]
  <2>1. gpg' = [gpg EXCEPT ![j] = h]
    BY <1>1, Zenon DEF ChildWrites, GpgInv, g
  <2>2. g.pc = "read" /\ g.todo # << >>
    BY <1>0, <1>1, Zenon DEF ChildWrites, GpgOK, Before, g
  <2>3. p \in Seq(Lines) /\ t \in Seq(Lines)
    BY <1>0, <2>2 DEF GpgRec
  <2> HIDE DEF p, t
  <2>4. /\ h \in GpgRec /\ h.pc = g.pc /\ h.main = g.main
        /\ h.masked = g.masked /\ h.out = g.out /\ h.cut = g.cut
        /\ h.valid = g.valid /\ h.child = g.child /\ h.fds = g.fds
    BY <1>0, <2>3, Zenon DEF GpgRec
  <2> HIDE DEF h
  <2>5. GpgOK(h)
    BY <1>0, <2>2, <2>4, ZenonT(40) DEF GpgOK, Before
  <2> QED BY <1>r, <2>1, <2>2, <2>4, <2>5, ZenonT(40)
<1>2. CASE ~ChildWrites(j)
  <2> DEFINE none == << >>
  <2>0. none \in Seq(Lines)
    OBVIOUS
  <2> HIDE DEF none
  <2>1. \E child \in {"silent", "dead", "stolen"}, todo \in {g.todo, none} :
           /\ gpg' = [gpg EXCEPT ![j] = [g EXCEPT !.child = child,
                                                  !.todo = todo]]
           /\ child = "stolen" => ~(g.main /\ g.masked)
    <3>1. CASE ChildFallsSilent(j)
      BY <1>0, <3>1, Zenon DEF ChildFallsSilent, GpgInv, GpgRec, g
    <3>2. CASE ChildExits(j)
      BY <3>2, Zenon DEF ChildExits, GpgInv, g, none
    <3>3. CASE NginxReaps(j)
      BY <1>0, <3>3, ZenonT(40) DEF NginxReaps, MainMasked, GpgInv, GpgRec, g
    <3> QED BY <1>2, <3>1, <3>2, <3>3, Zenon DEF ChildStep
  <2>2. g.child \in {"running", "silent", "dead"}
    BY <1>2, Zenon DEF ChildStep, ChildFallsSilent, ChildExits, NginxReaps,
       Alive, g
  <2>3. PICK child \in {"silent", "dead", "stolen"}, todo \in {g.todo, none} :
           /\ gpg' = [gpg EXCEPT ![j] = [g EXCEPT !.child = child,
                                                  !.todo = todo]]
           /\ child = "stolen" => ~(g.main /\ g.masked)
    BY <2>1, Zenon
  <2> DEFINE h == [g EXCEPT !.child = child, !.todo = todo]
  <2>4. /\ h \in GpgRec /\ h.pc = g.pc /\ h.main = g.main
        /\ h.home = g.home /\ h.fds = g.fds /\ h.masked = g.masked
        /\ h.pipe = g.pipe /\ h.out = g.out /\ h.cut = g.cut
        /\ h.valid = g.valid /\ h.child = child
    BY <1>0, <2>0, ZenonT(40) DEF GpgRec
  <2>5. gpg' = [gpg EXCEPT ![j] = h]
    BY <2>3, Zenon
  <2> HIDE DEF h
  <2>6. GpgOK(h) /\ g.pc # "idle"
    BY <1>0, <2>2, <2>3, <2>4, ZenonT(40) DEF GpgOK, Before
  <2> QED BY <1>r, <2>4, <2>5, <2>6, Zenon
<1> QED BY <1>1, <1>2, Zenon

\* Such a step preserves the invariant: the request sees only that its call is
\* still on the same thread.
LEMMA GpgMovesKeeps ==
    ASSUME IInv, NEW j \in Jobs, GpgMoves(j), UNCHANGED <<req, queue>>
    PROVE  IInv'
<1>1. GpgInv'
  BY Zenon DEF IInv, GpgInv, GpgMoves
<1>2. ASSUME NEW r \in Requests
      PROVE  RequestOK(req[r], gpg[r], Waits(r))'
  <2>1. RequestOK(req[r], gpg[r], Waits(r)) /\ (Waits(r)' <=> Waits(r))
    BY Zenon DEF IInv, RequestInv, Waits
  <2>2. /\ gpg'[r].pc = "idle" <=> gpg[r].pc = "idle"
        /\ gpg'[r].main = gpg[r].main
    BY Zenon DEF GpgMoves, Requests
  <2> QED BY <2>1, <2>2, Zenon DEF RequestOK
<1> QED BY <1>1, <1>2, Zenon DEF IInv, RequestInv, QueueInv

-----------------------------------------------------------------------------
(* The steps of a request.                                                 *)

\* A record before, and at the start of, a call.
LEMMA Fresh ==
    /\ NoCall \in GpgRec /\ GpgOK(NoCall) /\ NoCall.pc = "idle"
    /\ ~NoCall.main
    /\ \A main \in BOOLEAN :
          /\ Call(main) \in GpgRec /\ GpgOK(Call(main))
          /\ Call(main).pc = "begin" /\ Call(main).main = main
<1> DEFINE none == << >>
<1>1. none \in Seq(Lines)
  OBVIOUS
<1>2. NoCall =
        [pc |-> "idle", main |-> FALSE, home |-> "none", fds |-> {},
         masked |-> FALSE, child |-> "none", todo |-> none, pipe |-> none,
         out |-> none, cut |-> "no", rc |-> "NONE", valid |-> FALSE]
  BY Zenon DEF NoCall
<1> HIDE DEF none
<1>3. /\ NoCall \in GpgRec /\ NoCall.pc = "idle" /\ NoCall.main = FALSE
      /\ NoCall.home = "none" /\ NoCall.fds = {} /\ NoCall.masked = FALSE
      /\ NoCall.child = "none" /\ NoCall.pipe = none /\ NoCall.out = none
      /\ NoCall.cut = "no" /\ NoCall.valid = FALSE
  BY <1>1, <1>2, Zenon DEF GpgRec
<1>4. GpgOK(NoCall)
  BY <1>3, Zenon DEF GpgOK, none
<1>5. ASSUME NEW main \in BOOLEAN
      PROVE  /\ Call(main) \in GpgRec /\ GpgOK(Call(main))
             /\ Call(main).pc = "begin" /\ Call(main).main = main
  <2> DEFINE h == [NoCall EXCEPT !.pc = "begin", !.main = main]
  <2>1. /\ h \in GpgRec /\ h.pc = "begin" /\ h.main = main
        /\ h.home = NoCall.home /\ h.fds = NoCall.fds
        /\ h.masked = NoCall.masked /\ h.child = NoCall.child
        /\ h.pipe = NoCall.pipe /\ h.out = NoCall.out
        /\ h.cut = NoCall.cut /\ h.valid = NoCall.valid
    BY <1>3, Zenon DEF GpgRec
  <2> HIDE DEF h
  <2>2. GpgOK(h)
    BY <1>3, <2>1, Zenon DEF GpgOK, none
  <2> QED BY <2>1, <2>2, Zenon DEF h, Call
<1> QED BY <1>3, <1>4, <1>5, Zenon

\* The invariant after a step that changes only what r has.
LEMMA OneRequest ==
    ASSUME IInv, NEW r \in Requests,
           NEW q \in ReqRec, req' = [req EXCEPT ![r] = q],
           NEW g \in GpgRec, gpg' = [gpg EXCEPT ![r] = g], GpgOK(g),
           RequestOK(q, g, Waits(r)'), QueueInv',
           \A e \in Requests \ {r} : Waits(e)' <=> Waits(e)
    PROVE  IInv'
<1>1. /\ gpg' \in [Jobs -> GpgRec] /\ req' \in [Requests -> ReqRec]
      /\ gpg'[r] = g /\ req'[r] = q
      /\ \A e \in Requests \ {r} : gpg'[e] = gpg[e] /\ req'[e] = req[e]
  BY Zenon DEF IInv, GpgInv, RequestInv, Requests
<1>2. GpgInv'
  BY <1>1, Zenon DEF IInv, GpgInv, Requests
<1>3. ASSUME NEW e \in Requests
      PROVE  RequestOK(req[e], gpg[e], Waits(e))'
  <2>1. CASE e = r
    BY <1>1, <2>1, Zenon
  <2>2. CASE e # r
    <3>1. RequestOK(req[e], gpg[e], Waits(e))
      BY Zenon DEF IInv, RequestInv
    <3>2. gpg'[e] = gpg[e] /\ req'[e] = req[e] /\ (Waits(e)' <=> Waits(e))
      BY <1>1, <2>2, Zenon
    <3> QED BY <3>1, <3>2, ZenonT(40) DEF RequestOK
  <2> QED BY <2>1, <2>2, Zenon
<1> QED BY <1>1, <1>2, <1>3, Zenon DEF IInv, RequestInv

\* ngx_http_finalize_request answers a request that is not pinned.
LEMMA FinalizedOnce ==
    ASSUME NEW q \in ReqRec, q.count \in 1..2, q.blocked = 0, ~q.timer,
           q.answers = 0, NEW gone \in BOOLEAN
    PROVE  /\ Finalized(q, gone) \in ReqRec
           /\ \A g : g.pc = "idle"
                 => RequestOK(Finalized(q, gone), g, FALSE)
<1> DEFINE left == IF gone THEN 0 ELSE q.count - 1
           free == left = 0 /\ q.blocked = 0
           one == q.answers + 1
           h == [q EXCEPT !.pc = "over", !.count = left, !.answers = one,
                          !.freed = free]
<1>1. left \in 0..2 /\ free \in BOOLEAN /\ one = 1 /\ one \in 0..2
  OBVIOUS
<1>2. Finalized(q, gone) = h
  BY Zenon DEF Finalized
<1> HIDE DEF left, free, one
<1>3. /\ h \in ReqRec /\ h.pc = "over" /\ h.blocked = 0 /\ ~h.timer
      /\ h.answers = 1
  BY <1>1, Zenon DEF ReqRec
<1> HIDE DEF h
<1> QED BY <1>2, <1>3, Zenon DEF RequestOK

\* So the invariant holds when a request that waits for no thread is answered.
LEMMA AnswerKeeps ==
    ASSUME IInv, NEW r \in Requests, NEW q \in ReqRec, q.count \in 1..2,
           q.blocked = 0, ~q.timer, q.answers = 0, NEW gone \in BOOLEAN,
           req' = [req EXCEPT ![r] = Finalized(q, gone)],
           NEW g \in GpgRec, GpgOK(g), g.pc = "idle",
           gpg' = [gpg EXCEPT ![r] = g], ~Waits(r), queue' = queue
    PROVE  IInv'
<1>1. /\ Finalized(q, gone) \in ReqRec
      /\ RequestOK(Finalized(q, gone), g, FALSE)
  BY FinalizedOnce, Zenon
<1>2. QueueInv' /\ \A e \in Requests : Waits(e)' <=> Waits(e)
  BY Zenon DEF IInv, QueueInv, Waits
<1>3. RequestOK(Finalized(q, gone), g, Waits(r)')
  BY <1>1, <1>2, Zenon DEF RequestOK
<1> QED BY <1>1, <1>2, <1>3, OneRequest, Zenon

\* A task that is posted joins the queue, which holds a request once.
LEMMA Posted ==
    ASSUME QueueInv, NEW r \in Requests, ~Waits(r), queue' = Append(queue, r)
    PROVE  /\ QueueInv' /\ Waits(r)'
           /\ \A e \in Requests \ {r} : Waits(e)' <=> Waits(e)
<1>1. /\ queue \in Seq(Requests) /\ queue' \in Seq(Requests)
      /\ Len(queue) \in Nat /\ DOMAIN queue = 1..Len(queue)
      /\ DOMAIN queue' = 1..(Len(queue) + 1)
      /\ queue'[Len(queue) + 1] = r
      /\ \A i \in 1..Len(queue) : queue'[i] = queue[i]
  BY AppendProperties DEF QueueInv
<1>2. \A i \in 1..Len(queue) : queue[i] # r
  BY <1>1, Zenon DEF Waits, Range
<1>3. QueueInv'
  BY <1>1, <1>2 DEF QueueInv
<1>4. \A e \in Requests : Waits(e)' <=> Waits(e) \/ e = r
  BY <1>1 DEF Waits, Range
<1> QED BY <1>3, <1>4, Zenon

\* The task at the head leaves it, and no other copy of it stays.
LEMMA Taken ==
    ASSUME QueueInv, queue # << >>, queue' = Tail(queue),
           NEW r, r = Head(queue)
    PROVE  /\ r \in Requests /\ Waits(r) /\ QueueInv' /\ ~Waits(r)'
           /\ \A e \in Requests \ {r} : Waits(e)' <=> Waits(e)
<1> DEFINE n == Len(queue)
<1>1. /\ n \in Nat /\ n >= 1 /\ DOMAIN queue = 1..n
      /\ r = queue[1] /\ r \in Requests
      /\ queue' \in Seq(Requests) /\ DOMAIN queue' = 1..(n - 1)
      /\ \A i \in 1..(n - 1) : queue'[i] = queue[i + 1]
  BY HeadTailProperties DEF QueueInv
<1>2. \A i, k \in 1..n : queue[i] = queue[k] => i = k
  BY <1>1, Zenon DEF QueueInv
<1> HIDE DEF n
<1>3. \A e : Waits(e) <=> \E i \in 1..n : queue[i] = e
  BY <1>1, Zenon DEF Waits, Range
<1>4. \A e : Waits(e)' <=> \E i \in 1..(n - 1) : queue[i + 1] = e
  BY <1>1, Zenon DEF Waits, Range
<1>5. QueueInv'
  BY <1>1, <1>2 DEF QueueInv
<1>6. Waits(r)
  BY <1>1, <1>3
<1>7. ~Waits(r)'
  BY <1>1, <1>2, <1>4
<1>8. ASSUME NEW e \in Requests \ {r}
      PROVE  Waits(e)' <=> Waits(e)
  <2>1. ASSUME Waits(e) PROVE Waits(e)'
    <3>1. PICK i \in 1..n : queue[i] = e
      BY <1>3, <2>1, Zenon
    <3>2. i - 1 \in 1..(n - 1) /\ (i - 1) + 1 = i
      BY <1>1, <3>1
    <3> QED BY <1>4, <3>1, <3>2, Zenon
  <2>2. ASSUME Waits(e)' PROVE Waits(e)
    <3>1. PICK i \in 1..(n - 1) : queue[i + 1] = e
      BY <1>4, <2>2, Zenon
    <3>2. i + 1 \in 1..n
      BY <1>1
    <3> QED BY <1>3, <3>1, <3>2, Zenon
  <2> QED BY <2>1, <2>2, Zenon
<1> QED BY <1>1, <1>5, <1>6, <1>7, <1>8, Zenon

\* Each step of a request preserves the invariant.
LEMMA RequestStep ==
    ASSUME IInv, NEW r \in Requests,
           \/ AnswerAtOnce(r) \/ ReadBody(r) \/ Submit(r)
           \/ SyncDone(r) \/ Watchdog(r) \/ ThreadDone(r)
    PROVE  IInv'
<1> DEFINE q == req[r]
           g == gpg[r]
<1>0. /\ q \in ReqRec /\ g \in GpgRec /\ GpgOK(g)
      /\ RequestOK(q, g, Waits(r))
      /\ gpg = [gpg EXCEPT ![r] = g]
  BY Zenon DEF IInv, GpgInv, RequestInv, Requests
<1>1. queue' = queue => QueueInv' /\ \A e \in Requests : Waits(e)' <=> Waits(e)
  BY Zenon DEF IInv, QueueInv, Waits
<1> HIDE DEF q, g
<1>2. CASE AnswerAtOnce(r) \/ BodyLost(r) \/ SubmitAnswers(r)
  <2>1. PICK gone \in BOOLEAN : req' = [req EXCEPT ![r] = Finalized(q, gone)]
    BY <1>2, Zenon DEF AnswerAtOnce, BodyLost, SubmitAnswers, Finalize, q
  <2>2. q.pc \in {"new", "body"} /\ gpg' = gpg /\ queue' = queue
    BY <1>2, Zenon DEF AnswerAtOnce, BodyLost, SubmitAnswers, At, q
  <2>3. /\ q.count \in 1..2 /\ q.blocked = 0 /\ ~q.timer /\ q.answers = 0
        /\ g.pc = "idle" /\ ~Waits(r)
    BY <1>0, <2>2 DEF RequestOK
  <2> QED BY <1>0, <2>1, <2>2, <2>3, AnswerKeeps, Zenon
<1>3. CASE SyncDone(r)
  <2>1. PICK gone \in BOOLEAN : req' = [req EXCEPT ![r] = Finalized(q, gone)]
    BY <1>3, Zenon DEF SyncDone, Finalize, q
  <2>2. /\ q.pc = "sync" /\ gpg' = [gpg EXCEPT ![r] = NoCall]
        /\ queue' = queue
    BY <1>3, Zenon DEF SyncDone, At, q
  <2>3. /\ q.count \in 1..2 /\ q.blocked = 0 /\ ~q.timer /\ q.answers = 0
        /\ ~Waits(r)
    BY <1>0, <2>2 DEF RequestOK
  <2> QED BY <1>0, <2>1, <2>2, <2>3, AnswerKeeps, Fresh, Zenon
<1>4. CASE ThreadDone(r)
  <2> DEFINE zero == q.blocked - 1
             p == [q EXCEPT !.timer = FALSE, !.blocked = zero]
  <2>1. PICK gone \in BOOLEAN : req' = [req EXCEPT ![r] = Finalized(p, gone)]
    BY <1>4, Zenon DEF ThreadDone, Finalize, q
  <2>2. /\ ~g.main /\ g.pc = "done" /\ gpg' = [gpg EXCEPT ![r] = NoCall]
        /\ queue' = queue
    BY <1>4, Zenon DEF ThreadDone, GpgAt, g
  <2>3. q.pc = "pool" /\ ~Waits(r)
    BY <1>0, <2>2, Zenon DEF RequestOK, ReqRec
  <2>4. zero = 0 /\ zero \in 0..1
    BY <1>0, <2>3 DEF RequestOK
  <2> HIDE DEF zero
  <2>5. /\ p \in ReqRec /\ p.count = q.count /\ p.blocked = zero
        /\ p.timer = FALSE /\ p.answers = q.answers
    BY <1>0, <2>4, Zenon DEF ReqRec
  <2> HIDE DEF p
  <2>6. /\ p.count \in 1..2 /\ p.blocked = 0 /\ ~p.timer /\ p.answers = 0
    BY <1>0, <2>3, <2>4, <2>5 DEF RequestOK
  <2> QED BY <1>0, <2>1, <2>2, <2>3, <2>5, <2>6, AnswerKeeps, Fresh, Zenon
<1>5. CASE ReadBody(r)
  <2> DEFINE two == q.count + 1
             p == [q EXCEPT !.pc = "body", !.count = two]
  <2>1. req' = [req EXCEPT ![r] = p]
    BY <1>5, Zenon DEF ReadBody, IInv, RequestInv, q
  <2>2. q.pc = "new" /\ gpg' = gpg /\ queue' = queue
    BY <1>5, Zenon DEF ReadBody, At, q
  <2>3. two = 2 /\ two \in 0..2
    BY <1>0, <2>2 DEF RequestOK
  <2> HIDE DEF two
  <2>4. /\ p \in ReqRec /\ p.pc = "body" /\ p.count = two
        /\ p.blocked = q.blocked /\ p.timer = q.timer /\ p.freed = q.freed
        /\ p.answers = q.answers
    BY <1>0, <2>3, Zenon DEF ReqRec
  <2> HIDE DEF p
  <2>5. RequestOK(p, g, Waits(r)')
    BY <1>0, <1>1, <2>2, <2>3, <2>4, Zenon DEF RequestOK
  <2> QED BY <1>0, <1>1, <2>1, <2>2, <2>4, <2>5, OneRequest, Zenon
<1>6. CASE SubmitSync(r)
  <2> DEFINE p == [q EXCEPT !.pc = "sync"]
  <2>1. req' = [req EXCEPT ![r] = p]
    BY <1>6, Zenon DEF SubmitSync, IInv, RequestInv, q
  <2>2. /\ q.pc = "body" /\ gpg' = [gpg EXCEPT ![r] = Call(TRUE)]
        /\ queue' = queue
    BY <1>6, Zenon DEF SubmitSync, At, q
  <2>3. /\ p \in ReqRec /\ p.pc = "sync" /\ p.count = q.count
        /\ p.blocked = q.blocked /\ p.timer = q.timer /\ p.freed = q.freed
        /\ p.answers = q.answers
    BY <1>0, Zenon DEF ReqRec
  <2> HIDE DEF p
  <2>4. RequestOK(p, Call(TRUE), Waits(r)')
    BY <1>0, <1>1, <2>2, <2>3, Fresh, ZenonT(40) DEF RequestOK
  <2> QED BY <1>0, <1>1, <2>1, <2>2, <2>3, <2>4, OneRequest, Fresh, Zenon
<1>7. CASE Watchdog(r)
  <2> DEFINE p == [q EXCEPT !.timer = FALSE]
  <2>1. req' = [req EXCEPT ![r] = p]
    BY <1>7, Zenon DEF Watchdog, IInv, RequestInv, q
  <2>2. gpg' = gpg /\ queue' = queue
    BY <1>7, Zenon DEF Watchdog
  <2>3. /\ p \in ReqRec /\ p.pc = q.pc /\ p.count = q.count
        /\ p.blocked = q.blocked /\ ~p.timer /\ p.freed = q.freed
        /\ p.answers = q.answers
    BY <1>0, Zenon DEF ReqRec
  <2> HIDE DEF p
  <2>4. RequestOK(p, g, Waits(r)')
    BY <1>0, <1>1, <2>2, <2>3, Zenon DEF RequestOK
  <2> QED BY <1>0, <1>1, <2>1, <2>2, <2>3, <2>4, OneRequest, ZenonT(40)
<1>8. CASE SubmitAsync(r)
  <2> DEFINE one == q.blocked + 1
             p == [q EXCEPT !.pc = "pool", !.timer = TRUE, !.blocked = one]
  <2>1. req' = [req EXCEPT ![r] = p]
    BY <1>8, Zenon DEF SubmitAsync, IInv, RequestInv, q
  <2>2. q.pc = "body" /\ gpg' = gpg /\ queue' = Append(queue, r)
    BY <1>8, Zenon DEF SubmitAsync, At, q
  <2>3. one = 1 /\ one \in 0..1 /\ ~Waits(r) /\ g.pc = "idle"
    BY <1>0, <2>2 DEF RequestOK
  <2> HIDE DEF one
  <2>4. /\ QueueInv' /\ Waits(r)'
        /\ \A e \in Requests \ {r} : Waits(e)' <=> Waits(e)
    BY <2>2, <2>3, Posted, Zenon DEF IInv
  <2>5. /\ p \in ReqRec /\ p.pc = "pool" /\ p.count = q.count
        /\ p.blocked = one /\ p.timer /\ p.freed = q.freed
        /\ p.answers = q.answers
    BY <1>0, <2>3, Zenon DEF ReqRec
  <2> HIDE DEF p
  <2>6. RequestOK(p, g, Waits(r)')
    BY <1>0, <2>2, <2>3, <2>4, <2>5, Zenon DEF RequestOK
  <2> QED BY <1>0, <2>1, <2>2, <2>4, <2>5, <2>6, OneRequest, ZenonT(40)
<1> QED
  BY <1>2, <1>3, <1>4, <1>5, <1>6, <1>7, <1>8, Zenon DEF Submit

\* So does a pool thread that takes a task.
LEMMA TakeTaskStep ==
    ASSUME IInv, TakeTask
    PROVE  IInv'
<1>0. PICK r : r = Head(queue)
  BY Zenon
<1> DEFINE q == req[r]
<1>1. /\ r \in Requests /\ Waits(r) /\ QueueInv' /\ ~Waits(r)'
      /\ \A e \in Requests \ {r} : Waits(e)' <=> Waits(e)
  BY <1>0, Taken, Zenon DEF IInv, TakeTask
<1>2. /\ q \in ReqRec /\ RequestOK(q, gpg[r], Waits(r))
      /\ req = [req EXCEPT ![r] = q]
  BY <1>1, Zenon DEF IInv, RequestInv
<1> HIDE DEF q
<1>3. gpg' = [gpg EXCEPT ![r] = Call(FALSE)] /\ req' = req
  BY <1>0, Zenon DEF TakeTask
<1>4. RequestOK(q, Call(FALSE), Waits(r)')
  <2>1. Call(FALSE).pc = "begin" /\ ~Call(FALSE).main
    BY Fresh, Zenon
  <2> QED BY <1>1, <1>2, <2>1, ZenonT(40) DEF RequestOK
<1> QED BY <1>1, <1>2, <1>3, <1>4, OneRequest, Fresh, Zenon

-----------------------------------------------------------------------------
(* The theorems.                                                           *)

\* The worker starts in the invariant, and every step preserves it.
LEMMA Invariance == Spec => []IInv
<1>1. Init => IInv
  <2> SUFFICES ASSUME Init PROVE IInv
    BY Zenon
  <2>1. GpgInv
    BY Fresh, Zenon DEF Init, GpgInv, Requests
  <2>2. QueueInv /\ \A r \in Requests : ~Waits(r)
    BY DEF Init, QueueInv, Waits, Range
  <2>3. /\ NewRequest \in ReqRec
        /\ \A r \in Requests : RequestOK(NewRequest, NoCall, Waits(r))
    BY <2>2, Fresh DEF NewRequest, ReqRec, RequestOK
  <2>4. RequestInv
    BY <2>3, Zenon DEF Init, RequestInv
  <2> QED BY <2>1, <2>2, <2>4, Zenon DEF IInv
<1>2. IInv /\ [Next]_vars => IInv'
  <2> SUFFICES ASSUME IInv, [Next]_vars PROVE IInv'
    BY Zenon
  <2>1. CASE TakeTask
    BY <2>1, TakeTaskStep, Zenon
  <2>2. ASSUME NEW r \in Requests,
               \/ AnswerAtOnce(r) \/ ReadBody(r) \/ Submit(r)
               \/ SyncDone(r) \/ Watchdog(r) \/ ThreadDone(r)
        PROVE  IInv'
    BY <2>2, RequestStep, Zenon
  <2>3. ASSUME NEW r \in Requests,
               \/ Gpg(r)
               \/ ChildStep(r) /\ UNCHANGED <<req, queue>>
        PROVE  IInv'
    <3>1. GpgMoves(r) /\ UNCHANGED <<req, queue>>
      BY <2>3, GpgStepMoves, ChildStepMoves, ZenonT(40) DEF Gpg, IInv, Requests
    <3> QED BY <3>1, GpgMovesKeeps, Zenon DEF Requests
  <2>4. CASE UNCHANGED vars
    BY <2>4, ZenonT(60) DEF vars, IInv, GpgInv, RequestInv, QueueInv, GpgOK,
       RequestOK, Waits
  <2> QED BY <2>1, <2>2, <2>3, <2>4, Zenon DEF Next
<1> QED BY <1>1, <1>2, PTL DEF Spec

\* Every call of gpg_verify and every request has its type: no reference count,
\* pin or answer count leaves its range.
THEOREM TypeCorrect == Spec => []TypeOK
<1>1. IInv => TypeOK
  BY ZenonT(40)
     DEF IInv, GpgInv, RequestInv, QueueInv, TypeOK, GpgTypeOK, GpgRec,
     ReqRec,
     Lines
<1> QED BY <1>1, Invariance, PTL

\* Whichever call of gpg_verify fails, whoever is killed and whoever reaps the
\* child, it returns with the message file and the pipe closed, its signal mask
\* as it was, no child of its own, and no home that it has not tried to remove.
THEOREM GpgLeavesNothing == Spec => []NothingLeft
<1>1. IInv => NothingLeft
  BY Zenon DEF IInv, GpgInv, GpgOK, NothingLeft, GpgAt
<1> QED BY <1>1, Invariance, PTL

\* A signature counts only if no line gpg wrote speaks against it, for any
\* output of gpg and any size of the status buffer, unless the deadline or an
\* error ended the reading.
THEOREM GpgOverlooksNothing == Spec => []NothingOverlooked
<1>1. ASSUME IInv, NEW j \in Jobs, gpg[j].valid,
             gpg[j].cut \notin {"deadline", "error"}
      PROVE  "BADSIG" \notin Range(gpg[j].out \o gpg[j].pipe)
  <2>1. gpg[j] \in GpgRec /\ GpgOK(gpg[j])
    BY <1>1, Zenon DEF IInv, GpgInv
  <2>2. gpg[j].pipe = << >> /\ "BADSIG" \notin Range(gpg[j].out)
    BY <1>1, <2>1, Zenon DEF GpgOK, GpgRec
  <2>3. gpg[j].out \o << >> = gpg[j].out
    BY <2>1 DEF GpgRec
  <2> QED BY <2>2, <2>3, Zenon
<1>2. IInv => NothingOverlooked
  BY <1>1, Zenon DEF NothingOverlooked
<1> QED BY <1>2, Invariance, PTL

\* nginx's SIGCHLD handler never takes the gpg that the main thread forked.
THEOREM MainKeepsItsChild == Spec => []MainReapsItsOwn
<1>1. IInv => MainReapsItsOwn
  BY Zenon DEF IInv, GpgInv, GpgOK, MainReapsItsOwn
<1> QED BY <1>1, Invariance, PTL

\* A request whose task is queued or on a thread is pinned and not freed, for
\* any number of requests, threads and queue places.
THEOREM PinnedWhileVerified == Spec => []HeldWhileVerified
<1>1. ASSUME IInv, NEW r \in Requests
      PROVE  /\ At(r, "pool") <=> req[r].blocked = 1
             /\ Waits(r) \/ OnThread(r) => At(r, "pool") /\ ~req[r].freed
             /\ req[r].timer => At(r, "pool")
  <2>1. /\ req[r] \in ReqRec /\ RequestOK(req[r], gpg[r], Waits(r))
        /\ gpg[r] \in GpgRec
    BY <1>1, Zenon DEF IInv, RequestInv, GpgInv, Requests
  <2> QED BY <2>1 DEF RequestOK, ReqRec, At, OnThread
<1>2. IInv => HeldWhileVerified
  BY <1>1, Zenon DEF HeldWhileVerified, Waits
<1> QED BY <1>2, Invariance, PTL

\* No request is answered twice.
THEOREM NoSecondAnswer == Spec => []AnsweredOnce
<1>1. IInv => AnsweredOnce
  BY DEF IInv, RequestInv, RequestOK, AnsweredOnce
<1> QED BY <1>1, Invariance, PTL
=============================================================================
