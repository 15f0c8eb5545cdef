------------------------------ MODULE GpgVerify ------------------------------
(***************************************************************************)
(* gpg_verify: the temporary home, the status pipe, the forked gpg, the    *)
(* read loop with its deadline, waitpid and the verdict.  A job is one     *)
(* call.  It runs on the worker's main thread or on a pool thread; nginx's *)
(* SIGCHLD handler, which reaps every dead child it finds, runs on the     *)
(* main thread only, since pool threads block all signals.                 *)
(*                                                                         *)
(* gpg is a process of its own: it writes status lines, may stop writing   *)
(* before it exits, and may die at any time.  A line is the unit of size.  *)
(***************************************************************************)
EXTENDS Integers, Sequences, Functions

CONSTANTS
    Jobs,
    Scripts,    \* what gpg prints: sequences of VALIDSIG, BADSIG and OTHER
    Buffer      \* lines that fit into out[]

ASSUME GpgAssumption ==
    /\ Scripts \subseteq Seq({"VALIDSIG", "BADSIG", "OTHER"})
    /\ Buffer \in Nat \ {0}

VARIABLES
    gpg         \* gpg[j]: the call and its child

NoCall ==
    [pc |-> "idle", main |-> FALSE, home |-> "none", fds |-> {},
     masked |-> FALSE, child |-> "none", todo |-> << >>, pipe |-> << >>,
     out |-> << >>, cut |-> "no", rc |-> "NONE", valid |-> FALSE]

GpgTypeOK ==
    \A j \in Jobs :
        /\ gpg[j].pc \in {"idle", "begin", "home", "message", "written",
                          "piped", "read", "wait", "done"}
        /\ gpg[j].main \in BOOLEAN           \* it runs on the main thread
        /\ gpg[j].home \in {"none", "made", "stuck"}  \* the temporary home
        /\ gpg[j].fds \subseteq {"m", "r", "w"}  \* message file, pipe ends
        /\ gpg[j].masked \in BOOLEAN         \* its thread blocks SIGCHLD
        /\ gpg[j].child \in
              {"none", "running", "silent", "dead", "reaped", "stolen"}
        /\ gpg[j].todo \in Seq({"VALIDSIG", "BADSIG", "OTHER"})  \* not written
        /\ gpg[j].pipe \in Seq({"VALIDSIG", "BADSIG", "OTHER"})  \* not read
        /\ gpg[j].out \in Seq({"VALIDSIG", "BADSIG", "OTHER"})
        /\ gpg[j].cut \in {"no", "full", "deadline", "error"}
        /\ gpg[j].rc \in {"NONE", "OK", "ERROR"}
        /\ gpg[j].valid \in BOOLEAN

GpgAt(j, pc) == gpg[j].pc = pc

Call(main) == [NoCall EXCEPT !.pc = "begin", !.main = main]

-----------------------------------------------------------------------------
(* Before the fork.                                                         *)

Return(g, rc) == [g EXCEPT !.pc = "done", !.rc = rc]

\* What gpg_cleanup makes of the home: it is gone, or the file system refused
\* to list it, to unlink one of its files or to remove it, and it stays; the
\* errors are ignored.
Leftovers == {"none", "stuck"}

Cleanup(g, left) == [g EXCEPT !.home = left]

\* The paths are valid and mkdtemp succeeds.
MakeHome(j) ==
    /\ GpgAt(j, "begin")
    /\ gpg' = [gpg EXCEPT ![j].pc = "home", ![j].home = "made"]

MakeHomeFails(j) ==
    /\ GpgAt(j, "begin")
    /\ gpg' = [gpg EXCEPT ![j] = Return(@, "ERROR")]

OpenMessage(j) ==
    /\ GpgAt(j, "home")
    /\ gpg' = [gpg EXCEPT ![j].pc = "message", ![j].fds = @ \cup {"m"}]

OpenMessageFails(j) ==
    /\ GpgAt(j, "home")
    /\ \E left \in Leftovers :
          gpg' = [gpg EXCEPT ![j] = Return(Cleanup(@, left), "ERROR")]

WriteMessage(j) ==
    /\ GpgAt(j, "message")
    /\ gpg' = [gpg EXCEPT ![j].pc = "written", ![j].fds = @ \ {"m"}]

WriteMessageFails(j) ==
    LET g == gpg[j]
        closed == [g EXCEPT !.fds = g.fds \ {"m"}]
    IN /\ GpgAt(j, "message")
       /\ \E left \in Leftovers :
             gpg' = [gpg EXCEPT ![j] = Return(Cleanup(closed, left), "ERROR")]

\* Faulty OpenPipe: SIGCHLD is left alone.
OpenPipeUnmasked(j) ==
    /\ GpgAt(j, "written")
    /\ gpg' = [gpg EXCEPT ![j].pc = "piped", ![j].fds = @ \cup {"r", "w"}]

\* The pipe is there; then SIGCHLD is blocked on the calling thread.
OpenPipe(j) ==
    /\ GpgAt(j, "written")
    /\ gpg' = [gpg EXCEPT ![j].pc = "piped", ![j].fds = @ \cup {"r", "w"},
                          ![j].masked = TRUE]

OpenPipeFails(j) ==
    /\ GpgAt(j, "written")
    /\ \E left \in Leftovers :
          gpg' = [gpg EXCEPT ![j] = Return(Cleanup(@, left), "ERROR")]

\* The parent keeps the read end.  A child that cannot execute gpg exits at
\* once and has written nothing: to the parent it is a gpg like any other.
Fork(j) ==
    /\ GpgAt(j, "piped")
    /\ \E script \in Scripts :
          gpg' = [gpg EXCEPT ![j].pc = "read", ![j].fds = @ \ {"w"},
                     ![j].child = "running", ![j].todo = script]

\* Faulty ForkFails: the pipe stays open.
ForkFailsLeaky(j) ==
    LET g == gpg[j]
        closed == [g EXCEPT !.masked = FALSE]
    IN /\ GpgAt(j, "piped")
       /\ \E left \in Leftovers :
             gpg' = [gpg EXCEPT ![j] = Return(Cleanup(closed, left), "ERROR")]

ForkFails(j) ==
    LET g == gpg[j]
        closed == [g EXCEPT !.masked = FALSE, !.fds = g.fds \ {"r", "w"}]
    IN /\ GpgAt(j, "piped")
       /\ \E left \in Leftovers :
             gpg' = [gpg EXCEPT ![j] = Return(Cleanup(closed, left), "ERROR")]

-----------------------------------------------------------------------------
(* The child and the SIGCHLD handler.                                       *)

Alive(j) == gpg[j].child \in {"running", "silent"}

\* Without a reader there is only SIGPIPE, an exit.
ChildWrites(j) ==
    /\ gpg[j].child = "running" /\ gpg[j].todo # << >>
    /\ gpg[j].fds # {}
    /\ gpg' = [gpg EXCEPT ![j].pipe = Append(@, Head(gpg[j].todo)),
                          ![j].todo = Tail(@)]

\* It closes its standard output and is still there.
ChildFallsSilent(j) ==
    /\ gpg[j].child = "running" /\ gpg[j].todo = << >>
    /\ gpg' = [gpg EXCEPT ![j].child = "silent"]

\* It ends, normally or not.
ChildExits(j) ==
    /\ Alive(j)
    /\ gpg' = [gpg EXCEPT ![j].child = "dead", ![j].todo = << >>]

\* The main thread blocks SIGCHLD while it runs a job itself.
MainMasked == \E j \in Jobs : gpg[j].main /\ gpg[j].masked

NginxReaps(j) ==
    /\ gpg[j].child = "dead"
    /\ ~MainMasked
    /\ gpg' = [gpg EXCEPT ![j].child = "stolen"]

-----------------------------------------------------------------------------
(* The read loop.                                                           *)

\* SIGKILL ends a child that is alive and does nothing to a dead one.
Killed(g) ==
    [g EXCEPT !.child = IF @ \in {"running", "silent"} THEN "dead" ELSE @,
              !.todo = << >>]

\* The loop is left and the read end closed.
Stop(g, cut) == [g EXCEPT !.pc = "wait", !.fds = @ \ {"r"}, !.cut = cut]

\* Faulty ReadStatus: what fits is all there is.
ReadStatusLax(j) ==
    LET g == gpg[j]
        n == IF Len(g.pipe) < Buffer - Len(g.out) THEN Len(g.pipe)
             ELSE Buffer - Len(g.out)
        got == [g EXCEPT !.out = @ \o SubSeq(g.pipe, 1, n),
                         !.pipe = SubSeq(@, n + 1, Len(@))]
    IN /\ GpgAt(j, "read") /\ g.pipe # << >>
       /\ gpg' = [gpg EXCEPT ![j] = IF Len(got.out) >= Buffer
                     THEN Stop(Killed(got), "no") ELSE got]

\* A full buffer may hide what gpg says next: gpg is killed and not believed.
ReadStatus(j) ==
    LET g == gpg[j]
        n == IF Len(g.pipe) < Buffer - Len(g.out) THEN Len(g.pipe)
             ELSE Buffer - Len(g.out)
        got == [g EXCEPT !.out = @ \o SubSeq(g.pipe, 1, n),
                         !.pipe = SubSeq(@, n + 1, Len(@))]
    IN /\ GpgAt(j, "read") /\ g.pipe # << >>
       /\ gpg' = [gpg EXCEPT ![j] = IF Len(got.out) >= Buffer
                     THEN Stop(Killed(got), "full") ELSE got]

\* End of file: there is no writer left.
ReadEnds(j) ==
    /\ GpgAt(j, "read") /\ gpg[j].pipe = << >>
    /\ gpg[j].child # "running"
    /\ gpg' = [gpg EXCEPT ![j] = Stop(@, "no")]

\* Faulty Deadline: the loop ends and gpg is left running.
DeadlineSpares(j) ==
    /\ GpgAt(j, "read")
    /\ gpg' = [gpg EXCEPT ![j] = Stop(@, "deadline")]

\* pgp_gpg_timeout is over.
Deadline(j) ==
    /\ GpgAt(j, "read")
    /\ gpg' = [gpg EXCEPT ![j] = Stop(Killed(@), "deadline")]

\* poll fails, and gpg is killed; or read fails, and it is not.
ReadFails(j) ==
    /\ GpgAt(j, "read")
    /\ \/ gpg' = [gpg EXCEPT ![j] = Stop(Killed(@), "error")]
       \/ gpg' = [gpg EXCEPT ![j] = Stop(@, "error")]

-----------------------------------------------------------------------------
(* After the loop.                                                          *)

\* The status lines: one good signature and no line that speaks against it.
Parse(out) == "VALIDSIG" \in Range(out) /\ "BADSIG" \notin Range(out)

\* waitpid returns: the child was there, or somebody else has taken it.  The
\* mask is restored, the plaintext read (it may not fit), the home cleaned up
\* and the lines parsed.  The result is OK whatever has become of gpg.
Finish(j) ==
    LET g == gpg[j]
        judged(fits) ==
            [g EXCEPT !.child = IF g.child = "dead" THEN "reaped" ELSE g.child,
                      !.masked = FALSE,
                      !.valid = Parse(g.out) /\ g.cut # "full" /\ fits]
    IN /\ GpgAt(j, "wait")
       /\ g.child \in {"dead", "stolen"}
       /\ \E fits \in BOOLEAN, left \in Leftovers :
             gpg' = [gpg EXCEPT ![j] = Return(Cleanup(judged(fits), left), "OK")]

GpgStep(j) ==
    \/ MakeHome(j) \/ MakeHomeFails(j) \/ OpenMessage(j) \/ OpenMessageFails(j)
    \/ WriteMessage(j) \/ WriteMessageFails(j) \/ OpenPipe(j)
    \/ OpenPipeFails(j) \/ Fork(j) \/ ForkFails(j)
    \/ ReadStatus(j) \/ ReadEnds(j) \/ Deadline(j) \/ ReadFails(j)
    \/ Finish(j)

ChildStep(j) ==
    ChildWrites(j) \/ ChildFallsSilent(j) \/ ChildExits(j) \/ NginxReaps(j)

-----------------------------------------------------------------------------
(* Properties.                                                              *)

\* Whichever of its eight exits a call takes, at whichever system call, and
\* whoever reaps the child: it returns with the message file and the pipe
\* closed, the signal mask restored, no child of its own left, running or dead,
\* and the temporary home gone unless the file system refused to remove it
\* (the error paths and the end of gpg_verify, gpg_cleanup).
NothingLeft ==
    \A j \in Jobs :
        GpgAt(j, "done")
            => /\ gpg[j].fds = {} /\ gpg[j].home # "made" /\ ~gpg[j].masked
               /\ gpg[j].child \in {"none", "reaped", "stolen"}

\* A signature counts only if nothing gpg wrote speaks against it, read or not,
\* unless the deadline or an error ended the reading: a status stream that
\* does not fit the buffer never does.
NothingOverlooked ==
    \A j \in Jobs :
        gpg[j].valid
            => \/ gpg[j].cut \in {"deadline", "error"}
               \/ "BADSIG" \notin Range(gpg[j].out \o gpg[j].pipe)

\* A gpg forked from the main thread is reaped by the module: nginx's handler
\* cannot take it (SIGCHLD is blocked around fork and waitpid).
MainReapsItsOwn == \A j \in Jobs : gpg[j].main => gpg[j].child # "stolen"
=============================================================================
