----------------------------- MODULE RequestLife -----------------------------
(***************************************************************************)
(* The life of an nginx request in the module: its reference count, the    *)
(* pin (blocked, aio) that holds it while a pool thread works on it, the   *)
(* watchdog timer of the thread task, and its one answer.  Each            *)
(* submission's gpg_verify is a job of GpgVerify, on the worker or on a    *)
(* thread; AuthFlow models what the answers are.                           *)
(*                                                                         *)
(* nginx's side is external.  A request starts with one reference.         *)
(* ngx_http_read_client_request_body takes one more unless it fails.       *)
(* ngx_http_finalize_request gives one back and frees the request with its *)
(* connection when none is left and nothing is pinned; a client that is    *)
(* gone makes it give back all of them.  NGX_DONE returned from a handler  *)
(* of the PRECONTENT phase gives nothing back.                             *)
(***************************************************************************)
EXTENDS GpgVerify, FiniteSets

CONSTANTS
    PoolThreads,
    MaxQueue        \* tasks that may wait for a thread

ASSUME PoolAssumption == PoolThreads \in Nat /\ MaxQueue \in Nat

VARIABLES
    req,            \* req[r]: r's life so far; requests and jobs coincide
    queue           \* tasks waiting for a thread

vars == <<gpg, req, queue>>

Requests == Jobs

NewRequest ==
    [pc |-> "new", count |-> 1, blocked |-> 0, timer |-> FALSE,
     freed |-> FALSE, answers |-> 0]

TypeOK ==
    /\ GpgTypeOK
    /\ req \in [Requests ->
          [pc : {"new", "body", "sync", "pool", "over"}, count : 0..2,
           blocked : 0..1,                  \* r->main->blocked and r->aio
           timer : BOOLEAN, freed : BOOLEAN,
           answers : 0..2]]                 \* history
    /\ queue \in Seq(Requests)

Init ==
    /\ gpg = [r \in Requests |-> NoCall]
    /\ req = [r \in Requests |-> NewRequest]
    /\ queue = << >>

At(r, pc) == req[r].pc = pc

\* The main thread is in its event loop, not in a gpg_verify of its own.
InLoop == \A r \in Requests : ~At(r, "sync")

\* ngx_http_finalize_request.  gone: the client's connection is broken.
Finalized(q, gone) ==
    LET left == IF gone THEN 0 ELSE q.count - 1 IN
    [q EXCEPT !.pc = "over", !.count = left, !.answers = @ + 1,
              !.freed = left = 0 /\ q.blocked = 0]

Finalize(r, q) ==
    \E gone \in BOOLEAN : req' = [req EXCEPT ![r] = Finalized(q, gone)]

-----------------------------------------------------------------------------
(* The handler and the body handler.                                        *)

\* A session, 403, 413, 429, a challenge page, or a body nginx cannot start to
\* read: the request ends, or goes on, with the one reference it came with.
AnswerAtOnce(r) ==
    /\ InLoop /\ At(r, "new")
    /\ Finalize(r, req[r])
    /\ UNCHANGED <<gpg, queue>>

\* The handler returns NGX_DONE; the answer is left to auth_submit.
ReadBody(r) ==
    /\ InLoop /\ At(r, "new")
    /\ req' = [req EXCEPT ![r].pc = "body", ![r].count = @ + 1]
    /\ UNCHANGED <<gpg, queue>>

\* nginx ends a request whose body does not come.
BodyLost(r) ==
    /\ InLoop /\ At(r, "body")
    /\ req' = [req EXCEPT ![r] = Finalized(@, TRUE)]
    /\ UNCHANGED <<gpg, queue>>

\* An unreadable body, a message that is not signed, no memory.
SubmitAnswers(r) ==
    /\ InLoop /\ At(r, "body")
    /\ Finalize(r, req[r])
    /\ UNCHANGED <<gpg, queue>>

\* Faulty SubmitAsync: the request is not pinned.
SubmitAsyncUnpinned(r) ==
    /\ InLoop /\ At(r, "body")
    /\ Len(queue) < MaxQueue
    /\ queue' = Append(queue, r)
    /\ req' = [req EXCEPT ![r].pc = "pool", ![r].timer = TRUE]
    /\ UNCHANGED gpg

\* The task is posted, its watchdog set and the request pinned.
SubmitAsync(r) ==
    /\ InLoop /\ At(r, "body")
    /\ Len(queue) < MaxQueue
    /\ queue' = Append(queue, r)
    /\ req' = [req EXCEPT ![r].pc = "pool", ![r].timer = TRUE,
                          ![r].blocked = @ + 1]
    /\ UNCHANGED gpg

\* No pool, no memory for the task, or a full queue: gpg blocks the worker.
SubmitSync(r) ==
    /\ InLoop /\ At(r, "body")
    /\ req' = [req EXCEPT ![r].pc = "sync"]
    /\ gpg' = [gpg EXCEPT ![r] = Call(TRUE)]
    /\ UNCHANGED queue

SyncDone(r) ==
    /\ At(r, "sync") /\ GpgAt(r, "done")
    /\ Finalize(r, req[r])
    /\ gpg' = [gpg EXCEPT ![r] = NoCall]
    /\ UNCHANGED queue

-----------------------------------------------------------------------------
(* The pool and its events.                                                 *)

OnThread(r) == ~gpg[r].main /\ gpg[r].pc \notin {"idle", "done"}

TakeTask ==
    /\ queue # << >>
    /\ Cardinality({r \in Requests : OnThread(r)}) < PoolThreads
    /\ gpg' = [gpg EXCEPT ![Head(queue)] = Call(FALSE)]
    /\ queue' = Tail(queue)
    /\ UNCHANGED req

\* Faulty Watchdog: a late thread's request is given up.
WatchdogGivesUp(r) ==
    /\ InLoop /\ req[r].timer
    /\ Finalize(r, [req[r] EXCEPT !.timer = FALSE, !.blocked = 0])
    /\ UNCHANGED <<gpg, queue>>

\* Faulty Watchdog: the pin is taken off, and the thread takes it off again.
WatchdogUnpins(r) ==
    /\ InLoop /\ req[r].timer
    /\ req' = [req EXCEPT ![r].timer = FALSE, ![r].blocked = @ - 1]
    /\ UNCHANGED <<gpg, queue>>

\* The timer fires before the thread is done: a line in the log.
Watchdog(r) ==
    /\ InLoop /\ req[r].timer
    /\ req' = [req EXCEPT ![r].timer = FALSE]
    /\ UNCHANGED <<gpg, queue>>

\* The completion event: the pin is taken off, then the answer is given.
ThreadDone(r) ==
    /\ InLoop /\ ~gpg[r].main /\ GpgAt(r, "done")
    /\ Finalize(r, [req[r] EXCEPT !.timer = FALSE, !.blocked = @ - 1])
    /\ gpg' = [gpg EXCEPT ![r] = NoCall]
    /\ UNCHANGED queue

Submit(r) ==
    BodyLost(r) \/ SubmitAnswers(r) \/ SubmitAsync(r) \/ SubmitSync(r)

Gpg(r) == GpgStep(r) /\ UNCHANGED <<req, queue>>

Next ==
    \/ TakeTask
    \/ \E r \in Requests :
          \/ AnswerAtOnce(r) \/ ReadBody(r) \/ Submit(r) \/ SyncDone(r)
          \/ Watchdog(r) \/ ThreadDone(r) \/ Gpg(r)
          \/ ChildStep(r) /\ UNCHANGED <<req, queue>>

\* waitpid has no deadline: a gpg that has closed its output, or whose output
\* could not be read, is relied on to exit.  A gpg that still writes is not.
GpgEnds(r) ==
    /\ gpg[r].child = "silent" \/ gpg[r].cut = "error"
    /\ ChildExits(r)
    /\ UNCHANGED <<req, queue>>

\* The worker's loop serves its events (again and again, since a gpg of its own
\* may hold it up in between), threads run, and the deadline passes.
Fairness ==
    /\ WF_vars(TakeTask)
    /\ \A r \in Requests :
          /\ SF_vars(Submit(r) \/ ThreadDone(r))
          /\ WF_vars(Gpg(r) \/ GpgEnds(r) \/ SyncDone(r))

Spec == Init /\ [][Next]_vars /\ Fairness

-----------------------------------------------------------------------------
(* Properties.                                                              *)

\* From the moment its task is posted until the completion event, a request is
\* pinned, unanswered and not freed, whatever the watchdog does: the thread
\* reads its pool.  Afterwards no timer is left that could name it.
HeldWhileVerified ==
    \A r \in Requests :
        /\ At(r, "pool") <=> req[r].blocked = 1
        /\ r \in Range(queue) \/ OnThread(r) => At(r, "pool") /\ ~req[r].freed
        /\ req[r].timer => At(r, "pool")

\* No request is answered twice, by any mix of the handler, the body handler,
\* the watchdog and the completion event.
AnsweredOnce == \A r \in Requests : req[r].answers <= 1

\* Every submission is answered: a gpg that hangs is killed, and no task is
\* left in the queue or between its thread and the worker.
Answered == \A r \in Requests : At(r, "body") ~> At(r, "over")

\* A request is over when it is answered: with the answer its pool is released
\* and its connection is done with (SECURITY.md on per-request memory).
ReleasedWhenAnswered == \A r \in Requests : At(r, "over") => req[r].freed
=============================================================================
