------------------------------- MODULE EvLoop -------------------------------
(***************************************************************************)
(* The event loop of the runtime (xxx/ev/ev.c, ev.h) with the two sides    *)
(* that use it: the fs functions a script calls (xxx/fs/fs.cc) and the     *)
(* main program that evaluates the module and then runs the loop           *)
(* (xxx/main.cc).                                                          *)
(*                                                                         *)
(* The main thread queues requests on head[0]; worker threads take them,   *)
(* run their blocking work and queue them on head[1], and each writes an   *)
(* eventfd; the main thread sleeps in epoll_wait on that eventfd           *)
(* (edge-triggered), drains head[1] and calls each request back, which     *)
(* settles a promise and so runs more of the script.                       *)
(*                                                                         *)
(* lock[0] guards head[0] and the thread counts, lock[1] guards head[1].   *)
(* Workers take their locks in steps of their own.  EV_REQ_ADD, whose      *)
(* critical section touches nothing that is not under lock[0], is one step *)
(* that waits until lock[0] is free.                                       *)
(***************************************************************************)
EXTENDS Integers, Sequences, FiniteSets

CONSTANTS
    Workers,        \* the threads ev_loop_init creates
    Main,           \* the thread that runs the script
    NoOne,          \* the owner of a free mutex
    Reqs,           \* the requests the script may issue in a run (a bound)
    NoReq           \* no request

ASSUME WorkersAssumption == IsFiniteSet(Workers) /\ Workers # {}
ASSUME ThreadsAssumption == Main \notin Workers /\ NoOne \notin Workers \union {Main}
ASSUME ReqsAssumption == NoReq \notin Reqs

VARIABLES
    pc,             \* where each worker is in ev_work
    req,            \* the request each worker has in hand
    lock0, lock1,   \* owners of lock[0] and lock[1]
    head0, head1,   \* head[0]: to do; head[1]: done
    wait_threads,   \* the loop's counters
    alive_threads,
    stop,
    efd,            \* the eventfd's counter is not zero
    epReady,        \* epoll holds an edge for the eventfd
    mainpc,         \* where the main thread is
    cur,            \* the request being called back, or awaited by the module
    adding,         \* the request an fs function is about to queue
    errnum,         \* the request's errnum is set
    live,           \* requests allocated and not yet freed
    promise         \* what the script sees of each request

workerVars == <<pc, req>>
poolVars   == <<head0, wait_threads, alive_threads, stop>>
eventVars  == <<efd, epReady>>
mainVars   == <<mainpc, cur, adding, live, promise>>
vars == <<pc, req, lock0, lock1, head0, head1, wait_threads, alive_threads,
          stop, efd, epReady, mainpc, cur, adding, errnum, live, promise>>

nthreads == Cardinality(Workers)

WorkerPC == {"lock", "test", "sleep", "woken", "work", "done", "push",
             "write", "exit"}
MainPC == {"eval", "spin", "epoll", "event", "lock", "drain", "js",
           "free", "freed"}

Sleepers == {w \in Workers : pc[w] = "sleep"}
Waiters  == {w \in Workers : pc[w] \in {"sleep", "woken"}}

(***************************************************************************)
(* pthread_cond_signal: one thread that waits on the condition variable,   *)
(* if there is one, stops waiting and goes for the mutex.  From the        *)
(* control points p, the set of those that may result.                     *)
(***************************************************************************)
Signal(p) ==
    LET asleep == {w \in Workers : p[w] = "sleep"}
    IN  IF asleep = {} THEN {p} ELSE {[p EXCEPT ![w] = "woken"] : w \in asleep}

\* write(efd): the counter becomes positive and epoll records an edge.
WriteEfd == efd' = TRUE /\ epReady' = TRUE

(* ev_loop_init, and main up to the evaluation of the module. *)
Init ==
    /\ pc = [w \in Workers |-> "lock"]
    /\ req = [w \in Workers |-> NoReq]
    /\ lock0 = NoOne /\ lock1 = NoOne
    /\ head0 = <<>> /\ head1 = <<>>
    /\ wait_threads = 0
    /\ alive_threads = nthreads
    /\ stop = FALSE
    /\ efd = FALSE /\ epReady = FALSE
    /\ mainpc = "eval"
    /\ cur = NoReq
    /\ adding = NoReq
    /\ errnum = [r \in Reqs |-> FALSE]
    /\ live = {}
    /\ promise = [r \in Reqs |-> "none"]
-----------------------------------------------------------------------------
(***************************************************************************)
(* Faulty variants of steps defined below: slips that a change to the code *)
(* could make, used to see that the properties would notice them.          *)
(***************************************************************************)

\* EV_REQ_ADD signals only if two threads wait.
ReqAddSignalLate ==
    /\ adding # NoReq
    /\ lock0 = NoOne
    /\ head0' = Append(head0, adding)
    /\ \E p \in IF wait_threads > 1 THEN Signal(pc) ELSE {pc} : pc' = p
    /\ adding' = NoReq
    /\ UNCHANGED <<req, lock0, lock1, wait_threads, alive_threads, stop, head1,
                   eventVars, mainpc, cur, errnum, live, promise>>

\* EV_REQ_ADD uses LIST_ADD, which inserts at the front.
ReqAddFront ==
    /\ adding # NoReq
    /\ lock0 = NoOne
    /\ head0' = <<adding>> \o head0
    /\ \E p \in IF wait_threads > 0 THEN Signal(pc) ELSE {pc} : pc' = p
    /\ adding' = NoReq
    /\ UNCHANGED <<req, lock0, lock1, wait_threads, alive_threads, stop, head1,
                   eventVars, mainpc, cur, errnum, live, promise>>

\* The waiting thread leaves its own count to the thread that signals it.
WakeNoCount(w) ==
    /\ pc[w] = "woken"
    /\ lock0 = NoOne
    /\ pc' = [pc EXCEPT ![w] = "test"]
    /\ lock0' = w
    /\ UNCHANGED <<req, lock1, poolVars, head1, eventVars, mainVars, errnum>>

\* The worker forgets EV_UNLOCK(lock[0]) on its way to the work.
TakeNoUnlock(w) ==
    /\ pc[w] = "test"
    /\ head0 # <<>>
    /\ req' = [req EXCEPT ![w] = Head(head0)]
    /\ head0' = Tail(head0)
    /\ pc' = [pc EXCEPT ![w] = "work"]
    /\ UNCHANGED <<lock0, lock1, wait_threads, alive_threads, stop, head1,
                   eventVars, mainVars, errnum>>

\* The drain stops after one request, as if(...) in place of while(...).
DrainedEarly ==
    /\ mainpc = "drain"
    /\ lock1' = NoOne
    /\ mainpc' = "epoll"
    /\ UNCHANGED <<workerVars, lock0, poolVars, head1, eventVars, cur, adding,
                   errnum, live, promise>>

\* The callback is made on a request that LIST_DEL has not removed.
CallbackNoDel ==
    /\ mainpc = "drain"
    /\ head1 # <<>>
    /\ cur' = Head(head1)
    /\ promise' = [promise EXCEPT ![cur'] =
                      IF errnum[cur'] THEN "rejected" ELSE "fulfilled"]
    /\ mainpc' = "js"
    /\ UNCHANGED <<workerVars, lock0, lock1, poolVars, head1, eventVars, adding,
                   errnum, live>>
-----------------------------------------------------------------------------
(* ev_work: a worker thread. *)

\* EV_LOCK(lock[0]) at the top of the loop.
Lock0(w) ==
    /\ pc[w] = "lock"
    /\ lock0 = NoOne
    /\ lock0' = w
    /\ pc' = [pc EXCEPT ![w] = "test"]
    /\ UNCHANGED <<req, lock1, poolVars, head1, eventVars, mainVars, errnum>>

\* Nothing to do: count this thread as waiting, tell the main thread when
\* that makes all of them, and wait, which releases the mutex.
Sleep(w) ==
    /\ pc[w] = "test"
    /\ head0 = <<>>
    /\ wait_threads' = wait_threads + 1
    /\ IF wait_threads' >= nthreads THEN WriteEfd ELSE UNCHANGED eventVars
    /\ lock0' = NoOne
    /\ pc' = [pc EXCEPT ![w] = "sleep"]
    /\ UNCHANGED <<req, lock1, head0, alive_threads, stop, head1, mainVars, errnum>>

\* pthread_cond_wait may return without a signal.
SpuriousWakeup(w) ==
    /\ pc[w] = "sleep"
    /\ pc' = [pc EXCEPT ![w] = "woken"]
    /\ UNCHANGED <<req, lock0, lock1, poolVars, head1, eventVars, mainVars, errnum>>

\* pthread_cond_wait returns with the mutex; a stopped thread passes the
\* signal on and leaves, any other tests the list again.
Wake(w) ==
    /\ pc[w] = "woken"
    /\ lock0 = NoOne
    /\ wait_threads' = wait_threads - 1
    /\ IF stop
       THEN /\ alive_threads' = alive_threads - 1
            /\ \E p \in Signal([pc EXCEPT ![w] = "exit"]) : pc' = p
            /\ UNCHANGED lock0
       ELSE /\ pc' = [pc EXCEPT ![w] = "test"]
            /\ lock0' = w
            /\ UNCHANGED alive_threads
    /\ UNCHANGED <<req, lock1, head0, stop, head1, eventVars, mainVars, errnum>>

\* Take the oldest request, signal if there are more, release the mutex.
Take(w) ==
    /\ pc[w] = "test"
    /\ head0 # <<>>
    /\ req' = [req EXCEPT ![w] = Head(head0)]
    /\ head0' = Tail(head0)
    /\ LET working == [pc EXCEPT ![w] = "work"]
       IN  \E p \in IF head0' # <<>> THEN Signal(working) ELSE {working} : pc' = p
    /\ lock0' = NoOne
    /\ UNCHANGED <<lock1, wait_threads, alive_threads, stop, head1, eventVars,
                   mainVars, errnum>>

\* req->work(req): a blocking file operation, which sets errnum if it fails.
Work(w) ==
    /\ pc[w] = "work"
    /\ \E fails \in BOOLEAN : errnum' = [errnum EXCEPT ![req[w]] = fails]
    /\ pc' = [pc EXCEPT ![w] = "done"]
    /\ UNCHANGED <<req, lock0, lock1, poolVars, head1, eventVars, mainVars>>

Lock1(w) ==
    /\ pc[w] = "done"
    /\ lock1 = NoOne
    /\ lock1' = w
    /\ pc' = [pc EXCEPT ![w] = "push"]
    /\ UNCHANGED <<req, lock0, poolVars, head1, eventVars, mainVars, errnum>>

Push(w) ==
    /\ pc[w] = "push"
    /\ head1' = Append(head1, req[w])
    /\ req' = [req EXCEPT ![w] = NoReq]
    /\ pc' = [pc EXCEPT ![w] = "write"]
    /\ UNCHANGED <<lock0, lock1, poolVars, eventVars, mainVars, errnum>>

\* write(efd) and EV_UNLOCK(lock[1]).
Notify(w) ==
    /\ pc[w] = "write"
    /\ WriteEfd
    /\ lock1' = NoOne
    /\ pc' = [pc EXCEPT ![w] = "lock"]
    /\ UNCHANGED <<req, lock0, poolVars, head1, mainVars, errnum>>
-----------------------------------------------------------------------------
(* The script: fs.open, fs.read and fs.close, called while the module is   *)
(* evaluated or by a promise reaction that runs inside a callback.         *)

\* EIO_REQ_ALLOC and a new promise, whose resolver the request keeps.
FsCall(r) ==
    /\ mainpc \in {"eval", "js"}
    /\ adding = NoReq
    /\ promise[r] = "none"
    /\ live' = live \union {r}
    /\ promise' = [promise EXCEPT ![r] = "pending"]
    /\ adding' = r
    /\ UNCHANGED <<workerVars, lock0, lock1, poolVars, head1, eventVars, mainpc,
                   cur, errnum>>

\* EV_REQ_ADD: once lock[0] is free, queue the request and signal.
ReqAdd ==
    /\ adding # NoReq
    /\ lock0 = NoOne
    /\ head0' = Append(head0, adding)
    /\ \E p \in IF wait_threads > 0 THEN Signal(pc) ELSE {pc} : pc' = p
    /\ adding' = NoReq
    /\ UNCHANGED <<req, lock0, lock1, wait_threads, alive_threads, stop, head1,
                   eventVars, mainpc, cur, errnum, live, promise>>

(* main: the module has been evaluated.  Its promise is settled ... *)
EvalDone ==
    /\ mainpc = "eval" /\ adding = NoReq
    /\ mainpc' = "epoll"
    /\ UNCHANGED <<workerVars, lock0, lock1, poolVars, head1, eventVars, cur,
                   adding, errnum, live, promise>>

(* ... or pending, because the module awaits a request at its top level. *)
EvalAwait(r) ==
    /\ mainpc = "eval" /\ adding = NoReq
    /\ promise[r] = "pending"
    /\ mainpc' = "spin"
    /\ cur' = r
    /\ UNCHANGED <<workerVars, lock0, lock1, poolVars, head1, eventVars, errnum,
                   adding, live, promise>>

\* while(promise->State() == Promise::kPending) {}
SpinTest ==
    /\ mainpc = "spin"
    /\ IF promise[cur] = "pending"
       THEN UNCHANGED <<mainpc, cur>>
       ELSE mainpc' = "epoll" /\ cur' = NoReq
    /\ UNCHANGED <<workerVars, lock0, lock1, poolVars, head1, eventVars, errnum,
                   adding, live, promise>>
-----------------------------------------------------------------------------
(* ev_loop_run: the main thread. *)

\* epoll_wait returns the eventfd's edge.  (An edge recorded before the
\* counter was last read is dropped by the kernel and never returned.)
EpollWait ==
    /\ mainpc = "epoll"
    /\ epReady /\ efd
    /\ epReady' = FALSE
    /\ mainpc' = "event"
    /\ UNCHANGED <<workerVars, lock0, lock1, poolVars, head1, efd, cur, errnum,
                   adding, live, promise>>

\* epoll_wait fails (EINTR): the loop ends, main calls ev_loop_free.
EpollFails ==
    /\ mainpc = "epoll"
    /\ mainpc' = "free"
    /\ UNCHANGED <<workerVars, lock0, lock1, poolVars, head1, eventVars, cur,
                   adding, errnum, live, promise>>

\* read(efd) resets the counter, before lock[1] is taken.
ReadEfd ==
    /\ mainpc = "event"
    /\ efd' = FALSE
    /\ mainpc' = "lock"
    /\ UNCHANGED <<workerVars, lock0, lock1, poolVars, head1, epReady, cur,
                   adding, errnum, live, promise>>

MainLock1 ==
    /\ mainpc = "lock"
    /\ lock1 = NoOne
    /\ lock1' = Main
    /\ mainpc' = "drain"
    /\ UNCHANGED <<workerVars, lock0, poolVars, head1, eventVars, cur, errnum,
                   adding, live, promise>>

\* LIST_DEL and req->callback(req), which settles the promise as errnum says
\* and then, still inside the call, runs the script's reactions.
Callback ==
    /\ mainpc = "drain"
    /\ head1 # <<>>
    /\ cur' = Head(head1)
    /\ head1' = Tail(head1)
    /\ promise' = [promise EXCEPT ![cur'] =
                      IF errnum[cur'] THEN "rejected" ELSE "fulfilled"]
    /\ mainpc' = "js"
    /\ UNCHANGED <<workerVars, lock0, lock1, poolVars, eventVars, adding, errnum,
                   live>>

\* The callback returns; EIO_REQ_FREE(req).
FreeReq ==
    /\ mainpc = "js" /\ adding = NoReq
    /\ live' = live \ {cur}
    /\ cur' = NoReq
    /\ mainpc' = "drain"
    /\ UNCHANGED <<workerVars, lock0, lock1, poolVars, head1, eventVars, adding,
                   errnum, promise>>

\* head[1] is empty: EV_UNLOCK(lock[1]) and back to epoll_wait.
Drained ==
    /\ mainpc = "drain"
    /\ head1 = <<>>
    /\ lock1' = NoOne
    /\ mainpc' = "epoll"
    /\ UNCHANGED <<workerVars, lock0, poolVars, head1, eventVars, cur, errnum,
                   adding, live, promise>>

\* ev_loop_free polls alive_threads under lock[0], then closes the
\* descriptors and frees the lists and the locks.
FreeTest ==
    /\ mainpc = "free"
    /\ lock0 = NoOne
    /\ mainpc' = IF alive_threads <= 0 THEN "freed" ELSE "free"
    /\ UNCHANGED <<workerVars, lock0, lock1, poolVars, head1, eventVars, cur,
                   adding, errnum, live, promise>>
-----------------------------------------------------------------------------
Worker(w) ==
    \/ Lock0(w) \/ Sleep(w) \/ SpuriousWakeup(w) \/ Wake(w) \/ Take(w)
    \/ Work(w) \/ Lock1(w) \/ Push(w) \/ Notify(w)

MainThread ==
    \/ \E r \in Reqs : FsCall(r) \/ EvalAwait(r)
    \/ ReqAdd \/ EvalDone \/ SpinTest
    \/ EpollWait \/ EpollFails \/ ReadEfd \/ MainLock1 \/ Callback \/ FreeReq
    \/ Drained \/ FreeTest

Next == (\E w \in Workers : Worker(w)) \/ MainThread

Spec == Init /\ [][Next]_vars

(***************************************************************************)
(* Fairness: a thread that can run does, file operations and scripts end,  *)
(* and a thread that asks for a mutex which is free again and again gets   *)
(* it in the end.  A sleeping thread is owed nothing, a script need not    *)
(* call fs, epoll_wait need not fail.                                      *)
(***************************************************************************)
WorkerFairness(w) ==
    /\ WF_vars(Sleep(w) \/ Take(w) \/ Work(w) \/ Push(w) \/ Notify(w))
    /\ SF_vars(Lock0(w) \/ Wake(w) \/ Lock1(w))

MainFairness ==
    /\ WF_vars(EvalDone \/ SpinTest)
    /\ WF_vars(EpollWait \/ ReadEfd \/ Callback \/ FreeReq \/ Drained)
    /\ SF_vars(ReqAdd \/ MainLock1)

FairSpec == Spec /\ (\A w \in Workers : WorkerFairness(w)) /\ MainFairness
-----------------------------------------------------------------------------
(* Properties. *)

Settled == {"fulfilled", "rejected"}

\* Types of the loop's variables, the range of its counters included.
TypeOK ==
    /\ pc \in [Workers -> WorkerPC]
    /\ req \in [Workers -> Reqs \union {NoReq}]
    /\ lock0 \in Workers \union {NoOne}
    /\ lock1 \in Workers \union {Main, NoOne}
    /\ head0 \in Seq(Reqs) /\ head1 \in Seq(Reqs)
    /\ wait_threads \in 0 .. nthreads
    /\ alive_threads \in Int
    /\ stop \in BOOLEAN
    /\ efd \in BOOLEAN /\ epReady \in BOOLEAN
    /\ mainpc \in MainPC
    /\ cur \in Reqs \union {NoReq}
    /\ adding \in Reqs \union {NoReq}
    /\ errnum \in [Reqs -> BOOLEAN]
    /\ live \in SUBSET Reqs
    /\ promise \in [Reqs -> {"none", "pending"} \union Settled]

\* wait_threads, which EV_REQ_ADD and the idle test read, counts exactly the
\* threads between the entry to and the return from pthread_cond_wait.
WaitCount == wait_threads = Cardinality(Waiters)

\* No wakeup is lost and none comes short: while some thread sleeps, there
\* are at least as many threads on their way to head[0] as requests on it.
OnTheWay == {w \in Workers : pc[w] \in {"lock", "test", "woken"}}
WorkConserving == Sleepers = {} \/ Len(head0) <= Cardinality(OnTheWay)

\* A completed request is never left on head[1] without the main thread being
\* told: the edge is still to be delivered, or the main thread has taken it
\* and not finished draining, or the worker that queued the request holds
\* lock[1] and has yet to write the eventfd.
CompletionAnnounced ==
    head1 # <<>> =>
        \/ efd /\ epReady
        \/ mainpc \in {"event", "lock", "drain", "js"}
        \/ \E w \in Workers : pc[w] = "write"

\* Every request that is allocated is in exactly one place, so that nobody
\* uses one that is freed, no two threads share one, and none leaks: about to
\* be queued, on a list, in a worker's hand, or being called back.
Positions(r) ==
      {<<"adding", 0>> : x \in {adding} \intersect {r}}
    \union {<<"head0", i>> : i \in {j \in DOMAIN head0 : head0[j] = r}}
    \union {<<"worker", w>> : w \in {v \in Workers : req[v] = r}}
    \union {<<"head1", i>> : i \in {j \in DOMAIN head1 : head1[j] = r}}
    \union {<<"callback", 0>> : x \in IF mainpc = "js" THEN {cur} \intersect {r} ELSE {}}
OneOwner ==
    \A r \in Reqs : Cardinality(Positions(r)) = IF r \in live THEN 1 ELSE 0

\* A promise is pending as long as its request waits for its callback, and a
\* request outlives the settlement only until the callback returns.
LivePending ==
    live = {r \in Reqs : promise[r] = "pending"}
             \union (IF mainpc = "js" THEN {cur} ELSE {})

\* The loop does what the executor promises: requests start in the order in
\* which EV_REQ_ADD queued them, run once, settle once, in completion order.
InHand == {req[w] : w \in Workers} \ {NoReq}
Promised == [r \in Reqs |-> IF r = adding THEN "none" ELSE promise[r]]
EX == INSTANCE Executor WITH
        todo <- head0, running <- InHand, finished <- head1, promise <- Promised
ImplementsExecutor == EX!Spec

\* A request that has been issued is called back in the end, unless the main
\* thread never reaches the loop or has left it.
RequestsSettle ==
    \A r \in Reqs : promise[r] = "pending" ~>
                      (promise[r] \in Settled \/ mainpc \in {"spin", "free"})

\* The main thread comes back to epoll_wait after each event: a reaction that
\* queues a request while lock[1] is held does not get stuck.
DrainEnds == mainpc = "event" ~> mainpc = "epoll"

\* "Loop until module execution finish" (xxx/main.cc:96): the loop in main
\* that waits for the module's promise ends.
ModuleFinishes == mainpc = "spin" ~> mainpc # "spin"
=============================================================================
