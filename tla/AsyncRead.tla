----------------------------- MODULE AsyncRead -----------------------------
(***************************************************************************)
(* The first runtime, main.cc: readFileAsync puts a request on            *)
(* pending_list; worker threads take requests from it, read the file and   *)
(* put the requests on done_list; after the evaluation of the module the   *)
(* main thread creates the workers and then waits for requests on          *)
(* done_list and resolves their promises, which runs more of the script.   *)
(*                                                                         *)
(* Both lists are used newest first (list_add and list_remove work at the  *)
(* head).  Each list has a mutex and a condition variable; signals are     *)
(* sent after the mutex is released and are steps of their own.  A         *)
(* critical section of pending_mutex never blocks inside and is one step;  *)
(* the main thread holds done_mutex from its test of done_list to the end  *)
(* of the drain, the scripts it runs included.                             *)
(***************************************************************************)
EXTENDS Integers, Sequences, FiniteSets

CONSTANTS
    Workers,        \* the threads main creates
    Reqs,           \* the requests there are at any time (a bound)
    NoReq           \* no request

ASSUME WorkersAssumption == IsFiniteSet(Workers) /\ Workers # {}
ASSUME ReqsAssumption == NoReq \notin Reqs

VARIABLES
    pc,             \* where each worker is in thread_func
    task,           \* the request each worker has in hand
    pending,        \* pending_list, newest first
    done,           \* done_list, newest first
    mainpc,         \* where the main thread is
    cur,            \* the request being resolved, or awaited by the module
    signalling,     \* readFileAsync has yet to signal pending_cond
    result,         \* whether the request's file could be read
    live,           \* the ev_fs_t structures allocated and not yet freed
    promise         \* what the script sees of each request

workerVars == <<pc, task>>
mainVars   == <<mainpc, cur, signalling, live, promise>>
vars == <<pc, task, pending, done, mainpc, cur, signalling, result, live, promise>>

WorkerPC == {"none", "start", "sleep", "woken", "signal", "work", "finish", "signalDone"}
MainPC == {"eval", "spin", "create", "lock", "sleep", "woken", "drain", "js", "crashed"}

Sleepers == {w \in Workers : pc[w] = "sleep"}

\* pthread_cond_signal(&pending_cond), from the control points p.
SignalPending(p) ==
    LET asleep == {w \in Workers : p[w] = "sleep"}
    IN  IF asleep = {} THEN {p} ELSE {[p EXCEPT ![w] = "woken"] : w \in asleep}

\* Only the main thread takes done_mutex for more than one step.
DoneMutexFree == mainpc \notin {"drain", "js"}

\* Worker w is at one of the points p of thread_func, in a process that the
\* main thread has not crashed.
At(w, p) == pc[w] \in p /\ mainpc # "crashed"

(* main up to the evaluation of the module. *)
Init ==
    /\ pc = [w \in Workers |-> "none"]
    /\ task = [w \in Workers |-> NoReq]
    /\ pending = <<>> /\ done = <<>>
    /\ mainpc = "eval"
    /\ cur = NoReq
    /\ signalling = FALSE
    /\ result = [r \in Reqs |-> TRUE]
    /\ live = {}
    /\ promise = [r \in Reqs |-> "none"]
-----------------------------------------------------------------------------
(* Faulty variants of steps defined below, used to see that the properties *)
(* would notice such a slip.                                               *)

\* readFileAsync returns without a signal.
ReadFileAsyncSilent(r) ==
    /\ mainpc \in {"eval", "js"} /\ ~signalling
    /\ r \notin live
    /\ live' = live \union {r}
    /\ promise' = [promise EXCEPT ![r] = "pending"]
    /\ pending' = <<r>> \o pending
    /\ UNCHANGED <<workerVars, done, mainpc, cur, signalling, result>>

\* The worker goes back to its loop without a signal on done_cond.
FinishSilent(w) ==
    /\ At(w, {"finish"}) /\ DoneMutexFree
    /\ done' = <<task[w]>> \o done
    /\ task' = [task EXCEPT ![w] = NoReq]
    /\ pc' = [pc EXCEPT ![w] = "start"]
    /\ UNCHANGED <<pending, result, mainVars>>

\* if in place of while around the wait: a worker that wakes to an empty list
\* goes on with list_entry(NULL).
TakeUntested(w) ==
    /\ At(w, {"start", "woken"})
    /\ pc[w] = "start" => pending # <<>>
    /\ task' = [task EXCEPT ![w] = IF pending = <<>> THEN "null" ELSE Head(pending)]
    /\ pending' = IF pending = <<>> THEN pending ELSE Tail(pending)
    /\ pc' = [pc EXCEPT ![w] = "signal"]
    /\ UNCHANGED <<done, result, mainVars>>

\* list_first_entry in place of list_remove: the request stays on the list.
TakeKeeps(w) ==
    /\ At(w, {"start", "woken"}) /\ pending # <<>>
    /\ task' = [task EXCEPT ![w] = Head(pending)]
    /\ pc' = [pc EXCEPT ![w] = "signal"]
    /\ UNCHANGED <<pending, done, result, mainVars>>
-----------------------------------------------------------------------------
(* thread_func: a worker. *)

\* pending_list is empty: wait, at the first test or after a wakeup.
Wait(w) ==
    /\ At(w, {"start", "woken"}) /\ pending = <<>>
    /\ pc' = [pc EXCEPT ![w] = "sleep"]
    /\ UNCHANGED <<task, pending, done, result, mainVars>>

SpuriousWakeup(w) ==
    /\ At(w, {"sleep"})
    /\ pc' = [pc EXCEPT ![w] = "woken"]
    /\ UNCHANGED <<task, pending, done, result, mainVars>>

Take(w) ==
    /\ At(w, {"start", "woken"}) /\ pending # <<>>
    /\ task' = [task EXCEPT ![w] = Head(pending)]
    /\ pending' = Tail(pending)
    /\ pc' = [pc EXCEPT ![w] = "signal"]
    /\ UNCHANGED <<done, result, mainVars>>

\* Pass the signal on, whether or not anything is left.
PassOn(w) ==
    /\ At(w, {"signal"})
    /\ \E p \in SignalPending([pc EXCEPT ![w] = "work"]) : pc' = p
    /\ UNCHANGED <<task, pending, done, result, mainVars>>

\* read_file, which returns NULL if the file cannot be opened or read.
Work(w) ==
    /\ At(w, {"work"})
    /\ \E ok \in BOOLEAN : result' = [result EXCEPT ![task[w]] = ok]
    /\ pc' = [pc EXCEPT ![w] = "finish"]
    /\ UNCHANGED <<task, pending, done, mainVars>>

Finish(w) ==
    /\ At(w, {"finish"}) /\ DoneMutexFree
    /\ done' = <<task[w]>> \o done
    /\ task' = [task EXCEPT ![w] = NoReq]
    /\ pc' = [pc EXCEPT ![w] = "signalDone"]
    /\ UNCHANGED <<pending, result, mainVars>>

\* pthread_cond_signal(&done_cond): only the main thread waits on it.
SignalDone(w) ==
    /\ At(w, {"signalDone"})
    /\ pc' = [pc EXCEPT ![w] = "start"]
    /\ mainpc' = IF mainpc = "sleep" THEN "woken" ELSE mainpc
    /\ UNCHANGED <<task, pending, done, result, cur, signalling, live, promise>>
-----------------------------------------------------------------------------
(* The script, while the module is evaluated or in a promise reaction. *)

ReadFileAsync(r) ==
    /\ mainpc \in {"eval", "js"} /\ ~signalling
    /\ r \notin live
    /\ live' = live \union {r}
    /\ promise' = [promise EXCEPT ![r] = "pending"]
    /\ pending' = <<r>> \o pending
    /\ signalling' = TRUE
    /\ UNCHANGED <<workerVars, done, mainpc, cur, result>>

\* The signal on pending_cond, after the unlock; readFileAsync returns.
AsyncSignal ==
    /\ signalling
    /\ \E p \in SignalPending(pc) : pc' = p
    /\ signalling' = FALSE
    /\ UNCHANGED <<task, pending, done, result, mainpc, cur, live, promise>>

(* main: the module has been evaluated and its promise is settled ... *)
EvalDone ==
    /\ mainpc = "eval" /\ ~signalling
    /\ mainpc' = "create"
    /\ UNCHANGED <<workerVars, pending, done, cur, signalling, result, live, promise>>

(* ... or pending, because the module awaits a request at its top level. *)
EvalAwait(r) ==
    /\ mainpc = "eval" /\ ~signalling
    /\ promise[r] = "pending"
    /\ mainpc' = "spin"
    /\ cur' = r
    /\ UNCHANGED <<workerVars, pending, done, signalling, result, live, promise>>

\* while(result_promise->State() == Promise::kPending) {}
SpinTest ==
    /\ mainpc = "spin"
    /\ IF promise[cur] = "pending"
       THEN UNCHANGED <<mainpc, cur>>
       ELSE mainpc' = "create" /\ cur' = NoReq
    /\ UNCHANGED <<workerVars, pending, done, signalling, result, live, promise>>

CreateThread(w) ==
    /\ mainpc = "create"
    /\ pc[w] = "none"
    /\ pc' = [pc EXCEPT ![w] = "start"]
    /\ mainpc' = IF \E v \in Workers : pc'[v] = "none" THEN "create" ELSE "lock"
    /\ UNCHANGED <<task, pending, done, cur, signalling, result, live, promise>>

\* done_mutex is taken, at the top of the loop or by the wait, and done_list
\* tested: wait, or begin to drain.
TestDone ==
    /\ mainpc \in {"lock", "woken"}
    /\ mainpc' = IF done = <<>> THEN "sleep" ELSE "drain"
    /\ UNCHANGED <<workerVars, pending, done, cur, signalling, result, live, promise>>

MainSpuriousWakeup ==
    /\ mainpc = "sleep"
    /\ mainpc' = "woken"
    /\ UNCHANGED <<workerVars, pending, done, cur, signalling, result, live, promise>>

\* list_del and Resolve, which makes a string of the result (a NULL result
\* ends the process) and runs the reactions before it returns.
Resolve ==
    /\ mainpc = "drain" /\ done # <<>>
    /\ cur' = Head(done)
    /\ done' = Tail(done)
    /\ IF result[cur']
       THEN promise' = [promise EXCEPT ![cur'] = "fulfilled"] /\ mainpc' = "js"
       ELSE mainpc' = "crashed" /\ UNCHANGED promise
    /\ UNCHANGED <<workerVars, pending, signalling, result, live>>

\* Resolve returns; free(task), free(task->cb.result), delete task->cb.defer.
\* (The last two are read from the freed structure, of which the allocator
\* overwrites the list entry only.)
FreeTask ==
    /\ mainpc = "js" /\ ~signalling
    /\ live' = live \ {cur}
    /\ cur' = NoReq
    /\ mainpc' = "drain"
    /\ UNCHANGED <<workerVars, pending, done, signalling, result, promise>>

\* Unlock, signal done_cond (no worker waits on it), and around the loop.
Drained ==
    /\ mainpc = "drain" /\ done = <<>>
    /\ mainpc' = "lock"
    /\ UNCHANGED <<workerVars, pending, done, cur, signalling, result, live, promise>>
-----------------------------------------------------------------------------
Worker(w) ==
    \/ Wait(w) \/ SpuriousWakeup(w) \/ Take(w) \/ PassOn(w)
    \/ Work(w) \/ Finish(w) \/ SignalDone(w)

MainThread ==
    \/ \E r \in Reqs : ReadFileAsync(r) \/ EvalAwait(r)
    \/ \E w \in Workers : CreateThread(w)
    \/ AsyncSignal \/ EvalDone \/ SpinTest
    \/ TestDone \/ MainSpuriousWakeup \/ Resolve \/ FreeTask \/ Drained

Next == (\E w \in Workers : Worker(w)) \/ MainThread

Spec == Init /\ [][Next]_vars

\* Threads that can run do, reads and scripts end, and a worker that asks for
\* done_mutex, which is free again and again, gets it in the end.  (Every
\* critical section of pending_mutex is one step, so that this mutex is never
\* seen taken.)
FairSpec ==
    /\ Spec
    /\ \A w \in Workers :
          /\ WF_vars(Wait(w) \/ Take(w) \/ PassOn(w) \/ Work(w) \/ SignalDone(w))
          /\ SF_vars(Finish(w))
    /\ WF_vars(EvalDone \/ SpinTest \/ \E w \in Workers : CreateThread(w))
    /\ WF_vars(AsyncSignal \/ TestDone \/ Resolve \/ FreeTask \/ Drained)
-----------------------------------------------------------------------------
(* Properties. *)

\* Types of the program's variables.
TypeOK ==
    /\ pc \in [Workers -> WorkerPC]
    /\ task \in [Workers -> Reqs \union {NoReq}]
    /\ pending \in Seq(Reqs) /\ done \in Seq(Reqs)
    /\ mainpc \in MainPC
    /\ cur \in Reqs \union {NoReq}
    /\ signalling \in BOOLEAN
    /\ result \in [Reqs -> BOOLEAN]
    /\ live \in SUBSET Reqs
    /\ promise \in [Reqs -> {"none", "pending", "fulfilled"}]

\* While a worker sleeps, every pending request has a worker that is on its
\* way to the list, or a signal that is about to send it one.
Coming == {w \in Workers : pc[w] \in {"start", "woken", "signal"}}
WorkConserving ==
    Sleepers = {} \/ Len(pending) <= Cardinality(Coming) + (IF signalling THEN 1 ELSE 0)

\* The main thread never sleeps on finished requests without a signal coming.
CompletionAnnounced ==
    mainpc = "sleep" /\ done # <<>> => \E w \in Workers : pc[w] = "signalDone"

\* Every request that is allocated is on one list, in one worker's hands or
\* being resolved, and one that is freed is nowhere.
Occurrences(r) ==
      {<<"pending", i>> : i \in {j \in DOMAIN pending : pending[j] = r}}
    \union {<<"worker", w>> : w \in {v \in Workers : task[v] = r}}
    \union {<<"done", i>> : i \in {j \in DOMAIN done : done[j] = r}}
    \union {<<"main", 0>> : x \in IF mainpc \in {"js", "crashed"} THEN {cur} \intersect {r} ELSE {}}
OneOwner ==
    \A r \in Reqs : Cardinality(Occurrences(r)) = IF r \in live THEN 1 ELSE 0

\* If the script stops asking for more, every request is answered: newest
\* first can only delay a request for as long as newer ones keep coming.
Quiet == <>[][\A r \in Reqs : ~ReadFileAsync(r)]_vars
AnsweredWhenQuiet ==
    Quiet => \A r \in Reqs :
                promise[r] = "pending" ~>
                   (promise[r] = "fulfilled" \/ mainpc \in {"spin", "crashed"})
=============================================================================
