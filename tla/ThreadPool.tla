----------------------------- MODULE ThreadPool -----------------------------
(***************************************************************************)
(* The thread pool of ev_thread_pool.cc: every thread has a mutex, a       *)
(* condition variable and a list of tasks of its own; the main thread adds *)
(* a task to each thread in turn, several times round, and then destroys   *)
(* the pool.                                                               *)
(*                                                                         *)
(* A thread holds its mutex over several steps, because one of its paths   *)
(* never gives it back; each critical section of the main thread is one    *)
(* step that waits until the mutex is free.  Signals are sent after the    *)
(* mutex is released and are steps of their own.  The model begins when    *)
(* ev_thread_pool_init has returned.                                       *)
(***************************************************************************)
EXTENDS Integers, Sequences

CONSTANTS
    NThreads,       \* min_num: the threads of the pool
    Rounds          \* how often main goes round the threads adding tasks

ASSUME NThreadsAssumption == NThreads \in Nat \ {0}
ASSUME RoundsAssumption == Rounds \in Nat \ {0}

Threads == 1 .. NThreads
Tasks   == Nat \ {0}        \* numbered in the order in which they are added
NoTask  == 0

VARIABLES
    pc,             \* where each thread is in ev_task_info_func
    held,           \* each thread: it holds its own mutex
    status,         \* 0 thread running, 1 pool destroy, 2 thread exit
    list,           \* the tasks queued for each thread
    task,           \* the task each thread has in hand
    infos,          \* the ev_thread_infos not yet freed
    tasks,          \* the ev_task_infos allocated and not yet freed
    mainpc,         \* where main is
    at,             \* the thread main deals with
    added,          \* tasks added so far
    count           \* rounds completed by main

threadVars == <<status, list, infos>>
mainVars   == <<mainpc, at, added, count>>
vars == <<pc, held, status, list, task, infos, tasks, mainpc, at, added, count>>

ThreadPC == {"lock", "first", "sleep", "woken", "second", "work", "signal", "exit"}
MainPC == {"add", "added", "mark", "marked", "reap", "poll", "done"}

\* The thread after w on the pool's list, or the first one after the last.
Following(w) == IF w = NThreads THEN 1 ELSE w + 1

InList(w) == {list[w][i] : i \in DOMAIN list[w]}

\* pthread_cond_signal on the condition variable only thread w waits on.
Signal(w) == pc' = IF pc[w] = "sleep" THEN [pc EXCEPT ![w] = "woken"] ELSE pc

(* ev_thread_pool_init, and main's variables before its loop. *)
Init ==
    /\ pc = [w \in Threads |-> "lock"]
    /\ held = [w \in Threads |-> FALSE]
    /\ status = [w \in Threads |-> 0]
    /\ list = [w \in Threads |-> <<>>]
    /\ task = [w \in Threads |-> NoTask]
    /\ infos = Threads
    /\ tasks = {}
    /\ mainpc = "add"
    /\ at = 1
    /\ added = 0
    /\ count = 0
-----------------------------------------------------------------------------
(* Faulty variants of steps defined below, used to see that the properties *)
(* would notice such a slip.                                               *)

\* The thread says that it exits and goes on (no break).
ExitNoBreak(w) ==
    /\ pc[w] = "second" /\ list[w] = <<>> /\ status[w] # 0
    /\ status' = [status EXCEPT ![w] = @ + 1]
    /\ held' = [held EXCEPT ![w] = FALSE]
    /\ pc' = [pc EXCEPT ![w] = "lock"]
    /\ UNCHANGED <<list, task, infos, tasks, mainVars>>

\* The thread leaves without saying so.
ExitSilent(w) ==
    /\ pc[w] = "second" /\ list[w] = <<>> /\ status[w] # 0
    /\ held' = [held EXCEPT ![w] = FALSE]
    /\ pc' = [pc EXCEPT ![w] = "signal"]
    /\ UNCHANGED <<threadVars, task, tasks, mainVars>>

\* ev_task_info_add puts the task at the front of a list.
AddFront ==
    /\ mainpc = "add" /\ ~held[at]
    /\ added' = added + 1
    /\ tasks' = tasks \union {added'}
    /\ list' = [list EXCEPT ![at] = <<added'>> \o @]
    /\ mainpc' = "added"
    /\ UNCHANGED <<pc, held, status, task, infos, at, count>>

\* ev_task_info_add signals before the task is on the list.
AddSignalLost ==
    /\ mainpc = "added"
    /\ at' = Following(at)
    /\ count' = IF at = NThreads THEN count + 1 ELSE count
    /\ mainpc' = IF count' = Rounds THEN "mark" ELSE "add"
    /\ UNCHANGED <<pc, held, threadVars, task, tasks, added>>

\* The destroyer frees the tasks and leaves them on the list.
MarkKeepList ==
    /\ mainpc = "mark" /\ ~held[at]
    /\ status' = [status EXCEPT ![at] = @ + 1]
    /\ tasks' = tasks \ InList(at)
    /\ mainpc' = "marked"
    /\ UNCHANGED <<pc, held, list, task, infos, at, added, count>>

\* The destroyer frees a thread that has not said that it exits.
ReapEarly ==
    /\ mainpc = "reap" /\ ~held[at]
    /\ infos' = infos \ {at}
    /\ IF at = NThreads
       THEN mainpc' = "done" /\ UNCHANGED at
       ELSE at' = at + 1 /\ UNCHANGED mainpc
    /\ UNCHANGED <<pc, held, status, list, task, tasks, added, count>>

\* The destroyer polls the status without signalling again.
PollNoSignal ==
    /\ mainpc = "poll"
    /\ mainpc' = "reap"
    /\ UNCHANGED <<pc, held, threadVars, task, tasks, at, added, count>>
-----------------------------------------------------------------------------
(* ev_task_info_func: a thread of the pool. *)

Lock(w) ==
    /\ pc[w] = "lock" /\ ~held[w]
    /\ held' = [held EXCEPT ![w] = TRUE]
    /\ pc' = [pc EXCEPT ![w] = "first"]
    /\ UNCHANGED <<threadVars, task, tasks, mainVars>>

\* if(head == NULL) pthread_cond_wait, whatever the status is.
Wait(w) ==
    /\ pc[w] = "first" /\ list[w] = <<>>
    /\ held' = [held EXCEPT ![w] = FALSE]
    /\ pc' = [pc EXCEPT ![w] = "sleep"]
    /\ UNCHANGED <<threadVars, task, tasks, mainVars>>

SpuriousWakeup(w) ==
    /\ pc[w] = "sleep"
    /\ pc' = [pc EXCEPT ![w] = "woken"]
    /\ UNCHANGED <<held, threadVars, task, tasks, mainVars>>

\* pthread_cond_wait returns with the mutex.
Wake(w) ==
    /\ pc[w] = "woken" /\ ~held[w]
    /\ held' = [held EXCEPT ![w] = TRUE]
    /\ pc' = [pc EXCEPT ![w] = "second"]
    /\ UNCHANGED <<threadVars, task, tasks, mainVars>>

\* Woken for nothing: continue, to the lock, with the mutex still held.
Continue(w) ==
    /\ pc[w] = "second" /\ list[w] = <<>> /\ status[w] = 0
    /\ pc' = [pc EXCEPT ![w] = "lock"]
    /\ UNCHANGED <<held, threadVars, task, tasks, mainVars>>

\* Woken because the pool is being destroyed: say so and leave the loop.
Exit(w) ==
    /\ pc[w] = "second" /\ list[w] = <<>> /\ status[w] # 0
    /\ status' = [status EXCEPT ![w] = @ + 1]
    /\ held' = [held EXCEPT ![w] = FALSE]
    /\ pc' = [pc EXCEPT ![w] = "signal"]
    /\ UNCHANGED <<list, task, infos, tasks, mainVars>>

\* The signal after the unlock; nobody else waits on this condition variable.
ExitSignal(w) ==
    /\ pc[w] = "signal"
    /\ pc' = [pc EXCEPT ![w] = "exit"]
    /\ UNCHANGED <<held, threadVars, task, tasks, mainVars>>

Take(w) ==
    /\ pc[w] \in {"first", "second"} /\ list[w] # <<>>
    /\ task' = [task EXCEPT ![w] = Head(list[w])]
    /\ list' = [list EXCEPT ![w] = Tail(@)]
    /\ held' = [held EXCEPT ![w] = FALSE]
    /\ pc' = [pc EXCEPT ![w] = "work"]
    /\ UNCHANGED <<status, infos, tasks, mainVars>>

\* func(arg), callback(arg), free(task_info).
Work(w) ==
    /\ pc[w] = "work"
    /\ tasks' = tasks \ {task[w]}
    /\ task' = [task EXCEPT ![w] = NoTask]
    /\ pc' = [pc EXCEPT ![w] = "lock"]
    /\ UNCHANGED <<held, threadVars, mainVars>>
-----------------------------------------------------------------------------
(* main: ev_task_info_add, for each thread in turn. *)

Add ==
    /\ mainpc = "add" /\ ~held[at]
    /\ added' = added + 1
    /\ tasks' = tasks \union {added'}
    /\ list' = [list EXCEPT ![at] = Append(@, added')]
    /\ mainpc' = "added"
    /\ UNCHANGED <<pc, held, status, task, infos, at, count>>

\* The signal after the unlock; then the next thread, or the destruction.
AddSignal ==
    /\ mainpc = "added"
    /\ Signal(at)
    /\ at' = Following(at)
    /\ count' = IF at = NThreads THEN count + 1 ELSE count
    /\ mainpc' = IF count' = Rounds THEN "mark" ELSE "add"
    /\ UNCHANGED <<held, threadVars, task, tasks, added>>

(* main: ev_thread_pool_destroy. *)

\* First loop: raise the status, free the tasks that nobody has begun.
Mark ==
    /\ mainpc = "mark" /\ ~held[at]
    /\ status' = [status EXCEPT ![at] = @ + 1]
    /\ tasks' = tasks \ InList(at)
    /\ list' = [list EXCEPT ![at] = <<>>]
    /\ mainpc' = "marked"
    /\ UNCHANGED <<pc, held, task, infos, at, added, count>>

MarkSignal ==
    /\ mainpc = "marked"
    /\ Signal(at)
    /\ at' = Following(at)
    /\ mainpc' = IF at = NThreads THEN "reap" ELSE "mark"
    /\ UNCHANGED <<held, threadVars, task, tasks, added, count>>

\* Second loop: free a thread that has left, poll one that has not.
Reap ==
    /\ mainpc = "reap" /\ ~held[at]
    /\ IF status[at] = 2
       THEN /\ infos' = infos \ {at}
            /\ IF at = NThreads
               THEN mainpc' = "done" /\ UNCHANGED at
               ELSE at' = at + 1 /\ UNCHANGED mainpc
       ELSE mainpc' = "poll" /\ UNCHANGED <<infos, at>>
    /\ UNCHANGED <<pc, held, status, list, task, tasks, added, count>>

PollSignal ==
    /\ mainpc = "poll"
    /\ Signal(at)
    /\ mainpc' = "reap"
    /\ UNCHANGED <<held, threadVars, task, tasks, at, added, count>>
-----------------------------------------------------------------------------
Thread(w) ==
    \/ Lock(w) \/ Wait(w) \/ SpuriousWakeup(w) \/ Wake(w) \/ Continue(w)
    \/ Exit(w) \/ ExitSignal(w) \/ Take(w) \/ Work(w)

MainThread == Add \/ AddSignal \/ Mark \/ MarkSignal \/ Reap \/ PollSignal

Next == (\E w \in Threads : Thread(w)) \/ MainThread

Spec == Init /\ [][Next]_vars

\* Threads that can run do, tasks end, and a thread that asks for a mutex that
\* is free again and again gets it.  Nobody is owed a spurious wakeup.
FairSpec ==
    /\ Spec
    /\ \A w \in Threads :
          /\ WF_vars(Wait(w) \/ Continue(w) \/ Exit(w) \/ ExitSignal(w)
                       \/ Take(w) \/ Work(w))
          /\ SF_vars(Lock(w) \/ Wake(w))
    /\ WF_vars(AddSignal \/ MarkSignal \/ PollSignal)
    /\ SF_vars(Add \/ Mark \/ Reap)
-----------------------------------------------------------------------------
(* Properties. *)

\* Types of the pool's variables; a status never leaves the documented range.
TypeOK ==
    /\ pc \in [Threads -> ThreadPC]
    /\ held \in [Threads -> BOOLEAN]
    /\ status \in [Threads -> 0 .. 2]
    /\ list \in [Threads -> Seq(Tasks)]
    /\ task \in [Threads -> Tasks \union {NoTask}]
    /\ infos \in SUBSET Threads
    /\ tasks \subseteq Tasks
    /\ mainpc \in MainPC
    /\ at \in Threads
    /\ added \in Nat
    /\ count \in 0 .. Rounds

\* "0-thread running, 1-pool destroy, 2-thread exit" (line 15): the status is
\* 0 until the destroyer has come to the thread, 2 once the thread has left
\* its loop, and 1 in between.
Marked(w) ==
    \/ mainpc \in {"reap", "poll", "done"}
    \/ mainpc \in {"mark", "marked"} /\ w < at
    \/ mainpc = "marked" /\ w = at
StatusMeaning ==
    \A w \in Threads :
        status[w] = IF pc[w] \in {"signal", "exit"} THEN 2
                    ELSE IF Marked(w) THEN 1 ELSE 0

\* Each task that is allocated is on one list or in the hands of one thread,
\* and nothing refers to one that is freed: the destroyer and the threads
\* free every task exactly once between them.
OneOwner ==
    /\ tasks = (UNION {InList(w) : w \in Threads})
                 \union ({task[w] : w \in Threads} \ {NoTask})
    /\ \A v, w \in Threads :
          /\ task[v] \notin InList(w)
          /\ v # w => /\ InList(v) \intersect InList(w) = {}
                      /\ task[v] = task[w] => task[v] = NoTask

\* A thread begins its tasks in the order in which they were added.
InOrder ==
    \A w \in Threads :
        /\ \A i, j \in DOMAIN list[w] : i < j => list[w][i] < list[w][j]
        /\ \A i \in DOMAIN list[w] : task[w] < list[w][i]

\* When the destroyer frees a thread's data, that thread has left its loop;
\* all it may still do with them is the signal after its unlock.
ReleaseLast ==
    \A w \in Threads \ infos : pc[w] \in {"signal", "exit"}

\* "waiting task to finish, then release memory" (line 89): the data of a
\* thread are freed only when it will not use them any more.
ReleasedUnused == \A w \in Threads \ infos : pc[w] = "exit"

\* A queued task is begun, or freed by the destroyer, in the end: the signal
\* that follows the unlock is never missed by a thread that needs it.
TasksLeave ==
    \A w \in Threads, t \in 1 .. NThreads * Rounds : t \in InList(w) ~> t \notin InList(w)

\* A thread that waits for the mutex it holds itself.
SelfLocked(w) == pc[w] = "lock" /\ held[w]

\* The only way in which main does not come to an end is that a thread has
\* locked itself out: the polled signal makes up for those that came before
\* the thread slept.
EndsOrSelfLocked == <>(mainpc = "done" \/ \E w \in Threads : SelfLocked(w))

\* "waiting task to finish, then release memory" (line 89): the destruction,
\* once begun, waits for the tasks in hand and then comes to an end.
DestroyReturns == mainpc = "mark" ~> mainpc = "done"
=============================================================================
