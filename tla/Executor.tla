------------------------------ MODULE Executor ------------------------------
(***************************************************************************)
(* What the asynchronous file API promises the script that calls it: a    *)
(* request is started in the order in which it was submitted, is executed  *)
(* by one worker, and settles its promise once, in the order in which the  *)
(* work ended.  No threads, locks, condition variables or descriptors: the *)
(* event loop of xxx/ev/ev.c (EvLoop) implements this module.              *)
(***************************************************************************)
EXTENDS Sequences

CONSTANT Reqs       \* the requests a run of the program may submit

VARIABLES
    todo,           \* submitted and not started, oldest first
    running,        \* being executed by some worker
    finished,       \* executed and not reported, oldest first
    promise         \* what the script sees of each request

vars == <<todo, running, finished, promise>>

Settled == {"fulfilled", "rejected"}

Init ==
    /\ todo = <<>>
    /\ running = {}
    /\ finished = <<>>
    /\ promise = [r \in Reqs |-> "none"]

\* The script calls an fs function and gets a promise.
Submit(r) ==
    /\ promise[r] = "none"
    /\ promise' = [promise EXCEPT ![r] = "pending"]
    /\ todo' = Append(todo, r)
    /\ UNCHANGED <<running, finished>>

\* A worker begins the oldest request.
Start ==
    /\ todo # <<>>
    /\ running' = running \union {Head(todo)}
    /\ todo' = Tail(todo)
    /\ UNCHANGED <<finished, promise>>

\* The work of r has ended and r waits for the script's thread.
Finish(r) ==
    /\ r \in running
    /\ running' = running \ {r}
    /\ finished' = Append(finished, r)
    /\ UNCHANGED <<todo, promise>>

\* The promise of the request that has waited longest is settled.
Deliver ==
    /\ finished # <<>>
    /\ promise[Head(finished)] = "pending"
    /\ \E outcome \in Settled :
          promise' = [promise EXCEPT ![Head(finished)] = outcome]
    /\ finished' = Tail(finished)
    /\ UNCHANGED <<todo, running>>

Next ==
    \/ \E r \in Reqs : Submit(r) \/ Finish(r)
    \/ Start
    \/ Deliver

Spec == Init /\ [][Next]_vars
=============================================================================
