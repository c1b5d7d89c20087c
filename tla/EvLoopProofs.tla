---------------------------- MODULE EvLoopProofs ----------------------------
(***************************************************************************)
(* Proofs that, for any finite set of workers and any set of requests, the *)
(* event loop counts its waiting threads exactly, never loses a wakeup and *)
(* never leaves a completed request unannounced; that every request is in  *)
(* one place as long as its promise is pending; and that the loop          *)
(* implements Executor.                                                    *)
(*                                                                         *)
(* The inductive invariant is the conjunction of Types, Locks (who is      *)
(* where while a mutex is held) and the first properties themselves; each  *)
(* part is shown to be preserved from the parts it rests on.  Own is       *)
(* inductive together with it.                                             *)
(***************************************************************************)
EXTENDS EvLoop, ListLemmas, TLAPS

\* TypeOK without the range of the counter, and who has a request at hand.
Types ==
    /\ pc \in [Workers -> WorkerPC]
    /\ req \in [Workers -> Reqs \union {NoReq}]
    /\ lock0 \in Workers \union {NoOne}
    /\ lock1 \in Workers \union {Main, NoOne}
    /\ head0 \in Seq(Reqs)
    /\ head1 \in Seq(Reqs)
    /\ wait_threads \in Int
    /\ alive_threads \in Int
    /\ stop = FALSE
    /\ efd \in BOOLEAN
    /\ epReady \in BOOLEAN
    /\ mainpc \in MainPC
    /\ cur \in Reqs \union {NoReq}
    /\ adding \in Reqs \union {NoReq}
    /\ errnum \in [Reqs -> BOOLEAN]
    /\ live \in SUBSET Reqs
    /\ promise \in [Reqs -> {"none", "pending"} \union Settled]
    /\ \A w \in Workers : pc[w] \in {"work", "done", "push"} => req[w] \in Reqs
    /\ mainpc \in {"spin", "js"} => cur \in Reqs

\* The control points at which a mutex is held are those of its owner.
Locks ==
    /\ \A w \in Workers : pc[w] = "test" <=> lock0 = w
    /\ \A w \in Workers : pc[w] \in {"push", "write"} <=> lock1 = w
    /\ mainpc \in {"drain", "js"} <=> lock1 = Main

\* Signal changes at most one control point, from "sleep" to "woken".
LEMMA SignalLemma ==
    ASSUME NEW p \in [Workers -> WorkerPC], NEW q \in Signal(p)
    PROVE  /\ q \in [Workers -> WorkerPC]
           /\ \A w \in Workers : q[w] = p[w] \/ (p[w] = "sleep" /\ q[w] = "woken")
           /\ (\E v \in Workers : p[v] = "sleep") =>
                  \E v \in Workers : p[v] = "sleep" /\ q = [p EXCEPT ![v] = "woken"]
  BY DEF Signal, WorkerPC

\* Take moves its own thread to "work" and at most wakes sleepers.
LEMMA TakeWakes ==
    ASSUME Types, NEW w \in Workers, Take(w)
    PROVE  /\ pc' \in [Workers -> WorkerPC]
           /\ pc'[w] = "work"
           /\ \A v \in Workers \ {w} :
                 pc'[v] = pc[v] \/ (pc[v] = "sleep" /\ pc'[v] = "woken")
<1> DEFINE p == [pc EXCEPT ![w] = "work"]
<1>1. p \in [Workers -> WorkerPC]
  BY DEF Types, WorkerPC
<1>2. pc' = p \/ pc' \in Signal(p)
  BY DEF Take
<1>3. /\ p[w] = "work"
      /\ \A v \in Workers \ {w} : p[v] = pc[v]
  BY DEF Types
<1>4. CASE pc' = p
  BY <1>1, <1>3, <1>4
<1>5. CASE pc' \in Signal(p)
  <2> HIDE DEF p
  <2> QED
    BY <1>1, <1>3, <1>5, SignalLemma
<1> QED
  BY <1>2, <1>4, <1>5

\* EV_REQ_ADD at most wakes sleepers.
LEMMA ReqAddWakes ==
    ASSUME Types, ReqAdd
    PROVE  /\ pc' \in [Workers -> WorkerPC]
           /\ \A v \in Workers :
                 pc'[v] = pc[v] \/ (pc[v] = "sleep" /\ pc'[v] = "woken")
<1>1. pc' = pc \/ pc' \in Signal(pc)
  BY DEF ReqAdd
<1> QED
  BY <1>1, SignalLemma DEF Types

LEMMA TypesInit == Init => Types
<1> SUFFICES ASSUME Init PROVE Types
  OBVIOUS
<1>1. nthreads \in Int
  BY WorkersAssumption, FS_CardinalityType DEF nthreads
<1>2. stop = FALSE /\ efd \in BOOLEAN /\ epReady \in BOOLEAN
  BY Zenon DEF Init
<1>3. errnum \in [Reqs -> BOOLEAN]
  BY DEF Init
<1> QED
  BY <1>1, <1>2, <1>3 DEF Init, Types, WorkerPC, MainPC, Settled

LEMMA TypesStep == Types /\ [Next]_vars => Types'
<1> SUFFICES ASSUME Types, [Next]_vars PROVE Types'
  OBVIOUS
<1> USE DEF Types, workerVars, poolVars, eventVars, mainVars
<1>1. ASSUME NEW w \in Workers, Lock0(w) PROVE Types'
  BY <1>1 DEF Lock0, WorkerPC
<1>2. ASSUME NEW w \in Workers, Sleep(w) PROVE Types'
  <2>1. efd' \in BOOLEAN /\ epReady' \in BOOLEAN
    BY <1>2, Zenon DEF Sleep, WriteEfd
  <2>2. /\ wait_threads' \in Int
        /\ lock0' = NoOne
        /\ pc' = [pc EXCEPT ![w] = "sleep"]
        /\ UNCHANGED <<req, lock1, head0, alive_threads, stop, head1, mainVars, errnum>>
    BY <1>2 DEF Sleep
  <2> QED
    BY <2>1, <2>2 DEF WorkerPC
<1>3. ASSUME NEW w \in Workers, SpuriousWakeup(w) PROVE Types'
  BY <1>3 DEF SpuriousWakeup, WorkerPC
<1>4. ASSUME NEW w \in Workers, Wake(w) PROVE Types'
  BY <1>4 DEF Wake, WorkerPC
<1>5. ASSUME NEW w \in Workers, Take(w) PROVE Types'
  <2>3. /\ pc' \in [Workers -> WorkerPC]
        /\ \A v \in Workers \ {w} : pc'[v] = pc[v] \/ pc'[v] = "woken"
    BY <1>5, TakeWakes
  <2>4. Head(head0) \in Reqs /\ Tail(head0) \in Seq(Reqs)
    BY <1>5 DEF Take
  <2>5. \A v \in Workers : pc'[v] \in {"work", "done", "push"} => req'[v] \in Reqs
    BY <1>5, <2>3, <2>4 DEF Take
  <2> QED
    BY <1>5, <2>3, <2>4, <2>5 DEF Take
<1>6. ASSUME NEW w \in Workers, Work(w) PROVE Types'
  BY <1>6 DEF Work, WorkerPC
<1>7. ASSUME NEW w \in Workers, Lock1(w) PROVE Types'
  BY <1>7 DEF Lock1, WorkerPC
<1>8. ASSUME NEW w \in Workers, Push(w) PROVE Types'
  BY <1>8 DEF Push, WorkerPC
<1>9. ASSUME NEW w \in Workers, Notify(w) PROVE Types'
  BY <1>9 DEF Notify, WriteEfd, WorkerPC
<1>10. ASSUME NEW r \in Reqs, FsCall(r) PROVE Types'
  BY <1>10 DEF FsCall
<1>11. CASE ReqAdd
  <2>2. /\ pc' \in [Workers -> WorkerPC]
        /\ \A v \in Workers : pc'[v] = pc[v] \/ pc'[v] = "woken"
    BY <1>11, ReqAddWakes
  <2>3. head0' \in Seq(Reqs)
    BY <1>11 DEF ReqAdd
  <2>4. \A v \in Workers : pc'[v] \in {"work", "done", "push"} => req'[v] \in Reqs
    BY <1>11, <2>2 DEF ReqAdd
  <2> QED
    BY <1>11, <2>2, <2>3, <2>4 DEF ReqAdd
<1>12. CASE EvalDone
  BY <1>12 DEF EvalDone, MainPC
<1>13. ASSUME NEW r \in Reqs, EvalAwait(r) PROVE Types'
  BY <1>13 DEF EvalAwait, MainPC
<1>14. CASE SpinTest
  BY <1>14 DEF SpinTest, MainPC
<1>15. CASE EpollWait
  BY <1>15 DEF EpollWait, MainPC
<1>16. CASE EpollFails
  BY <1>16 DEF EpollFails, MainPC
<1>17. CASE ReadEfd
  BY <1>17 DEF ReadEfd, MainPC
<1>18. CASE MainLock1
  BY <1>18 DEF MainLock1, MainPC
<1>19. CASE Callback
  <2>1. Head(head1) \in Reqs /\ Tail(head1) \in Seq(Reqs)
    BY <1>19 DEF Callback
  <2> QED
    BY <1>19, <2>1 DEF Callback, MainPC, Settled
<1>20. CASE FreeReq
  BY <1>20 DEF FreeReq, MainPC
<1>21. CASE Drained
  BY <1>21 DEF Drained, MainPC
<1>22. CASE FreeTest
  BY <1>22 DEF FreeTest, MainPC
<1>23. CASE UNCHANGED vars
  BY <1>23 DEF vars
<1> QED
  BY <1>1, <1>2, <1>3, <1>4, <1>5, <1>6, <1>7, <1>8, <1>9, <1>10, <1>11,
     <1>12, <1>13, <1>14, <1>15, <1>16, <1>17, <1>18, <1>19, <1>20, <1>21,
     <1>22, <1>23 DEF Next, Worker, MainThread

LEMMA LocksStep == Types /\ Locks /\ [Next]_vars => Locks'
<1> SUFFICES ASSUME Types, Locks, [Next]_vars PROVE Locks'
  OBVIOUS
<1> USE ThreadsAssumption DEF Types, Locks, workerVars, poolVars, eventVars, mainVars
<1>1. ASSUME NEW w \in Workers, Lock0(w) PROVE Locks'
  BY <1>1 DEF Lock0
<1>2. ASSUME NEW w \in Workers, Sleep(w) PROVE Locks'
  BY <1>2 DEF Sleep
<1>3. ASSUME NEW w \in Workers, SpuriousWakeup(w) PROVE Locks'
  BY <1>3 DEF SpuriousWakeup
<1>4. ASSUME NEW w \in Workers, Wake(w) PROVE Locks'
  BY <1>4 DEF Wake
<1>5. ASSUME NEW w \in Workers, Take(w) PROVE Locks'
  BY <1>5, TakeWakes DEF Take
<1>6. ASSUME NEW w \in Workers, Work(w) PROVE Locks'
  BY <1>6 DEF Work
<1>7. ASSUME NEW w \in Workers, Lock1(w) PROVE Locks'
  BY <1>7 DEF Lock1
<1>8. ASSUME NEW w \in Workers, Push(w) PROVE Locks'
  BY <1>8 DEF Push
<1>9. ASSUME NEW w \in Workers, Notify(w) PROVE Locks'
  BY <1>9 DEF Notify
<1>10. CASE ReqAdd
  BY <1>10, ReqAddWakes DEF ReqAdd
<1>11. CASE MainLock1
  BY <1>11 DEF MainLock1
<1>12. CASE Callback
  BY <1>12 DEF Callback
<1>13. CASE FreeReq
  BY <1>13 DEF FreeReq
<1>14. CASE Drained
  BY <1>14 DEF Drained
<1>15. ASSUME NEW r \in Reqs, FsCall(r) \/ EvalAwait(r) PROVE Locks'
  BY <1>15 DEF FsCall, EvalAwait
<1>16. CASE EvalDone \/ SpinTest
  BY <1>16 DEF EvalDone, SpinTest
<1>17. CASE EpollWait \/ EpollFails \/ ReadEfd \/ FreeTest
  BY <1>17 DEF EpollWait, EpollFails, ReadEfd, FreeTest
<1>18. CASE UNCHANGED vars
  BY <1>18 DEF vars
<1> QED
  BY <1>1, <1>2, <1>3, <1>4, <1>5, <1>6, <1>7, <1>8, <1>9, <1>10, <1>11,
     <1>12, <1>13, <1>14, <1>15, <1>16, <1>17, <1>18 DEF Next, Worker, MainThread
-----------------------------------------------------------------------------
(* The counter of waiting threads. *)

LEMMA WaitersFinite == IsFiniteSet(Waiters) /\ Cardinality(Waiters) <= nthreads
  BY WorkersAssumption, FS_Subset DEF Waiters, nthreads

LEMMA CountStep == Types /\ WaitCount /\ [Next]_vars => WaitCount'
<1> SUFFICES ASSUME Types, WaitCount, [Next]_vars PROVE WaitCount'
  OBVIOUS
<1> USE DEF Types, workerVars, poolVars, eventVars, mainVars
\* Most steps leave the counter and the set of waiting threads alone.
<1>a. ASSUME UNCHANGED wait_threads,
             \A v \in Workers : pc[v] \in {"sleep", "woken"} <=> pc'[v] \in {"sleep", "woken"}
      PROVE  WaitCount'
  <2>1. Waiters' = Waiters
    BY <1>a DEF Waiters
  <2> QED
    BY <1>a, <2>1 DEF WaitCount
<1>1. ASSUME NEW w \in Workers, Sleep(w) PROVE WaitCount'
  <2>1. w \notin Waiters /\ Waiters' = Waiters \union {w}
    BY <1>1 DEF Sleep, Waiters
  <2>2. Cardinality(Waiters \union {w}) = Cardinality(Waiters) + 1
    BY <2>1, WaitersFinite, FS_AddElement
  <2> QED
    BY <1>1, <2>1, <2>2 DEF Sleep, WaitCount
<1>2. ASSUME NEW w \in Workers, Wake(w) PROVE WaitCount'
  <2>1. w \in Waiters /\ Waiters' = Waiters \ {w}
    BY <1>2 DEF Wake, Waiters
  <2>2. Cardinality(Waiters \ {w}) = Cardinality(Waiters) - 1
    BY <2>1, WaitersFinite, FS_RemoveElement
  <2> QED
    BY <1>2, <2>1, <2>2 DEF Wake, WaitCount
<1>3. ASSUME NEW w \in Workers, Take(w) PROVE WaitCount'
  BY <1>a, <1>3, TakeWakes DEF Take
<1>4. CASE ReqAdd
  BY <1>a, <1>4, ReqAddWakes DEF ReqAdd
<1>5. ASSUME NEW w \in Workers,
             Lock0(w) \/ SpuriousWakeup(w) \/ Work(w) \/ Lock1(w) \/ Push(w) \/ Notify(w)
      PROVE  WaitCount'
  BY <1>a, <1>5 DEF Lock0, SpuriousWakeup, Work, Lock1, Push, Notify
<1>6. ASSUME UNCHANGED <<wait_threads, pc>> PROVE WaitCount'
  BY <1>a, <1>6
<1>7. ASSUME NEW r \in Reqs, FsCall(r) \/ EvalAwait(r) PROVE WaitCount'
  BY <1>6, <1>7 DEF FsCall, EvalAwait
<1>8. CASE \/ EvalDone \/ SpinTest \/ EpollWait \/ EpollFails \/ ReadEfd \/ MainLock1
           \/ Callback \/ FreeReq \/ Drained \/ FreeTest \/ UNCHANGED vars
  BY <1>6, <1>8 DEF EvalDone, SpinTest, EpollWait, EpollFails, ReadEfd, MainLock1,
     Callback, FreeReq, Drained, FreeTest, vars
<1> QED
  BY <1>1, <1>2, <1>3, <1>4, <1>5, <1>7, <1>8 DEF Next, Worker, MainThread
-----------------------------------------------------------------------------
(* No wakeup is lost. *)

LEMMA OnTheWayFinite == IsFiniteSet(OnTheWay) /\ Cardinality(OnTheWay) \in Nat
  BY WorkersAssumption, FS_Subset, FS_CardinalityType DEF OnTheWay

\* A step that takes nobody off the way, puts nobody to sleep and queues
\* nothing keeps the property.
LEMMA ConservingMonotone ==
    ASSUME WorkConserving, Sleepers' \subseteq Sleepers, OnTheWay \subseteq OnTheWay',
           IsFiniteSet(OnTheWay'), UNCHANGED head0, head0 \in Seq(Reqs)
    PROVE  WorkConserving'
<1>1. Cardinality(OnTheWay) <= Cardinality(OnTheWay')
  BY FS_Subset
<1>2. Cardinality(OnTheWay) \in Nat /\ Cardinality(OnTheWay') \in Nat
  BY OnTheWayFinite, FS_CardinalityType
<1> QED
  BY <1>1, <1>2 DEF WorkConserving

LEMMA ConservingStep ==
    Types /\ WaitCount /\ WorkConserving /\ [Next]_vars => WorkConserving'
<1> SUFFICES ASSUME Types, WaitCount, WorkConserving, [Next]_vars
             PROVE  WorkConserving'
  OBVIOUS
<1> USE DEF Types, workerVars, poolVars, eventVars, mainVars
<1>a. IsFiniteSet(OnTheWay')
  BY WorkersAssumption, FS_Subset DEF OnTheWay
<1>b. ASSUME UNCHANGED head0,
             \A v \in Workers :
                /\ pc'[v] = "sleep" => pc[v] = "sleep"
                /\ pc[v] \in {"lock", "test", "woken"} => pc'[v] \in {"lock", "test", "woken"}
      PROVE  WorkConserving'
  <2>1. Sleepers' \subseteq Sleepers /\ OnTheWay \subseteq OnTheWay'
    BY <1>b DEF Sleepers, OnTheWay
  <2> QED
    BY <2>1, <1>a, <1>b, ConservingMonotone
<1>1. ASSUME NEW w \in Workers, Sleep(w) PROVE WorkConserving'
  <2>1. Len(head0') = 0
    BY <1>1 DEF Sleep
  <2>2. Cardinality(OnTheWay') \in Nat
    BY <1>a, FS_CardinalityType
  <2> QED
    BY <2>1, <2>2 DEF WorkConserving
<1>2. ASSUME NEW w \in Workers, Take(w) PROVE WorkConserving'
  \* One request less on the list, and at most this thread less on the way.
  <2>1. Sleepers' \subseteq Sleepers /\ OnTheWay \ {w} \subseteq OnTheWay'
    BY <1>2, TakeWakes DEF Sleepers, OnTheWay
  <2>2. w \in OnTheWay
    BY <1>2 DEF Take, OnTheWay
  <2>3. Cardinality(OnTheWay \ {w}) = Cardinality(OnTheWay) - 1
    BY <2>2, OnTheWayFinite, FS_RemoveElement
  <2>4. Cardinality(OnTheWay \ {w}) <= Cardinality(OnTheWay')
    BY <1>a, <2>1, FS_Subset
  <2>5. Cardinality(OnTheWay') \in Nat
    BY <1>a, FS_CardinalityType
  <2>6. Len(head0') = Len(head0) - 1
    BY <1>2 DEF Take
  <2>7. Sleepers = {} => Sleepers' = {}
    BY <2>1
  <2> QED
    BY <2>3, <2>4, <2>5, <2>6, <2>7, OnTheWayFinite DEF WorkConserving
<1>3. CASE ReqAdd
  <2>1. CASE Sleepers = {}
    <3>1. Sleepers' = {}
      BY <1>3, <2>1, ReqAddWakes DEF Sleepers
    <3> QED
      BY <3>1 DEF WorkConserving
  \* A sleeper is counted, so the macro signals and puts one on the way.
  <2>2. CASE Sleepers # {}
    <3>1. PICK u \in Workers : pc[u] = "sleep"
      BY <2>2 DEF Sleepers
    <3>2. Waiters # {}
      BY <3>1 DEF Waiters
    <3>3. wait_threads > 0
      <4>1. Cardinality(Waiters) # 0
        BY <3>2, WaitersFinite, FS_EmptySet
      <4>2. Cardinality(Waiters) \in Nat
        BY WaitersFinite, FS_CardinalityType
      <4> QED
        BY <4>1, <4>2 DEF WaitCount
    <3>4. pc' \in Signal(pc)
      BY <1>3, <3>3 DEF ReqAdd
    <3>5. PICK v \in Workers : pc[v] = "sleep" /\ pc' = [pc EXCEPT ![v] = "woken"]
      BY <3>1, <3>4, SignalLemma
    <3>6. v \notin OnTheWay /\ OnTheWay' = OnTheWay \union {v}
      BY <3>5 DEF OnTheWay
    <3>7. Cardinality(OnTheWay') = Cardinality(OnTheWay) + 1
      BY <3>6, OnTheWayFinite, FS_AddElement
    <3>8. adding \in Reqs /\ Len(head0') = Len(head0) + 1
      BY <1>3 DEF ReqAdd
    <3> QED
      BY <2>2, <3>7, <3>8, OnTheWayFinite DEF WorkConserving
  <2> QED
    BY <2>1, <2>2
<1>4. ASSUME NEW w \in Workers,
             Lock0(w) \/ SpuriousWakeup(w) \/ Wake(w) \/ Work(w) \/ Lock1(w)
               \/ Push(w) \/ Notify(w)
      PROVE  WorkConserving'
  BY <1>b, <1>4 DEF Lock0, SpuriousWakeup, Wake, Work, Lock1, Push, Notify
<1>5. ASSUME UNCHANGED <<head0, pc>> PROVE WorkConserving'
  BY <1>b, <1>5
<1>6. ASSUME NEW r \in Reqs, FsCall(r) \/ EvalAwait(r) PROVE WorkConserving'
  BY <1>5, <1>6 DEF FsCall, EvalAwait
<1>7. CASE \/ EvalDone \/ SpinTest \/ EpollWait \/ EpollFails \/ ReadEfd \/ MainLock1
           \/ Callback \/ FreeReq \/ Drained \/ FreeTest \/ UNCHANGED vars
  BY <1>5, <1>7 DEF EvalDone, SpinTest, EpollWait, EpollFails, ReadEfd, MainLock1,
     Callback, FreeReq, Drained, FreeTest, vars
<1> QED
  BY <1>1, <1>2, <1>3, <1>4, <1>6, <1>7 DEF Next, Worker, MainThread
-----------------------------------------------------------------------------
(* No completion is lost. *)

LEMMA AnnouncedStep ==
    Types /\ CompletionAnnounced /\ [Next]_vars => CompletionAnnounced'
<1> SUFFICES ASSUME Types, CompletionAnnounced, [Next]_vars
             PROVE  CompletionAnnounced'
  OBVIOUS
<1> USE DEF Types, CompletionAnnounced, workerVars, poolVars, eventVars, mainVars
<1>1. ASSUME NEW w \in Workers, Push(w) PROVE CompletionAnnounced'
  BY <1>1 DEF Push
<1>2. ASSUME NEW w \in Workers, Notify(w) PROVE CompletionAnnounced'
  BY <1>2 DEF Notify, WriteEfd
<1>3. ASSUME NEW w \in Workers, Sleep(w) PROVE CompletionAnnounced'
  <2>1. (efd' /\ epReady') \/ UNCHANGED eventVars
    BY <1>3, Zenon DEF Sleep, WriteEfd
  <2>2. \A v \in Workers : pc[v] = "write" => pc'[v] = "write"
    BY <1>3 DEF Sleep
  <2>3. UNCHANGED <<head1, mainpc>>
    BY <1>3 DEF Sleep
  <2> QED
    BY <2>1, <2>2, <2>3
<1>4. ASSUME NEW w \in Workers, Take(w) PROVE CompletionAnnounced'
  <2>1. \A v \in Workers : pc[v] = "write" => pc'[v] = "write"
    BY <1>4, TakeWakes DEF Take
  <2> QED
    BY <1>4, <2>1 DEF Take
<1>5. CASE ReqAdd
  BY <1>5, ReqAddWakes DEF ReqAdd
<1>6. ASSUME NEW w \in Workers,
             Lock0(w) \/ SpuriousWakeup(w) \/ Wake(w) \/ Work(w) \/ Lock1(w)
      PROVE  CompletionAnnounced'
  BY <1>6 DEF Lock0, SpuriousWakeup, Wake, Work, Lock1
<1>7. ASSUME NEW r \in Reqs, FsCall(r) \/ EvalAwait(r) PROVE CompletionAnnounced'
  BY <1>7 DEF FsCall, EvalAwait
<1>8. CASE EpollWait \/ ReadEfd \/ MainLock1 \/ Callback \/ FreeReq \/ Drained
  BY <1>8 DEF EpollWait, ReadEfd, MainLock1, Callback, FreeReq, Drained
<1>9. CASE EvalDone \/ SpinTest \/ EpollFails \/ FreeTest \/ UNCHANGED vars
  BY <1>9 DEF EvalDone, SpinTest, EpollFails, FreeTest, vars
<1> QED
  BY <1>1, <1>2, <1>3, <1>4, <1>5, <1>6, <1>7, <1>8, <1>9
  DEF Next, Worker, MainThread
-----------------------------------------------------------------------------
Inv == Types /\ Locks /\ WaitCount /\ WorkConserving /\ CompletionAnnounced

LEMMA InvInit == Init => Inv
<1> SUFFICES ASSUME Init PROVE Inv
  OBVIOUS
<1>1. Types
  BY TypesInit
<1>2. Locks
  BY ThreadsAssumption DEF Init, Locks
<1>3. Waiters = {} /\ Sleepers = {}
  BY DEF Init, Waiters, Sleepers
<1>4. WaitCount
  BY <1>3, FS_EmptySet DEF Init, WaitCount
<1>5. WorkConserving /\ CompletionAnnounced
  BY <1>3 DEF Init, WorkConserving, CompletionAnnounced
<1> QED
  BY <1>1, <1>2, <1>4, <1>5 DEF Inv

LEMMA InvStep == Inv /\ [Next]_vars => Inv'
  BY TypesStep, LocksStep, CountStep, ConservingStep, AnnouncedStep DEF Inv

THEOREM Invariance == Spec => []Inv
  BY InvInit, InvStep, PTL DEF Spec

\* The type invariant, with the range of wait_threads: the counter that
\* EV_REQ_ADD and the idle test of ev_work read stays between 0 and nthreads.
THEOREM TypeCorrect == Spec => []TypeOK
<1>1. Inv => TypeOK
  <2> SUFFICES ASSUME Inv PROVE TypeOK
    OBVIOUS
  <2>1. wait_threads \in 0 .. nthreads
    <3>1. Cardinality(Waiters) \in Nat /\ nthreads \in Nat
      BY WaitersFinite, WorkersAssumption, FS_CardinalityType DEF nthreads
    <3> QED
      BY <3>1, WaitersFinite DEF Inv, WaitCount
  <2>2. stop \in BOOLEAN
    BY Zenon DEF Inv, Types
  <2> QED
    BY <2>1, <2>2 DEF Inv, Types, TypeOK
<1> QED
  BY <1>1, Invariance, PTL

\* wait_threads counts exactly the threads in pthread_cond_wait.
THEOREM WaitersCounted == Spec => []WaitCount
  BY Invariance, PTL DEF Inv

\* EV_REQ_ADD's conditional signal is enough: while a thread sleeps, every
\* queued request has a thread on its way to it.
THEOREM NoLostWakeup == Spec => []WorkConserving
  BY Invariance, PTL DEF Inv

\* The write to the eventfd after the push, and the read before the drain,
\* never leave a completed request that the main thread is not told of.
THEOREM NoLostCompletion == Spec => []CompletionAnnounced
  BY Invariance, PTL DEF Inv

-----------------------------------------------------------------------------
(* Ownership.  Own says with sets what OneOwner says by counting           *)
(* positions: the two lists have no repetitions, and the lists, the        *)
(* workers' hands and the request about to be queued partition the         *)
(* requests whose promise is pending.                                      *)

Busy == {"work", "done", "push"}

Own ==
    /\ Distinct(head0)
    /\ Distinct(head1)
    /\ \A w \in Workers : req[w] # NoReq <=> pc[w] \in Busy
    /\ \A v, w \in Workers : req[v] = req[w] /\ req[v] # NoReq => v = w
    /\ Elems(head0) \intersect Elems(head1) = {}
    /\ Elems(head0) \intersect InHand = {}
    /\ Elems(head1) \intersect InHand = {}
    /\ adding \notin Elems(head0) \union InHand \union Elems(head1)
    /\ \A r \in Reqs :
          promise[r] = "pending" <=>
             r \in Elems(head0) \union InHand \union Elems(head1) \union {adding}
    /\ mainpc = "js" => promise[cur] \in Settled
    /\ LivePending

LEMMA OwnInit == Init => Own
<1> SUFFICES ASSUME Init PROVE Own
  OBVIOUS
<1>1. Elems(head0) = {} /\ Elems(head1) = {} /\ Distinct(head0) /\ Distinct(head1)
  BY DEF Init, Elems, Distinct
<1>2. InHand = {}
  BY DEF Init, InHand
<1>3. \A w \in Workers : req[w] = NoReq /\ pc[w] = "lock"
  BY DEF Init
<1>4. LivePending
  BY DEF Init, LivePending
<1> QED
  BY <1>1, <1>2, <1>3, <1>4, ReqsAssumption DEF Init, Own, Busy

\* What a worker that moves between two points with the same hand leaves alone.
LEMMA OwnUnchanged ==
    ASSUME Types, Own, UNCHANGED <<head0, head1, req, adding, promise, live, mainpc, cur>>,
           \A w \in Workers : pc[w] \in Busy <=> pc'[w] \in Busy
    PROVE  Own'
<1>1. InHand' = InHand
  BY DEF InHand
<1> QED
  BY <1>1 DEF Own, Distinct, Elems, LivePending

LEMMA OwnStep == Types /\ Locks /\ Own /\ [Next]_vars => Own'
<1> SUFFICES ASSUME Types, Locks, Own, [Next]_vars PROVE Own'
  OBVIOUS
<1> USE ReqsAssumption DEF Types, workerVars, poolVars, eventVars, mainVars
<1>1. ASSUME NEW w \in Workers, Take(w) PROVE Own'
  <2> DEFINE r == Head(head0)
  <2>1. /\ r \in Elems(head0) /\ r \in Reqs
        /\ Distinct(head0')
        /\ Elems(head0') = Elems(head0) \ {r}
    BY <1>1, TailLemma, ElemsType DEF Take, Own
  <2>2. req' = [req EXCEPT ![w] = r] /\ req[w] = NoReq
    BY <1>1 DEF Take, Own, Busy
  <2>3. InHand' = InHand \union {r}
    BY <2>1, <2>2 DEF InHand
  <2>4. \A v \in Workers : req'[v] # NoReq <=> pc'[v] \in Busy
    <3>1. pc'[w] = "work" /\ req'[w] = r
      BY <1>1, <2>2, TakeWakes
    <3>2. ASSUME NEW v \in Workers \ {w}
          PROVE  req'[v] = req[v] /\ (pc'[v] \in Busy <=> pc[v] \in Busy)
      <4>1. pc'[v] = pc[v] \/ (pc[v] = "sleep" /\ pc'[v] = "woken")
        BY <1>1, TakeWakes
      <4> QED
        BY <2>2, <4>1 DEF Busy
    <3>3. \A v \in Workers : req[v] # NoReq <=> pc[v] \in Busy
      BY DEF Own
    <3> HIDE DEF r
    <3> QED
      BY <2>1, <3>1, <3>2, <3>3 DEF Busy
  <2>5. \A u, v \in Workers : req'[u] = req'[v] /\ req'[u] # NoReq => u = v
    BY <2>1, <2>2 DEF Own, InHand
  <2>6. UNCHANGED <<head1, adding, promise, live, mainpc, cur>>
    BY <1>1 DEF Take
  <2> HIDE DEF r
  <2> QED
    BY <2>1, <2>3, <2>4, <2>5, <2>6 DEF Own, LivePending
<1>2. ASSUME NEW w \in Workers, Push(w) PROVE Own'
  <2> DEFINE r == req[w]
  <2>1. r \in Reqs /\ r \in InHand
    BY <1>2 DEF Push, InHand
  <2>2. r \notin Elems(head1)
    BY <2>1 DEF Own
  <2>3. Distinct(head1') /\ Elems(head1') = Elems(head1) \union {r}
    BY <1>2, <2>1, <2>2, AppendLemma DEF Push, Own
  <2>4. req' = [req EXCEPT ![w] = NoReq] /\ pc' = [pc EXCEPT ![w] = "write"]
    BY <1>2 DEF Push
  <2>5. InHand' = InHand \ {r}
    BY <2>1, <2>4 DEF InHand, Own
  <2>6. UNCHANGED <<head0, adding, promise, live, mainpc, cur>>
    BY <1>2 DEF Push
  <2>7. \A v \in Workers : req'[v] # NoReq <=> pc'[v] \in Busy
    BY <2>4 DEF Own, Busy
  <2>8. \A u, v \in Workers : req'[u] = req'[v] /\ req'[u] # NoReq => u = v
    BY <2>4 DEF Own
  <2> HIDE DEF r
  <2> QED
    BY <2>1, <2>3, <2>5, <2>6, <2>7, <2>8 DEF Own, LivePending
<1>3. ASSUME NEW r \in Reqs, FsCall(r) PROVE Own'
  <2>1. UNCHANGED <<head0, head1, req, pc, mainpc, cur>> /\ InHand' = InHand
    BY <1>3 DEF FsCall, InHand
  <2>2. r \notin Elems(head0) \union InHand \union Elems(head1)
    BY <1>3 DEF FsCall, Own
  <2>3. adding = NoReq /\ adding' = r /\ promise' = [promise EXCEPT ![r] = "pending"]
    BY <1>3 DEF FsCall
  <2>4. mainpc = "js" => cur # r
    BY <1>3 DEF FsCall, Own, Settled
  <2>5. LivePending'
    BY <1>3, <2>4 DEF FsCall, Own, LivePending
  <2> QED
    BY <2>1, <2>2, <2>3, <2>4, <2>5 DEF Own
<1>4. CASE ReqAdd
  <2>1. /\ adding \in Reqs /\ adding \notin Elems(head0)
        /\ adding' = NoReq
        /\ UNCHANGED <<head1, req, promise, live, mainpc, cur>>
    BY <1>4 DEF ReqAdd, Own
  <2>2. Distinct(head0') /\ Elems(head0') = Elems(head0) \union {adding}
    BY <1>4, <2>1, AppendLemma DEF ReqAdd, Own
  <2>3. InHand' = InHand /\ NoReq \notin InHand
    BY <2>1 DEF InHand
  <2>4. NoReq \notin Elems(head0') \union Elems(head1')
    BY <2>1, <2>2, ElemsType
  <2>5. \A w \in Workers : req'[w] # NoReq <=> pc'[w] \in Busy
    BY <1>4, <2>1, ReqAddWakes DEF Own, Busy
  <2> QED
    BY <2>1, <2>2, <2>3, <2>4, <2>5 DEF Own, LivePending
<1>5. CASE Callback
  <2> DEFINE r == Head(head1)
  <2>1. /\ r \in Elems(head1) /\ r \in Reqs
        /\ Distinct(head1')
        /\ Elems(head1') = Elems(head1) \ {r}
    BY <1>5, TailLemma, ElemsType DEF Callback, Own
  <2>2. /\ UNCHANGED <<head0, req, pc, adding, live>>
        /\ mainpc = "drain" /\ mainpc' = "js" /\ cur' = r
    BY <1>5 DEF Callback
  <2>3. InHand' = InHand
    BY <2>2 DEF InHand
  <2>4. PICK outcome \in Settled : promise' = [promise EXCEPT ![r] = outcome]
    <3>1. promise' = [promise EXCEPT ![r] = IF errnum[r] THEN "rejected" ELSE "fulfilled"]
      BY <1>5 DEF Callback
    <3> QED
      BY <3>1 DEF Settled
  <2>5. promise[r] = "pending" /\ r \notin Elems(head0) \union InHand \union {adding}
    BY <2>1 DEF Own
  <2> HIDE DEF r
  <2>6. LivePending'
    BY <2>1, <2>2, <2>4, <2>5 DEF Own, LivePending, Settled
  <2> QED
    BY <2>1, <2>2, <2>3, <2>4, <2>5, <2>6 DEF Own, Settled
<1>6. CASE FreeReq
  <2>1. /\ UNCHANGED <<head0, head1, req, pc, adding, promise>>
        /\ mainpc = "js" /\ mainpc' = "drain" /\ cur \in Reqs
        /\ live' = live \ {cur}
    BY <1>6 DEF FreeReq
  <2>2. InHand' = InHand
    BY <2>1 DEF InHand
  <2>3. LivePending'
    BY <2>1 DEF Own, LivePending, Settled
  <2> QED
    BY <2>1, <2>2, <2>3 DEF Own
<1>7. ASSUME UNCHANGED <<head0, head1, req, pc, adding, promise, live>>,
             mainpc # "js", mainpc' # "js"
      PROVE  Own'
  BY <1>7 DEF Own, InHand, LivePending
<1>8. CASE \/ EvalDone \/ SpinTest \/ EpollWait \/ EpollFails \/ ReadEfd \/ MainLock1
           \/ Drained \/ FreeTest
  BY <1>7, <1>8 DEF EvalDone, SpinTest, EpollWait, EpollFails, ReadEfd, MainLock1,
     Drained, FreeTest
<1>9. ASSUME NEW r \in Reqs, EvalAwait(r) PROVE Own'
  BY <1>7, <1>9 DEF EvalAwait
<1>10. ASSUME NEW w \in Workers,
             Lock0(w) \/ Sleep(w) \/ SpuriousWakeup(w) \/ Wake(w) \/ Work(w)
               \/ Lock1(w) \/ Notify(w)
       PROVE Own'
  BY <1>10, OwnUnchanged DEF Lock0, Sleep, SpuriousWakeup, Wake, Work, Lock1, Notify, Busy
<1>11. CASE UNCHANGED vars
  BY <1>11, OwnUnchanged DEF vars
<1> QED
  BY <1>1, <1>2, <1>3, <1>4, <1>5, <1>6, <1>8, <1>9, <1>10, <1>11
  DEF Next, Worker, MainThread

THEOREM Ownership == Spec => [](Inv /\ Own)
<1>1. Init => Inv /\ Own
  BY InvInit, OwnInit
<1>2. Inv /\ Own /\ [Next]_vars => (Inv /\ Own)'
  BY InvStep, OwnStep DEF Inv
<1> QED
  BY <1>1, <1>2, PTL DEF Spec

\* A promise is pending exactly until its request is called back, and the
\* request is freed when that callback returns, not before.
THEOREM LiveIsPending == Spec => []LivePending
  BY Ownership, PTL DEF Own
-----------------------------------------------------------------------------
(* Counting positions. *)

LEMMA HandPositions ==
    ASSUME Own, NEW r \in Reqs
    PROVE  LET P == {<<"worker", w>> : w \in {v \in Workers : req[v] = r}}
           IN  IF r \in InHand THEN \E x : P = {x} ELSE P = {}
<1>1. CASE r \in InHand
  <2>1. PICK k \in Workers : req[k] = r /\ r # NoReq
    BY <1>1 DEF InHand
  <2>2. {v \in Workers : req[v] = r} = {k}
    BY <2>1 DEF Own
  <2>3. {<<"worker", w>> : w \in {v \in Workers : req[v] = r}} = {<<"worker", k>>}
    BY <2>2
  <2> QED
    BY <1>1, <2>3
<1>2. CASE r \notin InHand
  BY <1>2, ReqsAssumption DEF InHand
<1> QED
  BY <1>1, <1>2

LEMMA OwnImpliesOneOwner == Types /\ Own => OneOwner
<1> SUFFICES ASSUME Types, Own, NEW r \in Reqs
             PROVE  Cardinality(Positions(r)) = IF r \in live THEN 1 ELSE 0
  BY DEF OneOwner
<1> DEFINE A == {<<"adding", 0>> : x \in {adding} \intersect {r}}
           B == ListAt(head0, "head0", r)
           C == {<<"worker", w>> : w \in {v \in Workers : req[v] = r}}
           D == ListAt(head1, "head1", r)
           E == {<<"callback", 0>> : x \in IF mainpc = "js" THEN {cur} \intersect {r} ELSE {}}
<1>1. Positions(r) = A \union B \union C \union D \union E
  BY DEF Positions, ListAt
<1>2. IF r = adding THEN \E x : A = {x} ELSE A = {}
  <2>1. CASE r = adding
    <3>1. A = {<<"adding", 0>>}
      BY <2>1
    <3> QED
      BY <2>1, <3>1
  <2>2. CASE r # adding
    BY <2>2
  <2> QED
    BY <2>1, <2>2
<1>3. IF r \in Elems(head0) THEN \E x : B = {x} ELSE B = {}
  BY ListPositions DEF Own
<1>4. IF r \in InHand THEN \E x : C = {x} ELSE C = {}
  BY HandPositions
<1>5. IF r \in Elems(head1) THEN \E x : D = {x} ELSE D = {}
  BY ListPositions DEF Own
<1>6. IF mainpc = "js" /\ cur = r THEN \E x : E = {x} ELSE E = {}
  <2>1. CASE mainpc = "js" /\ cur = r
    <3>1. E = {<<"callback", 0>>}
      BY <2>1
    <3> QED
      BY <2>1, <3>1
  <2>2. CASE ~(mainpc = "js" /\ cur = r)
    BY <2>2
  <2> QED
    BY <2>1, <2>2
<1> HIDE DEF A, B, C, D, E
<1>7. promise[r] = "pending" <=>
         r \in Elems(head0) \union InHand \union Elems(head1) \union {adding}
  BY DEF Own
<1>8. r \in live <=> promise[r] = "pending" \/ (mainpc = "js" /\ cur = r)
  BY DEF Own, LivePending
<1>9. mainpc = "js" /\ cur = r => promise[r] # "pending"
  BY DEF Own, Settled
<1>10. IF r \in live THEN \E x : Positions(r) = {x} ELSE Positions(r) = {}
  <2>1. CASE r \notin live
    BY <2>1, <1>1, <1>2, <1>3, <1>4, <1>5, <1>6, <1>7, <1>8
  <2>2. CASE mainpc = "js" /\ cur = r
    BY <2>2, <1>1, <1>2, <1>3, <1>4, <1>5, <1>6, <1>7, <1>8, <1>9
  <2>3. CASE r = adding /\ ~(mainpc = "js" /\ cur = r)
    <3>1. r \notin Elems(head0) \union InHand \union Elems(head1)
      BY <2>3 DEF Own
    <3> QED
      BY <2>3, <3>1, <1>1, <1>2, <1>3, <1>4, <1>5, <1>6, <1>7, <1>8
  <2>4. CASE r \in Elems(head0) /\ ~(mainpc = "js" /\ cur = r)
    <3>1. r # adding /\ r \notin InHand \union Elems(head1)
      BY <2>4 DEF Own
    <3> QED
      BY <2>4, <3>1, <1>1, <1>2, <1>3, <1>4, <1>5, <1>6, <1>7, <1>8
  <2>5. CASE r \in InHand /\ ~(mainpc = "js" /\ cur = r)
    <3>1. r # adding /\ r \notin Elems(head0) \union Elems(head1)
      BY <2>5 DEF Own
    <3> QED
      BY <2>5, <3>1, <1>1, <1>2, <1>3, <1>4, <1>5, <1>6, <1>7, <1>8
  <2>6. CASE r \in Elems(head1) /\ ~(mainpc = "js" /\ cur = r)
    <3>1. r # adding /\ r \notin Elems(head0) \union InHand
      BY <2>6 DEF Own
    <3> QED
      BY <2>6, <3>1, <1>1, <1>2, <1>3, <1>4, <1>5, <1>6, <1>7, <1>8
  <2> QED
    BY <2>1, <2>2, <2>3, <2>4, <2>5, <2>6, <1>7, <1>8
<1> QED
  BY <1>10, FS_EmptySet, FS_Singleton

\* Every allocated request is held in exactly one place and no freed one in
\* any: nothing is used after EIO_REQ_FREE, shared between threads, or leaked.
THEOREM OneOwnerAlways == Spec => []OneOwner
  BY Ownership, OwnImpliesOneOwner, PTL DEF Inv
-----------------------------------------------------------------------------
(* The loop implements Executor. *)

LEMMA RefineInit == Init => EX!Init
<1> SUFFICES ASSUME Init PROVE EX!Init
  OBVIOUS
<1>1. InHand = {}
  BY DEF Init, InHand
<1>2. Promised = [r \in Reqs |-> "none"]
  BY ReqsAssumption DEF Init, Promised
<1> QED
  BY <1>1, <1>2 DEF Init, EX!Init

LEMMA RefineStep == Types /\ Own /\ [Next]_vars => [EX!Next]_(EX!vars)
<1> SUFFICES ASSUME Types, Own, [Next]_vars PROVE [EX!Next]_(EX!vars)
  OBVIOUS
<1> USE ReqsAssumption DEF Types, workerVars, poolVars, eventVars, mainVars
<1>1. ASSUME NEW w \in Workers, Take(w) PROVE EX!Start
  <2>1. req' = [req EXCEPT ![w] = Head(head0)] /\ req[w] = NoReq
    BY <1>1 DEF Take, Own, Busy
  <2>2. Head(head0) \in Reqs
    BY <1>1 DEF Take
  <2>3. InHand' = InHand \union {Head(head0)}
    BY <2>1, <2>2 DEF InHand
  <2>4. Promised' = Promised
    BY <1>1 DEF Take, Promised
  <2> QED
    BY <1>1, <2>3, <2>4 DEF Take, EX!Start
<1>2. ASSUME NEW w \in Workers, Push(w) PROVE EX!Finish(req[w]) /\ req[w] \in Reqs
  <2>1. req[w] \in Reqs /\ req' = [req EXCEPT ![w] = NoReq]
    BY <1>2 DEF Push
  <2>2. req[w] \in InHand /\ InHand' = InHand \ {req[w]}
    BY <2>1 DEF InHand, Own
  <2>3. Promised' = Promised
    BY <1>2 DEF Push, Promised
  <2> QED
    BY <1>2, <2>1, <2>2, <2>3 DEF Push, EX!Finish
<1>3. CASE ReqAdd
  <2>1. adding \in Reqs /\ InHand' = InHand
    BY <1>3 DEF ReqAdd, InHand
  <2>2. promise[adding] = "pending"
    BY <2>1 DEF Own
  <2>3. Promised[adding] = "none" /\ Promised' = [Promised EXCEPT ![adding] = "pending"]
    <3>1. adding' = NoReq /\ promise' = promise
      BY <1>3 DEF ReqAdd
    <3>2. Promised' = [r \in Reqs |-> promise[r]]
      BY <3>1 DEF Promised
    <3>3. /\ Promised \in [Reqs -> {"none", "pending"} \union Settled]
          /\ Promised[adding] = "none"
          /\ \A r \in Reqs \ {adding} : Promised[r] = promise[r]
      BY <2>1 DEF Promised
    <3> QED
      BY <2>1, <2>2, <3>2, <3>3
  <2>4. EX!Submit(adding)
    BY <1>3, <2>1, <2>3 DEF ReqAdd, EX!Submit
  <2> QED
    BY <2>1, <2>4 DEF EX!Next
<1>4. CASE Callback
  <2> DEFINE r == Head(head1)
  <2>1. r \in Reqs /\ r \in Elems(head1)
    BY <1>4, TailLemma DEF Callback, Own
  <2>2. promise[r] = "pending" /\ r # adding
    BY <2>1 DEF Own
  <2>3. PICK outcome \in Settled : promise' = [promise EXCEPT ![r] = outcome]
    <3>1. promise' = [promise EXCEPT ![r] = IF errnum[r] THEN "rejected" ELSE "fulfilled"]
      BY <1>4 DEF Callback
    <3> QED
      BY <3>1 DEF Settled
  <2>4. UNCHANGED <<adding, req, head0>> /\ head1 # <<>> /\ head1' = Tail(head1)
    BY <1>4 DEF Callback
  <2>5. /\ Promised[r] = "pending"
        /\ Promised' = [Promised EXCEPT ![r] = outcome]
    BY <2>1, <2>2, <2>3, <2>4 DEF Promised
  <2>6. InHand' = InHand
    BY <2>4 DEF InHand
  <2>7. EX!Deliver
    BY <2>4, <2>5, <2>6 DEF EX!Deliver, EX!Settled, Settled
  <2> QED
    BY <2>7 DEF EX!Next
\* The other steps are invisible.
<1>5. ASSUME UNCHANGED <<head0, head1, req>>, Promised' = Promised PROVE UNCHANGED EX!vars
  BY <1>5 DEF EX!vars, InHand
<1>6. ASSUME NEW r \in Reqs, FsCall(r) PROVE UNCHANGED EX!vars
  <2>1. Promised' = Promised
    BY <1>6 DEF FsCall, Promised
  <2> QED
    BY <1>5, <1>6, <2>1 DEF FsCall
<1>7. ASSUME UNCHANGED <<head0, head1, req, promise, adding>> PROVE UNCHANGED EX!vars
  BY <1>5, <1>7 DEF Promised
<1>8. ASSUME NEW w \in Workers,
             Lock0(w) \/ Sleep(w) \/ SpuriousWakeup(w) \/ Wake(w) \/ Work(w)
               \/ Lock1(w) \/ Notify(w)
      PROVE UNCHANGED EX!vars
  BY <1>7, <1>8 DEF Lock0, Sleep, SpuriousWakeup, Wake, Work, Lock1, Notify
<1>9. ASSUME NEW r \in Reqs, EvalAwait(r) PROVE UNCHANGED EX!vars
  BY <1>7, <1>9 DEF EvalAwait
<1>10. CASE \/ EvalDone \/ SpinTest \/ EpollWait \/ EpollFails \/ ReadEfd \/ MainLock1
            \/ FreeReq \/ Drained \/ FreeTest \/ UNCHANGED vars
  BY <1>7, <1>10 DEF EvalDone, SpinTest, EpollWait, EpollFails, ReadEfd, MainLock1,
     FreeReq, Drained, FreeTest, vars
<1> QED
  BY <1>1, <1>2, <1>3, <1>4, <1>6, <1>8, <1>9, <1>10
  DEF Next, Worker, MainThread, EX!Next

\* The event loop is an executor: requests start in submission order, are in
\* the hands of one worker, and settle once, in completion order.
THEOREM LoopImplementsExecutor == Spec => ImplementsExecutor
  BY RefineInit, RefineStep, Ownership, PTL DEF Spec, EX!Spec, ImplementsExecutor, Inv
=============================================================================
