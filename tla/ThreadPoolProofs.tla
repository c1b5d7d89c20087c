-------------------------- MODULE ThreadPoolProofs --------------------------
(***************************************************************************)
(* Proofs about the thread pool, for any number of threads and of rounds:  *)
(* the status means what its comment says, tasks are begun in the order in *)
(* which they were added, and a thread's data are freed after it has left  *)
(* its loop.                                                               *)
(***************************************************************************)
EXTENDS ThreadPool, ListLemmas, TLAPS

Left(w) == pc[w] \in {"signal", "exit"}

\* TypeOK without the range of the status.
Types ==
    /\ pc \in [Threads -> ThreadPC]
    /\ held \in [Threads -> BOOLEAN]
    /\ status \in [Threads -> Int]
    /\ list \in [Threads -> Seq(Tasks)]
    /\ task \in [Threads -> Tasks \union {NoTask}]
    /\ infos \in SUBSET Threads
    /\ tasks \subseteq Tasks
    /\ mainpc \in MainPC
    /\ at \in Threads
    /\ added \in Nat
    /\ count \in 0 .. Rounds
    /\ mainpc \in {"add", "added"} => count < Rounds

\* A thread leaves only after the destroyer has come to it.
LeftMarked == \A w \in Threads : Left(w) => Marked(w)

LEMMA ConstantsTypes ==
    /\ NThreads \in Nat \ {0}
    /\ Rounds \in Nat \ {0}
    /\ 1 \in Threads
    /\ \A w \in Threads : w \in Nat /\ Following(w) \in Threads
  BY NThreadsAssumption, RoundsAssumption DEF Threads, Following

LEMMA TypesInit == Init => Types
  BY ConstantsTypes DEF Init, Types, ThreadPC, MainPC, NoTask

LEMMA TypesStep == Types /\ [Next]_vars => Types'
<1> SUFFICES ASSUME Types, [Next]_vars PROVE Types'
  OBVIOUS
<1> USE ConstantsTypes DEF Types, threadVars, mainVars, ThreadPC, MainPC
<1>1. ASSUME NEW w \in Threads, Lock(w) \/ Wait(w) \/ Wake(w) PROVE Types'
  BY <1>1 DEF Lock, Wait, Wake
<1>11. ASSUME NEW w \in Threads, Exit(w) PROVE Types'
  BY <1>11 DEF Exit
<1>2. ASSUME NEW w \in Threads, SpuriousWakeup(w) \/ Continue(w) \/ ExitSignal(w) PROVE Types'
  BY <1>2 DEF SpuriousWakeup, Continue, ExitSignal
<1>3. ASSUME NEW w \in Threads, Take(w) PROVE Types'
  <2>1. Head(list[w]) \in Tasks /\ Tail(list[w]) \in Seq(Tasks)
    BY <1>3 DEF Take
  <2> QED
    BY <1>3, <2>1 DEF Take
<1>4. ASSUME NEW w \in Threads, Work(w) PROVE Types'
  BY <1>4 DEF Work
<1>5. CASE Add
  <2>1. added' \in Tasks /\ added' = added + 1
    BY <1>5 DEF Add, Tasks
  <2>2. Append(list[at], added') \in Seq(Tasks)
    BY <2>1
  <2> QED
    BY <1>5, <2>1, <2>2 DEF Add
<1>6. CASE AddSignal
  BY <1>6 DEF AddSignal, Signal
<1>7. CASE Mark
  BY <1>7 DEF Mark
<1>8. CASE MarkSignal \/ PollSignal
  BY <1>8 DEF MarkSignal, PollSignal, Signal
<1>9. CASE Reap
  <2>1. at # NThreads => at + 1 \in Threads
    BY DEF Threads
  <2> QED
    BY <1>9, <2>1 DEF Reap
<1>10. CASE UNCHANGED vars
  BY <1>10 DEF vars
<1> QED
  BY <1>1, <1>2, <1>3, <1>4, <1>5, <1>6, <1>7, <1>8, <1>9, <1>10,
     <1>11 DEF Next, Thread, MainThread
-----------------------------------------------------------------------------
(* The status. *)

StatusInv == StatusMeaning /\ LeftMarked

\* The destroyer's progress through the list of threads.
LEMMA MarkedSteps ==
    ASSUME Types
    PROVE  /\ Add \/ AddSignal \/ MarkSignal \/ Reap \/ PollSignal =>
                 \A w \in Threads : Marked(w)' <=> Marked(w)
           /\ Mark => \A w \in Threads : Marked(w)' <=> (Marked(w) \/ w = at)
           /\ UNCHANGED <<mainpc, at>> => \A w \in Threads : Marked(w)' <=> Marked(w)
<1> USE ConstantsTypes DEF Types, Threads, Following, threadVars, mainVars
<1>1. Add => \A w \in Threads : Marked(w)' <=> Marked(w)
  BY DEF Add, Marked
<1>2. AddSignal => \A w \in Threads : Marked(w)' <=> Marked(w)
  <2> SUFFICES ASSUME AddSignal, NEW w \in Threads PROVE Marked(w)' <=> Marked(w)
    OBVIOUS
  <2>1. CASE at = NThreads
    BY <2>1 DEF AddSignal, Marked
  <2>2. CASE at # NThreads
    BY <2>2 DEF AddSignal, Marked
  <2> QED
    BY <2>1, <2>2
<1>3. MarkSignal => \A w \in Threads : Marked(w)' <=> Marked(w)
  BY DEF MarkSignal, Marked
<1>4. Reap => \A w \in Threads : Marked(w)' <=> Marked(w)
  BY DEF Reap, Marked
<1>5. PollSignal => \A w \in Threads : Marked(w)' <=> Marked(w)
  BY DEF PollSignal, Marked
<1>6. Mark => \A w \in Threads : Marked(w)' <=> (Marked(w) \/ w = at)
  BY DEF Mark, Marked
<1>7. UNCHANGED <<mainpc, at>> => \A w \in Threads : Marked(w)' <=> Marked(w)
  BY DEF Marked
<1> QED
  BY <1>1, <1>2, <1>3, <1>4, <1>5, <1>6, <1>7

LEMMA StatusStep == Types /\ StatusInv /\ [Next]_vars => StatusInv'
<1> SUFFICES ASSUME Types, StatusInv, [Next]_vars PROVE StatusInv'
  OBVIOUS
<1> USE DEF Types, threadVars, mainVars
\* Most steps move nobody into or out of the last two control points.
<1>a. ASSUME UNCHANGED status,
             \A w \in Threads : Left(w)' <=> Left(w),
             \A w \in Threads : Marked(w)' <=> Marked(w)
      PROVE  StatusInv'
  BY <1>a DEF StatusInv, StatusMeaning, LeftMarked, Left
<1>1. ASSUME NEW w \in Threads, Exit(w) PROVE StatusInv'
  <2>1. \A v \in Threads : Marked(v)' <=> Marked(v)
    BY <1>1, MarkedSteps DEF Exit
  <2>2. Marked(w) /\ status[w] = 1
    BY <1>1 DEF Exit, StatusInv, StatusMeaning
  <2>3. /\ status' = [status EXCEPT ![w] = 2]
        /\ pc' = [pc EXCEPT ![w] = "signal"]
    BY <1>1, <2>2 DEF Exit
  <2> QED
    BY <2>1, <2>2, <2>3 DEF StatusInv, StatusMeaning, LeftMarked, Left
<1>2. ASSUME NEW w \in Threads,
             \/ Lock(w) \/ Wait(w) \/ SpuriousWakeup(w) \/ Wake(w) \/ Continue(w)
             \/ ExitSignal(w) \/ Take(w) \/ Work(w)
      PROVE  StatusInv'
  <2>1. UNCHANGED <<status, mainpc, at>>
    BY <1>2 DEF Lock, Wait, SpuriousWakeup, Wake, Continue, ExitSignal, Take, Work
  <2>2. \A v \in Threads : Left(v)' <=> Left(v)
    BY <1>2 DEF Lock, Wait, SpuriousWakeup, Wake, Continue, ExitSignal, Take, Work, Left
  <2> QED
    BY <2>1, <2>2, <1>a, MarkedSteps
<1>3. CASE Mark
  <2>1. ~Marked(at)
    BY <1>3, ConstantsTypes DEF Mark, Marked, Threads
  <2>2. status[at] = 0 /\ ~Left(at)
    BY <2>1 DEF StatusInv, StatusMeaning, LeftMarked, Left
  <2>3. status' = [status EXCEPT ![at] = 1] /\ pc' = pc
    BY <1>3, <2>2 DEF Mark
  <2>4. \A w \in Threads : Marked(w)' <=> (Marked(w) \/ w = at)
    BY <1>3, MarkedSteps
  <2> QED
    BY <2>2, <2>3, <2>4 DEF StatusInv, StatusMeaning, LeftMarked, Left
<1>4. CASE Add \/ AddSignal \/ MarkSignal \/ Reap \/ PollSignal
  <2>1. UNCHANGED status
    BY <1>4 DEF Add, AddSignal, MarkSignal, Reap, PollSignal
  <2>2. \A w \in Threads : Left(w)' <=> Left(w)
    BY <1>4 DEF Add, AddSignal, MarkSignal, Reap, PollSignal, Signal, Left
  <2>3. \A w \in Threads : Marked(w)' <=> Marked(w)
    BY <1>4, MarkedSteps
  <2> QED
    BY <2>1, <2>2, <2>3, <1>a
<1>5. CASE UNCHANGED vars
  BY <1>5, <1>a, MarkedSteps DEF vars, Left
<1> QED
  BY <1>1, <1>2, <1>3, <1>4, <1>5 DEF Next, Thread, MainThread
-----------------------------------------------------------------------------
(* The release of the threads' data. *)

LEMMA ReleaseStep ==
    Types /\ StatusInv /\ ReleaseLast /\ [Next]_vars => ReleaseLast'
<1> SUFFICES ASSUME Types, StatusInv, ReleaseLast, [Next]_vars PROVE ReleaseLast'
  OBVIOUS
<1> USE DEF Types, ReleaseLast, threadVars, mainVars
<1>1. CASE Reap
  <2>1. status[at] = 2 => pc[at] \in {"signal", "exit"}
    <3>1. CASE Marked(at)
      BY <3>1 DEF StatusInv, StatusMeaning
    <3>2. CASE ~Marked(at)
      BY <3>2 DEF StatusInv, StatusMeaning
    <3> QED
      BY <3>1, <3>2
  <2> QED
    BY <1>1, <2>1 DEF Reap
<1>2. ASSUME NEW w \in Threads,
             \/ Lock(w) \/ Wait(w) \/ SpuriousWakeup(w) \/ Wake(w) \/ Continue(w)
             \/ Exit(w) \/ ExitSignal(w) \/ Take(w) \/ Work(w)
      PROVE  ReleaseLast'
  <2>1. UNCHANGED infos
    BY <1>2 DEF Lock, Wait, SpuriousWakeup, Wake, Continue, Exit, ExitSignal, Take, Work
  <2>2. \A v \in Threads : pc[v] \in {"signal", "exit"} => pc'[v] \in {"signal", "exit"}
    BY <1>2 DEF Lock, Wait, SpuriousWakeup, Wake, Continue, Exit, ExitSignal, Take, Work
  <2> QED
    BY <2>1, <2>2
<1>3. CASE Add \/ AddSignal \/ Mark \/ MarkSignal \/ PollSignal
  BY <1>3 DEF Add, AddSignal, Mark, MarkSignal, PollSignal, Signal
<1>4. CASE UNCHANGED vars
  BY <1>4 DEF vars
<1> QED
  BY <1>1, <1>2, <1>3, <1>4 DEF Next, Thread, MainThread
-----------------------------------------------------------------------------
(* The order of the tasks. *)

\* The list s is increasing, behind task t, and no task in it is beyond n.
OrderedBelow(s, t, n) ==
    /\ \A i, j \in DOMAIN s : i < j => s[i] < s[j]
    /\ \A i \in DOMAIN s : t < s[i] /\ s[i] <= n
    /\ t <= n

OrderInv == \A w \in Threads : OrderedBelow(list[w], task[w], added)

LEMMA OrderedTail ==
    ASSUME NEW s \in Seq(Nat), s # <<>>, NEW t, NEW n \in Nat, OrderedBelow(s, t, n)
    PROVE  OrderedBelow(Tail(s), s[1], n)
<1>1. /\ DOMAIN s = 1 .. Len(s)
      /\ Len(s) \in Nat \ {0}
      /\ DOMAIN Tail(s) = 1 .. Len(s) - 1
      /\ \A i \in 1 .. Len(s) - 1 : Tail(s)[i] = s[i + 1]
  OBVIOUS
<1>2. \A i \in 1 .. Len(s) - 1 : i + 1 \in DOMAIN s /\ 1 \in DOMAIN s /\ 1 < i + 1
  BY <1>1
<1>3. ASSUME NEW i \in 1 .. Len(s) - 1 PROVE s[1] < Tail(s)[i] /\ Tail(s)[i] <= n
  BY <1>1, <1>2 DEF OrderedBelow
<1>4. ASSUME NEW i \in 1 .. Len(s) - 1, NEW j \in 1 .. Len(s) - 1, i < j
      PROVE  Tail(s)[i] < Tail(s)[j]
  <2>1. i + 1 \in DOMAIN s /\ j + 1 \in DOMAIN s /\ i + 1 < j + 1
    BY <1>1, <1>4
  <2> QED
    BY <1>1, <2>1 DEF OrderedBelow
<1>5. s[1] <= n
  BY <1>1 DEF OrderedBelow
<1> QED
  BY <1>1, <1>3, <1>4, <1>5 DEF OrderedBelow

LEMMA OrderedAppend ==
    ASSUME NEW s \in Seq(Nat), NEW t \in Nat, NEW n \in Nat, OrderedBelow(s, t, n)
    PROVE  OrderedBelow(Append(s, n + 1), t, n + 1)
<1>1. /\ DOMAIN s = 1 .. Len(s)
      /\ Len(s) \in Nat
      /\ DOMAIN Append(s, n + 1) = 1 .. Len(s) + 1
      /\ \A i \in 1 .. Len(s) : Append(s, n + 1)[i] = s[i] /\ s[i] \in Nat
      /\ Append(s, n + 1)[Len(s) + 1] = n + 1
  OBVIOUS
<1> QED
  BY <1>1 DEF OrderedBelow

LEMMA OrderStep == Types /\ OrderInv /\ [Next]_vars => OrderInv'
<1> SUFFICES ASSUME Types, OrderInv, [Next]_vars PROVE OrderInv'
  OBVIOUS
<1> USE ConstantsTypes DEF Types, threadVars, mainVars
<1>1. ASSUME NEW w \in Threads, Take(w) PROVE OrderInv'
  <2> DEFINE s == list[w]
  <2>1. /\ s \in Seq(Nat) /\ s # <<>>
        /\ task' = [task EXCEPT ![w] = s[1]]
        /\ list' = [list EXCEPT ![w] = Tail(s)]
        /\ UNCHANGED added
    BY <1>1 DEF Take, Tasks
  <2>2. OrderedBelow(s, task[w], added)
    BY DEF OrderInv
  <2>3. /\ \A v \in Threads \ {w} : list'[v] = list[v] /\ task'[v] = task[v]
        /\ list'[w] = Tail(s) /\ task'[w] = s[1]
    BY <2>1
  <2> HIDE DEF s
  <2>4. OrderedBelow(Tail(s), s[1], added)
    BY <2>1, <2>2, OrderedTail
  <2> QED
    BY <2>1, <2>3, <2>4 DEF OrderInv
<1>2. CASE Add
  <2> DEFINE s == list[at]
  <2>1. /\ s \in Seq(Nat) /\ added + 1 \in Nat
        /\ list' = [list EXCEPT ![at] = Append(s, added + 1)]
        /\ added' = added + 1
        /\ UNCHANGED task
    BY <1>2 DEF Add, Tasks
  <2>2. OrderedBelow(s, task[at], added) /\ task[at] \in Nat
    BY DEF OrderInv, Tasks, NoTask
  <2>3. /\ \A v \in Threads \ {at} : list'[v] = list[v]
        /\ list'[at] = Append(s, added + 1)
    BY <2>1
  <2> HIDE DEF s
  <2>4. OrderedBelow(Append(s, added + 1), task[at], added')
    BY <2>1, <2>2, OrderedAppend
  <2>5. ASSUME NEW v \in Threads \ {at} PROVE OrderedBelow(list[v], task[v], added + 1)
    <3>1. OrderedBelow(list[v], task[v], added)
      BY DEF OrderInv
    <3>2. /\ task[v] \in Nat
          /\ \A i \in DOMAIN list[v] : list[v][i] \in Nat
      BY DEF Tasks, NoTask
    <3> QED
      BY <3>1, <3>2 DEF OrderedBelow
  <2> QED
    BY <2>1, <2>3, <2>4, <2>5 DEF OrderInv
<1>3. ASSUME NEW w \in Threads, Work(w) PROVE OrderInv'
  <2>1. OrderedBelow(list[w], NoTask, added)
    <3>1. OrderedBelow(list[w], task[w], added)
      BY DEF OrderInv
    <3>2. \A i \in DOMAIN list[w] : list[w][i] \in Nat \ {0}
      BY DEF Tasks
    <3> QED
      BY <3>1, <3>2 DEF OrderedBelow, NoTask
  <2> QED
    BY <1>3, <2>1 DEF Work, OrderInv
<1>4. CASE Mark
  <2>1. OrderedBelow(<<>>, task[at], added)
    <3>1. OrderedBelow(list[at], task[at], added)
      BY DEF OrderInv
    <3> QED
      BY <3>1 DEF OrderedBelow
  <2> QED
    BY <1>4, <2>1 DEF Mark, OrderInv
<1>5. ASSUME UNCHANGED <<list, task, added>> PROVE OrderInv'
  BY <1>5 DEF OrderInv
<1>6. ASSUME NEW w \in Threads,
             \/ Lock(w) \/ Wait(w) \/ SpuriousWakeup(w) \/ Wake(w) \/ Continue(w)
             \/ Exit(w) \/ ExitSignal(w)
      PROVE  OrderInv'
  BY <1>5, <1>6 DEF Lock, Wait, SpuriousWakeup, Wake, Continue, Exit, ExitSignal
<1>7. CASE AddSignal \/ MarkSignal \/ Reap \/ PollSignal \/ UNCHANGED vars
  BY <1>5, <1>7 DEF AddSignal, MarkSignal, Reap, PollSignal, vars
<1> QED
  BY <1>1, <1>2, <1>3, <1>4, <1>6, <1>7 DEF Next, Thread, MainThread
-----------------------------------------------------------------------------
(* The ownership of the tasks. *)

\* q[w] is what is queued for thread w, h[w] what it has in hand: together they
\* are the tasks of S, each of which is in one place.
Owns(q, h, S) ==
    /\ \A t : t \in S <=> \E w \in Threads : t \in q[w] \/ (t = h[w] /\ t # NoTask)
    /\ \A v, w \in Threads :
          /\ h[v] \notin q[w]
          /\ v # w => /\ q[v] \intersect q[w] = {}
                      /\ h[v] = h[w] => h[v] = NoTask

Queues(l) == [w \in Threads |-> Elems(l[w])]

\* A thread has a task in hand when it is at work on it, and only then.
HandInv == \A w \in Threads : task[w] # NoTask <=> pc[w] = "work"

OwnInv == Owns(Queues(list), task, tasks) /\ HandInv

LEMMA OwnsTake ==
    ASSUME NEW q \in [Threads -> SUBSET Tasks], NEW h \in [Threads -> Nat], NEW S,
           NEW w \in Threads, NEW t \in q[w],
           Owns(q, h, S), h[w] = NoTask, t # NoTask
    PROVE  Owns([q EXCEPT ![w] = q[w] \ {t}], [h EXCEPT ![w] = t], S)
<1> DEFINE q2 == [q EXCEPT ![w] = q[w] \ {t}]
           h2 == [h EXCEPT ![w] = t]
<1>1. /\ \A v \in Threads \ {w} : q2[v] = q[v] /\ h2[v] = h[v]
      /\ q2[w] = q[w] \ {t} /\ h2[w] = t
  OBVIOUS
<1>2. \A v \in Threads \ {w} : t \notin q[v] /\ h[v] # t
  BY DEF Owns
<1> HIDE DEF q2, h2
<1>3. \A x : x \in S <=> \E v \in Threads : x \in q2[v] \/ (x = h2[v] /\ x # NoTask)
  <2> SUFFICES ASSUME NEW x
               PROVE  (\E v \in Threads : x \in q[v] \/ (x = h[v] /\ x # NoTask))
                        <=> (\E v \in Threads : x \in q2[v] \/ (x = h2[v] /\ x # NoTask))
    BY DEF Owns
  <2>1. CASE x = t
    BY <1>1, <2>1
  <2>2. CASE x # t
    BY <1>1, <2>2
  <2> QED
    BY <2>1, <2>2
<1>4. \A u, v \in Threads :
        /\ h2[u] \notin q2[v]
        /\ u # v => /\ q2[u] \intersect q2[v] = {}
                    /\ h2[u] = h2[v] => h2[u] = NoTask
  BY <1>1, <1>2 DEF Owns
<1> QED
  BY <1>3, <1>4 DEF Owns, q2, h2

LEMMA OwnsWork ==
    ASSUME NEW q \in [Threads -> SUBSET Tasks], NEW h \in [Threads -> Nat], NEW S,
           NEW w \in Threads, Owns(q, h, S), h[w] # NoTask
    PROVE  Owns(q, [h EXCEPT ![w] = NoTask], S \ {h[w]})
<1> DEFINE h2 == [h EXCEPT ![w] = NoTask]
<1>1. /\ \A v \in Threads \ {w} : h2[v] = h[v]
      /\ h2[w] = NoTask
  BY DEF NoTask
<1>2. \A v \in Threads : NoTask \notin q[v] /\ h[w] \notin q[v]
  BY DEF Owns, Tasks, NoTask
<1>3. \A v \in Threads \ {w} : h[v] # h[w]
  BY DEF Owns
<1> HIDE DEF h2
<1>4. \A x : x \in S \ {h[w]} <=>
               \E v \in Threads : x \in q[v] \/ (x = h2[v] /\ x # NoTask)
  BY <1>1, <1>2, <1>3 DEF Owns
<1>5. \A u, v \in Threads :
        /\ h2[u] \notin q[v]
        /\ u # v => /\ q[u] \intersect q[v] = {}
                    /\ h2[u] = h2[v] => h2[u] = NoTask
  BY <1>1, <1>2 DEF Owns
<1> QED
  BY <1>4, <1>5 DEF Owns, h2

LEMMA OwnsAdd ==
    ASSUME NEW q \in [Threads -> SUBSET Tasks], NEW h \in [Threads -> Nat], NEW S,
           NEW w \in Threads, NEW t \in Tasks \ S, Owns(q, h, S)
    PROVE  Owns([q EXCEPT ![w] = q[w] \union {t}], h, S \union {t})
<1> DEFINE q2 == [q EXCEPT ![w] = q[w] \union {t}]
<1>1. /\ \A v \in Threads \ {w} : q2[v] = q[v]
      /\ q2[w] = q[w] \union {t}
      /\ t # NoTask
  BY DEF Tasks, NoTask
<1>2. \A v \in Threads : t \notin q[v] /\ h[v] # t
  BY <1>1 DEF Owns
<1> HIDE DEF q2
<1>3. \A x : x \in S \union {t} <=>
               \E v \in Threads : x \in q2[v] \/ (x = h[v] /\ x # NoTask)
  BY <1>1 DEF Owns
<1>4. \A u, v \in Threads :
        /\ h[u] \notin q2[v]
        /\ u # v => /\ q2[u] \intersect q2[v] = {}
                    /\ h[u] = h[v] => h[u] = NoTask
  BY <1>1, <1>2 DEF Owns
<1> QED
  BY <1>3, <1>4 DEF Owns, q2

LEMMA OwnsMark ==
    ASSUME NEW q \in [Threads -> SUBSET Tasks], NEW h \in [Threads -> Nat], NEW S,
           NEW w \in Threads, Owns(q, h, S)
    PROVE  Owns([q EXCEPT ![w] = {}], h, S \ q[w])
<1> DEFINE q2 == [q EXCEPT ![w] = {}]
<1>1. /\ \A v \in Threads \ {w} : q2[v] = q[v]
      /\ q2[w] = {}
  OBVIOUS
<1>2. /\ \A v \in Threads \ {w} : q[v] \intersect q[w] = {}
      /\ \A v \in Threads : h[v] \notin q[w]
  BY DEF Owns
<1> HIDE DEF q2
<1>3. \A x : x \in S \ q[w] <=>
               \E v \in Threads : x \in q2[v] \/ (x = h[v] /\ x # NoTask)
  BY <1>1, <1>2 DEF Owns
<1>4. \A u, v \in Threads :
        /\ h[u] \notin q2[v]
        /\ u # v => /\ q2[u] \intersect q2[v] = {}
                    /\ h[u] = h[v] => h[u] = NoTask
  BY <1>1 DEF Owns
<1> QED
  BY <1>3, <1>4 DEF Owns, q2

LEMMA QueuesExcept ==
    ASSUME NEW w \in Threads, NEW s, list \in [Threads -> Seq(Tasks)]
    PROVE  Queues([list EXCEPT ![w] = s]) = [Queues(list) EXCEPT ![w] = Elems(s)]
  BY DEF Queues

LEMMA OwnStep == Types /\ OrderInv /\ OwnInv /\ [Next]_vars => OwnInv'
<1> SUFFICES ASSUME Types, OrderInv, OwnInv, [Next]_vars PROVE OwnInv'
  OBVIOUS
<1> DEFINE q == Queues(list)
<1> USE ConstantsTypes DEF Types, threadVars, mainVars
<1>q. /\ q \in [Threads -> SUBSET Tasks]
      /\ \A w \in Threads : q[w] = Elems(list[w])
  BY ElemsType DEF Queues
<1>t. task \in [Threads -> Nat]
  BY DEF Tasks, NoTask
<1>o. Owns(q, task, tasks) /\ HandInv
  BY DEF OwnInv
<1>d. ASSUME NEW w \in Threads PROVE Distinct(list[w])
  <2>1. \A i, j \in DOMAIN list[w] : i \in Nat /\ j \in Nat /\ list[w][i] \in Nat
    BY DEF Tasks
  <2>2. \A i, j \in DOMAIN list[w] : i < j => list[w][i] < list[w][j]
    BY DEF OrderInv, OrderedBelow
  <2> QED
    BY <2>1, <2>2 DEF Distinct
<1>n. ASSUME NEW w \in Threads, NEW t \in Elems(list[w]) PROVE t \in Nat \ {0} /\ t <= added
  BY DEF Elems, OrderInv, OrderedBelow, Tasks
<1>h. ASSUME NEW w \in Threads PROVE task[w] \in Nat /\ task[w] <= added
  BY DEF OrderInv, OrderedBelow, Tasks, NoTask
<1>1. ASSUME NEW w \in Threads, Take(w) PROVE OwnInv'
  <2> DEFINE t == Head(list[w])
  <2>1. /\ list' = [list EXCEPT ![w] = Tail(list[w])]
        /\ task' = [task EXCEPT ![w] = t]
        /\ pc' = [pc EXCEPT ![w] = "work"]
        /\ tasks' = tasks
        /\ list[w] # <<>> /\ pc[w] # "work"
    BY <1>1 DEF Take
  <2>2. t \in Elems(list[w]) /\ Elems(Tail(list[w])) = Elems(list[w]) \ {t}
    BY <2>1, <1>d, TailLemma
  <2> HIDE DEF t
  <2>3. t \in q[w] /\ t # NoTask /\ t \in Nat /\ task[w] = NoTask
    BY <2>1, <2>2, <1>n, <1>q, <1>o DEF NoTask, HandInv
  <2>4. Queues(list') = [q EXCEPT ![w] = q[w] \ {t}]
    BY <2>1, <2>2, <1>q, QueuesExcept
  <2> HIDE DEF q
  <2>5. Owns(Queues(list'), task', tasks')
    <3>1. Owns([q EXCEPT ![w] = q[w] \ {t}], [task EXCEPT ![w] = t], tasks)
      BY ONLY <2>3, <1>q, <1>t, <1>o, OwnsTake
    <3> QED
      BY ONLY <3>1, <2>1, <2>4
  <2>6. HandInv'
    BY <2>1, <2>3, <1>o DEF HandInv
  <2> QED
    BY <2>5, <2>6 DEF OwnInv
<1>2. ASSUME NEW w \in Threads, Work(w) PROVE OwnInv'
  <2>1. /\ task' = [task EXCEPT ![w] = NoTask]
        /\ pc[w] = "work" /\ pc' = [pc EXCEPT ![w] = "lock"]
        /\ tasks' = tasks \ {task[w]} /\ list' = list
    BY <1>2 DEF Work
  <2>2. task[w] # NoTask /\ Queues(list') = q
    BY <2>1, <1>o DEF HandInv
  <2> HIDE DEF q
  <2>3. Owns(Queues(list'), task', tasks')
    BY <2>1, <2>2, <1>q, <1>t, <1>o, OwnsWork
  <2>4. HandInv'
    BY <2>1, <1>o DEF HandInv
  <2> QED
    BY <2>3, <2>4 DEF OwnInv
<1>3. CASE Add
  <2> DEFINE t == added + 1
  <2>1. /\ list' = [list EXCEPT ![at] = Append(list[at], t)]
        /\ tasks' = tasks \union {t}
        /\ UNCHANGED <<task, pc>>
        /\ t \in Tasks
    BY <1>3 DEF Add, Tasks
  <2>2. \A v \in Threads : t \notin q[v] /\ task[v] # t
    BY <1>n, <1>h, <1>q
  <2>3. t \notin tasks
    BY <2>2, <1>o DEF Owns
  <2> HIDE DEF t
  <2>4. Elems(Append(list[at], t)) = Elems(list[at]) \union {t}
    <3>1. list[at] \in Seq(Tasks) /\ Distinct(list[at]) /\ t \notin Elems(list[at])
      BY <2>2, <1>d, <1>q
    <3> QED
      BY ONLY <3>1, <2>1, AppendLemma
  <2>5. Queues(list') = [q EXCEPT ![at] = q[at] \union {t}]
    BY <2>1, <2>4, <1>q, QueuesExcept
  <2> HIDE DEF q
  <2>6. Owns(Queues(list'), task', tasks')
    <3>1. Owns([q EXCEPT ![at] = q[at] \union {t}], task, tasks \union {t})
      <4>1. at \in Threads /\ t \in Tasks \ tasks
        BY <2>1, <2>3
      <4> QED
        BY ONLY <4>1, <1>q, <1>t, <1>o, OwnsAdd
    <3> QED
      BY ONLY <3>1, <2>1, <2>5
  <2>7. HandInv'
    BY <2>1, <1>o DEF HandInv
  <2> QED
    BY <2>6, <2>7 DEF OwnInv
<1>4. CASE Mark
  <2>1. /\ list' = [list EXCEPT ![at] = <<>>]
        /\ tasks' = tasks \ q[at]
        /\ UNCHANGED <<task, pc>>
    BY <1>4, <1>q DEF Mark, InList, Elems
  <2>2. Elems(<<>>) = {}
    BY DEF Elems
  <2>3. Queues(list') = [q EXCEPT ![at] = {}]
    BY <2>1, <2>2, QueuesExcept
  <2> HIDE DEF q
  <2>4. Owns(Queues(list'), task', tasks')
    <3>1. Owns([q EXCEPT ![at] = {}], task, tasks \ q[at])
      <4>1. at \in Threads
        OBVIOUS
      <4> QED
        BY ONLY <4>1, <1>q, <1>t, <1>o, OwnsMark
    <3> QED
      BY ONLY <3>1, <2>1, <2>3
  <2>5. HandInv'
    BY <2>1, <1>o DEF HandInv
  <2> QED
    BY <2>4, <2>5 DEF OwnInv
<1>5. ASSUME UNCHANGED <<list, task, tasks>>,
             \A w \in Threads : pc[w] = "work" <=> pc'[w] = "work"
      PROVE  OwnInv'
  BY <1>5 DEF OwnInv, HandInv
<1>6. ASSUME NEW w \in Threads,
             \/ Lock(w) \/ Wait(w) \/ SpuriousWakeup(w) \/ Wake(w) \/ Continue(w)
             \/ Exit(w) \/ ExitSignal(w)
      PROVE  OwnInv'
  BY <1>5, <1>6 DEF Lock, Wait, SpuriousWakeup, Wake, Continue, Exit, ExitSignal
<1>7. CASE AddSignal \/ MarkSignal \/ Reap \/ PollSignal \/ UNCHANGED vars
  BY <1>5, <1>7 DEF AddSignal, MarkSignal, Reap, PollSignal, Signal, vars
<1> QED
  BY <1>1, <1>2, <1>3, <1>4, <1>6, <1>7 DEF Next, Thread, MainThread
-----------------------------------------------------------------------------
Inv == Types /\ StatusInv /\ ReleaseLast /\ OrderInv /\ OwnInv

THEOREM Invariance == Spec => []Inv
<1>1. Init => Inv
  <2> SUFFICES ASSUME Init PROVE Inv
    OBVIOUS
  <2>1. StatusInv
    BY DEF Init, StatusInv, StatusMeaning, LeftMarked, Left, Marked
  <2>2. ReleaseLast
    BY DEF Init, ReleaseLast
  <2>3. OrderInv
    BY DEF Init, OrderInv, OrderedBelow, NoTask
  <2>4. OwnInv
    BY DEF Init, OwnInv, Owns, Queues, Elems, HandInv
  <2> QED
    BY <2>1, <2>2, <2>3, <2>4, TypesInit DEF Inv
<1>2. Inv /\ [Next]_vars => Inv'
  BY TypesStep, StatusStep, ReleaseStep, OrderStep, OwnStep DEF Inv
<1> QED
  BY <1>1, <1>2, PTL DEF Spec

\* The type invariant, with the documented range of the status.
THEOREM TypeCorrect == Spec => []TypeOK
<1>1. Inv => TypeOK
  BY DEF Inv, Types, TypeOK, StatusInv, StatusMeaning
<1> QED
  BY <1>1, Invariance, PTL

\* The comment on status holds at every step: 0 running, 1 destroyed, 2 left.
THEOREM StatusMeansWhatItSays == Spec => []StatusMeaning
  BY Invariance, PTL DEF Inv, StatusInv

\* ev_task_info_func begins tasks in the order of ev_task_info_add.
THEOREM TasksInOrder == Spec => []InOrder
<1>1. OrderInv => InOrder
  BY DEF OrderInv, OrderedBelow, InOrder
<1> QED
  BY <1>1, Invariance, PTL DEF Inv

\* Between them, the threads and the destroyer free every task once, and
\* nothing refers to a task that is freed.
THEOREM TasksOwnedOnce == Spec => []OneOwner
<1>1. OwnInv => OneOwner
  <2> SUFFICES ASSUME OwnInv PROVE OneOwner
    OBVIOUS
  <2>1. \A w \in Threads : Queues(list)[w] = InList(w)
    BY DEF Queues, Elems, InList
  <2>2. Owns(Queues(list), task, tasks)
    BY DEF OwnInv
  <2> HIDE DEF Queues
  <2>3. tasks = (UNION {InList(w) : w \in Threads})
                  \union ({task[w] : w \in Threads} \ {NoTask})
    <3>1. \A t : t \in tasks <=> \E w \in Threads : t \in InList(w)
                                         \/ (t = task[w] /\ t # NoTask)
      BY <2>1, <2>2 DEF Owns
    <3> DEFINE Queued == UNION {InList(w) : w \in Threads}
               InHand == {task[w] : w \in Threads} \ {NoTask}
    <3>2. \A t : t \in Queued <=> \E w \in Threads : t \in InList(w)
      OBVIOUS
    <3>3. \A t : t \in InHand <=> \E w \in Threads : t = task[w] /\ t # NoTask
      OBVIOUS
    <3> HIDE DEF Queued, InHand
    <3>4. \A t : t \in tasks <=> t \in Queued \/ t \in InHand
      BY <3>1, <3>2, <3>3
    <3>5. tasks = Queued \union InHand
      BY <3>4
    <3> QED
      BY <3>5 DEF Queued, InHand
  <2> QED
    BY <2>1, <2>2, <2>3 DEF Owns, OneOwner
<1> QED
  BY <1>1, Invariance, PTL DEF Inv

\* ev_thread_pool_destroy frees no thread that is still in its loop.
THEOREM ReleasedLast == Spec => []ReleaseLast
  BY Invariance, PTL DEF Inv
=============================================================================
