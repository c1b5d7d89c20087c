-------------------------- MODULE AsyncReadProofs --------------------------
(***************************************************************************)
(* Proofs that, for any finite set of workers and any set of requests, the *)
(* first runtime loses no signal on either of its condition variables, and *)
(* that every request has one owner.                                       *)
(*                                                                         *)
(* The inductive invariant is the type invariant, with what is at hand at  *)
(* each control point, the two properties about signals themselves, and    *)
(* the partition of the live requests that OneOwner follows from.          *)
(***************************************************************************)
EXTENDS AsyncRead, FiniteSetTheorems, ListLemmas, TLAPS

Types ==
    /\ TypeOK
    /\ \A w \in Workers : pc[w] \in {"signal", "work", "finish"} => task[w] \in Reqs
    /\ mainpc \in {"spin", "js"} => cur \in Reqs

\* pthread_cond_signal changes at most one control point, from "sleep" to
\* "woken", and changes one if there is a sleeper.
LEMMA SignalLemma ==
    ASSUME NEW p \in [Workers -> WorkerPC], NEW q \in SignalPending(p)
    PROVE  /\ q \in [Workers -> WorkerPC]
           /\ \A v \in Workers : q[v] = p[v] \/ (p[v] = "sleep" /\ q[v] = "woken")
           /\ (\E v \in Workers : p[v] = "sleep") =>
                  \E v \in Workers : p[v] = "sleep" /\ q = [p EXCEPT ![v] = "woken"]
  BY DEF SignalPending, WorkerPC

\* PassOn moves its own thread to its work and at most wakes a sleeper.
LEMMA PassOnWakes ==
    ASSUME Types, NEW w \in Workers, PassOn(w)
    PROVE  /\ pc' \in [Workers -> WorkerPC]
           /\ pc'[w] = "work"
           /\ \A v \in Workers \ {w} :
                 pc'[v] = pc[v] \/ (pc[v] = "sleep" /\ pc'[v] = "woken")
           /\ Sleepers # {} =>
                 \E v \in Workers : pc[v] = "sleep" /\ pc' = [pc EXCEPT ![w] = "work", ![v] = "woken"]
<1> DEFINE p == [pc EXCEPT ![w] = "work"]
<1>1. p \in [Workers -> WorkerPC] /\ pc[w] = "signal"
  BY DEF PassOn, At, Types, TypeOK, WorkerPC
<1>2. pc' \in SignalPending(p)
  BY DEF PassOn
<1>3. p[w] = "work" /\ \A v \in Workers \ {w} : p[v] = pc[v]
  BY DEF Types, TypeOK
<1>4. \A v \in Workers : p[v] = "sleep" <=> pc[v] = "sleep"
  BY <1>1, <1>3
<1>5. \A v \in Workers : [p EXCEPT ![v] = "woken"] = [pc EXCEPT ![w] = "work", ![v] = "woken"]
  OBVIOUS
<1> HIDE DEF p
<1>6. /\ pc' \in [Workers -> WorkerPC]
      /\ \A v \in Workers : pc'[v] = p[v] \/ (p[v] = "sleep" /\ pc'[v] = "woken")
  BY <1>1, <1>2, SignalLemma
<1>7. ASSUME Sleepers # {}
      PROVE  \E v \in Workers : p[v] = "sleep" /\ pc' = [p EXCEPT ![v] = "woken"]
  <2>1. \E v \in Workers : p[v] = "sleep"
    BY <1>4, <1>7 DEF Sleepers
  <2> QED
    BY <1>1, <1>2, <2>1, SignalLemma
<1>8. pc'[w] = "work"
  BY <1>3, <1>6
<1>9. \A v \in Workers \ {w} : pc'[v] = pc[v] \/ (pc[v] = "sleep" /\ pc'[v] = "woken")
  BY <1>3, <1>6
<1>10. Sleepers # {} =>
          \E v \in Workers : pc[v] = "sleep" /\ pc' = [pc EXCEPT ![w] = "work", ![v] = "woken"]
  BY <1>4, <1>5, <1>7
<1> QED
  BY <1>6, <1>8, <1>9, <1>10

LEMMA TypesInit == Init => Types
<1> SUFFICES ASSUME Init PROVE Types
  OBVIOUS
<1>1. result \in [Reqs -> BOOLEAN]
  BY DEF Init
<1>2. signalling \in BOOLEAN
  BY Zenon DEF Init
<1>3. /\ pc \in [Workers -> WorkerPC] /\ task \in [Workers -> Reqs \union {NoReq}]
      /\ \A w \in Workers : pc[w] = "none"
  BY DEF Init, WorkerPC
<1>4. promise \in [Reqs -> {"none", "pending", "fulfilled"}]
  BY DEF Init
<1>5. pending \in Seq(Reqs) /\ done \in Seq(Reqs) /\ live \in SUBSET Reqs
  BY DEF Init
<1> QED
  BY <1>1, <1>2, <1>3, <1>4, <1>5 DEF Init, Types, TypeOK, MainPC

LEMMA TypesStep == Types /\ [Next]_vars => Types'
<1> SUFFICES ASSUME Types, [Next]_vars PROVE Types'
  OBVIOUS
<1> USE DEF Types, TypeOK, workerVars, mainVars
<1>1. ASSUME NEW w \in Workers, Wait(w) \/ SpuriousWakeup(w) PROVE Types'
  BY <1>1 DEF Wait, SpuriousWakeup, WorkerPC
<1>2. ASSUME NEW w \in Workers, Take(w) PROVE Types'
  <2>1. Head(pending) \in Reqs /\ Tail(pending) \in Seq(Reqs)
    BY <1>2 DEF Take
  <2> QED
    BY <1>2, <2>1 DEF Take, WorkerPC
<1>3. ASSUME NEW w \in Workers, PassOn(w) PROVE Types'
  <2>1. pc[w] = "signal"
    BY <1>3 DEF PassOn, At
  <2>2. \A v \in Workers : pc'[v] \in {"signal", "work", "finish"} =>
                              pc[v] \in {"signal", "work", "finish"}
    BY <1>3, <2>1, PassOnWakes
  <2> QED
    BY <1>3, <2>2, PassOnWakes DEF PassOn
<1>4. ASSUME NEW w \in Workers, Work(w) PROVE Types'
  BY <1>4 DEF Work, At, WorkerPC
<1>5. ASSUME NEW w \in Workers, Finish(w) PROVE Types'
  <2>1. done' \in Seq(Reqs)
    BY <1>5 DEF Finish, At
  <2> QED
    BY <1>5, <2>1 DEF Finish, WorkerPC
<1>6. ASSUME NEW w \in Workers, SignalDone(w) PROVE Types'
  BY <1>6 DEF SignalDone, WorkerPC, MainPC
<1>7. ASSUME NEW r \in Reqs, ReadFileAsync(r) PROVE Types'
  <2>1. pending' \in Seq(Reqs)
    BY <1>7 DEF ReadFileAsync
  <2> QED
    BY <1>7, <2>1 DEF ReadFileAsync
<1>8. CASE AsyncSignal
  <2>1. /\ pc' \in [Workers -> WorkerPC]
        /\ \A v \in Workers : pc'[v] = pc[v] \/ pc'[v] = "woken"
    BY <1>8, SignalLemma DEF AsyncSignal
  <2>2. \A v \in Workers : pc'[v] \in {"signal", "work", "finish"} => task'[v] \in Reqs
    BY <1>8, <2>1 DEF AsyncSignal
  <2> QED
    BY <1>8, <2>1, <2>2 DEF AsyncSignal
<1>9. ASSUME NEW r \in Reqs, EvalAwait(r) PROVE Types'
  BY <1>9 DEF EvalAwait, MainPC
<1>10. CASE EvalDone \/ SpinTest
  BY <1>10 DEF EvalDone, SpinTest, MainPC
<1>11. ASSUME NEW w \in Workers, CreateThread(w) PROVE Types'
  BY <1>11 DEF CreateThread, WorkerPC, MainPC
<1>12. CASE TestDone \/ MainSpuriousWakeup \/ Drained
  BY <1>12 DEF TestDone, MainSpuriousWakeup, Drained, MainPC
<1>13. CASE Resolve
  <2>1. Head(done) \in Reqs /\ Tail(done) \in Seq(Reqs)
    BY <1>13 DEF Resolve
  <2> QED
    BY <1>13, <2>1 DEF Resolve, MainPC
<1>14. CASE FreeTask
  BY <1>14 DEF FreeTask, MainPC
<1>15. CASE UNCHANGED vars
  BY <1>15 DEF vars
<1> QED
  BY <1>1, <1>2, <1>3, <1>4, <1>5, <1>6, <1>7, <1>8, <1>9, <1>10, <1>11,
     <1>12, <1>13, <1>14, <1>15 DEF Next, Worker, MainThread
-----------------------------------------------------------------------------
(* No signal on pending_cond is lost. *)

LEMMA ComingFinite == IsFiniteSet(Coming) /\ Cardinality(Coming) \in Nat
  BY WorkersAssumption, FS_Subset, FS_CardinalityType DEF Coming

LEMMA ConservingStep == Types /\ WorkConserving /\ [Next]_vars => WorkConserving'
<1> SUFFICES ASSUME Types, WorkConserving, [Next]_vars PROVE WorkConserving'
  OBVIOUS
<1> USE DEF Types, TypeOK, workerVars, mainVars
<1>a. IsFiniteSet(Coming') /\ Cardinality(Coming') \in Nat
  BY WorkersAssumption, FS_Subset, FS_CardinalityType DEF Coming
\* A step that puts nobody to sleep and takes nobody off the way.
<1>b. ASSUME UNCHANGED <<pending, signalling>>,
             \A v \in Workers :
                /\ pc'[v] = "sleep" => pc[v] = "sleep"
                /\ pc[v] \in {"start", "woken", "signal"} =>
                      pc'[v] \in {"start", "woken", "signal"}
      PROVE  WorkConserving'
  <2>1. Sleepers' \subseteq Sleepers /\ Coming \subseteq Coming'
    BY <1>b DEF Sleepers, Coming
  <2>2. Cardinality(Coming) <= Cardinality(Coming')
    BY <1>a, <2>1, FS_Subset
  <2>3. Sleepers = {} => Sleepers' = {}
    BY <2>1
  <2> QED
    BY <1>a, <1>b, <2>2, <2>3, ComingFinite DEF WorkConserving
<1>1. ASSUME NEW w \in Workers, Wait(w) PROVE WorkConserving'
  <2>1. Len(pending') = 0
    BY <1>1 DEF Wait
  <2> QED
    BY <1>a, <2>1 DEF WorkConserving
<1>2. ASSUME NEW w \in Workers, Take(w) PROVE WorkConserving'
  <2>1. Sleepers' = Sleepers /\ Coming' = Coming
    BY <1>2 DEF Take, At, Sleepers, Coming
  <2>2. Len(pending') = Len(pending) - 1 /\ signalling' = signalling
    BY <1>2 DEF Take
  <2> QED
    BY <2>1, <2>2, ComingFinite DEF WorkConserving
\* The thread that leaves for its work sends another one in its place.
<1>3. ASSUME NEW w \in Workers, PassOn(w) PROVE WorkConserving'
  <2>1. pc[w] = "signal" /\ UNCHANGED <<pending, signalling>>
    BY <1>3 DEF PassOn, At
  <2>2. CASE Sleepers = {}
    <3>1. Sleepers' = {}
      BY <1>3, <2>2, PassOnWakes DEF Sleepers
    <3> QED
      BY <3>1 DEF WorkConserving
  <2>3. CASE Sleepers # {}
    <3>1. PICK v \in Workers : pc[v] = "sleep" /\ pc' = [pc EXCEPT ![w] = "work", ![v] = "woken"]
      BY <1>3, <2>3, PassOnWakes
    <3>2. w \in Coming /\ v \notin Coming /\ Coming' = (Coming \ {w}) \union {v}
      BY <2>1, <3>1 DEF Coming
    <3>3. Cardinality(Coming \ {w}) = Cardinality(Coming) - 1 /\ IsFiniteSet(Coming \ {w})
      BY <3>2, ComingFinite, FS_RemoveElement
    <3>4. Cardinality((Coming \ {w}) \union {v}) = Cardinality(Coming \ {w}) + 1
      BY <3>2, <3>3, FS_AddElement
    <3>5. Cardinality(Coming') = Cardinality(Coming)
      BY <3>2, <3>3, <3>4, ComingFinite
    <3> QED
      BY <2>1, <2>3, <3>5 DEF WorkConserving
  <2> QED
    BY <2>2, <2>3
<1>4. ASSUME NEW r \in Reqs, ReadFileAsync(r) PROVE WorkConserving'
  <2>1. Sleepers' = Sleepers /\ Coming' = Coming
    BY <1>4 DEF ReadFileAsync, Sleepers, Coming
  <2>2. Len(pending') = Len(pending) + 1 /\ ~signalling /\ signalling'
    BY <1>4 DEF ReadFileAsync
  <2> QED
    BY <2>1, <2>2, ComingFinite DEF WorkConserving
<1>5. CASE AsyncSignal
  <2>1. signalling /\ ~signalling' /\ pending' = pending /\ pc' \in SignalPending(pc)
    BY <1>5 DEF AsyncSignal
  <2>2. CASE Sleepers = {}
    <3>1. Sleepers' = {}
      BY <2>1, <2>2, SignalLemma DEF Sleepers
    <3> QED
      BY <3>1 DEF WorkConserving
  <2>3. CASE Sleepers # {}
    <3>1. PICK v \in Workers : pc[v] = "sleep" /\ pc' = [pc EXCEPT ![v] = "woken"]
      BY <2>1, <2>3, SignalLemma DEF Sleepers
    <3>2. v \notin Coming /\ Coming' = Coming \union {v}
      BY <3>1 DEF Coming
    <3>3. Cardinality(Coming') = Cardinality(Coming) + 1
      BY <3>2, ComingFinite, FS_AddElement
    <3> QED
      BY <2>1, <2>3, <3>3, ComingFinite DEF WorkConserving
  <2> QED
    BY <2>2, <2>3
<1>6. ASSUME NEW w \in Workers,
             SpuriousWakeup(w) \/ Work(w) \/ Finish(w) \/ SignalDone(w) \/ CreateThread(w)
      PROVE  WorkConserving'
  BY <1>b, <1>6 DEF SpuriousWakeup, Work, Finish, SignalDone, CreateThread, At
<1>7. ASSUME UNCHANGED <<pending, signalling, pc>> PROVE WorkConserving'
  BY <1>b, <1>7
<1>8. ASSUME NEW r \in Reqs, EvalAwait(r) PROVE WorkConserving'
  BY <1>7, <1>8 DEF EvalAwait
<1>9. CASE \/ EvalDone \/ SpinTest \/ TestDone \/ MainSpuriousWakeup \/ Resolve
           \/ FreeTask \/ Drained \/ UNCHANGED vars
  BY <1>7, <1>9 DEF EvalDone, SpinTest, TestDone, MainSpuriousWakeup, Resolve,
     FreeTask, Drained, vars
<1> QED
  BY <1>1, <1>2, <1>3, <1>4, <1>5, <1>6, <1>8, <1>9 DEF Next, Worker, MainThread
-----------------------------------------------------------------------------
(* No signal on done_cond is lost. *)

LEMMA AnnouncedStep == Types /\ CompletionAnnounced /\ [Next]_vars => CompletionAnnounced'
<1> SUFFICES ASSUME Types, CompletionAnnounced, [Next]_vars PROVE CompletionAnnounced'
  OBVIOUS
<1> USE DEF Types, TypeOK, CompletionAnnounced, workerVars, mainVars
<1>1. ASSUME NEW w \in Workers, Finish(w) PROVE CompletionAnnounced'
  BY <1>1 DEF Finish
<1>2. ASSUME NEW w \in Workers, SignalDone(w) PROVE CompletionAnnounced'
  BY <1>2 DEF SignalDone
<1>3. ASSUME NEW w \in Workers, PassOn(w) PROVE CompletionAnnounced'
  <2>1. pc[w] = "signal" /\ UNCHANGED <<done, mainpc>>
    BY <1>3 DEF PassOn, At
  <2>2. \A v \in Workers : pc[v] = "signalDone" => pc'[v] = "signalDone"
    BY <1>3, <2>1, PassOnWakes
  <2> QED
    BY <2>1, <2>2
<1>4. CASE AsyncSignal
  <2>1. UNCHANGED <<done, mainpc>>
    BY <1>4 DEF AsyncSignal
  <2>2. \A v \in Workers : pc[v] = "signalDone" => pc'[v] = "signalDone"
    BY <1>4, SignalLemma DEF AsyncSignal
  <2> QED
    BY <2>1, <2>2
<1>5. ASSUME NEW w \in Workers, Wait(w) \/ SpuriousWakeup(w) \/ Take(w) \/ Work(w)
      PROVE  CompletionAnnounced'
  BY <1>5 DEF Wait, SpuriousWakeup, Take, Work, At
<1>6. ASSUME NEW w \in Workers, CreateThread(w) PROVE CompletionAnnounced'
  BY <1>6 DEF CreateThread
<1>7. ASSUME NEW r \in Reqs, ReadFileAsync(r) \/ EvalAwait(r) PROVE CompletionAnnounced'
  BY <1>7 DEF ReadFileAsync, EvalAwait
<1>8. CASE \/ EvalDone \/ SpinTest \/ TestDone \/ MainSpuriousWakeup \/ Resolve
           \/ FreeTask \/ Drained \/ UNCHANGED vars
  BY <1>8 DEF EvalDone, SpinTest, TestDone, MainSpuriousWakeup, Resolve,
     FreeTask, Drained, vars
<1> QED
  BY <1>1, <1>2, <1>3, <1>4, <1>5, <1>6, <1>7, <1>8 DEF Next, Worker, MainThread
-----------------------------------------------------------------------------
(* A request has one owner.  Own says with sets what OneOwner says by      *)
(* counting positions: the lists have no repetitions, and they, the        *)
(* workers' hands and the request being resolved partition live.           *)

Busy == {"signal", "work", "finish"}
Hands == {task[w] : w \in Workers} \ {NoReq}
Held == IF mainpc \in {"js", "crashed"} THEN {cur} ELSE {}

Own ==
    /\ Distinct(pending) /\ Distinct(done)
    /\ \A w \in Workers : task[w] # NoReq <=> pc[w] \in Busy
    /\ \A v, w \in Workers : task[v] = task[w] /\ task[v] # NoReq => v = w
    /\ Elems(pending) \intersect (Hands \union Elems(done) \union Held) = {}
    /\ Hands \intersect (Elems(done) \union Held) = {}
    /\ Elems(done) \intersect Held = {}
    /\ live = Elems(pending) \union Hands \union Elems(done) \union Held

LEMMA OwnInit == Init => Own
<1> SUFFICES ASSUME Init PROVE Own
  OBVIOUS
<1>1. /\ Elems(pending) = {} /\ Elems(done) = {}
      /\ Distinct(pending) /\ Distinct(done)
  BY DEF Init, Elems, Distinct
<1>2. Hands = {} /\ Held = {} /\ live = {}
  BY DEF Init, Hands, Held
<1>3. \A w \in Workers : task[w] = NoReq /\ pc[w] = "none"
  BY DEF Init
<1> QED
  BY <1>1, <1>2, <1>3 DEF Own, Busy

\* What a step that moves no request leaves alone.
LEMMA OwnUnchanged ==
    ASSUME Own, UNCHANGED <<pending, done, task, live>>, Held' = Held,
           \A w \in Workers : pc[w] \in Busy <=> pc'[w] \in Busy
    PROVE  Own'
<1>1. Hands' = Hands
  BY DEF Hands
<1> QED
  BY <1>1 DEF Own, Distinct, Elems

LEMMA OwnStep == Types /\ Own /\ [Next]_vars => Own'
<1> SUFFICES ASSUME Types, Own, [Next]_vars PROVE Own'
  OBVIOUS
<1> USE ReqsAssumption DEF Types, TypeOK, workerVars, mainVars
<1>1. ASSUME NEW w \in Workers, Take(w) PROVE Own'
  <2> DEFINE r == Head(pending)
  <2>1. /\ r \in Elems(pending) /\ r \in Reqs
        /\ Distinct(pending')
        /\ Elems(pending') = Elems(pending) \ {r}
    BY <1>1, TailLemma, ElemsType DEF Take, Own
  <2>2. /\ task' = [task EXCEPT ![w] = r] /\ pc' = [pc EXCEPT ![w] = "signal"]
        /\ task[w] = NoReq
    BY <1>1 DEF Take, At, Own, Busy
  <2>3. Hands' = Hands \union {r}
    BY <2>1, <2>2 DEF Hands
  <2>4. UNCHANGED <<done, live>> /\ Held' = Held
    BY <1>1 DEF Take, Held
  <2> HIDE DEF r
  <2>5. \A v \in Workers : task'[v] # NoReq <=> pc'[v] \in Busy
    BY <2>1, <2>2 DEF Own, Busy
  <2>6. \A u, v \in Workers : task'[u] = task'[v] /\ task'[u] # NoReq => u = v
    BY <2>1, <2>2 DEF Own, Hands
  <2> QED
    BY <2>1, <2>3, <2>4, <2>5, <2>6 DEF Own
<1>2. ASSUME NEW w \in Workers, Finish(w) PROVE Own'
  <2> DEFINE r == task[w]
  <2>1. r \in Reqs /\ r \in Hands
    BY <1>2 DEF Finish, At, Hands
  <2>2. Distinct(done') /\ Elems(done') = Elems(done) \union {r}
    <3>1. r \notin Elems(done) /\ Distinct(done)
      BY <2>1 DEF Own
    <3> QED
      BY <1>2, <2>1, <3>1, PrependLemma DEF Finish
  <2>3. task' = [task EXCEPT ![w] = NoReq] /\ pc' = [pc EXCEPT ![w] = "signalDone"]
    BY <1>2 DEF Finish
  <2>4. Hands' = Hands \ {r}
    BY <2>1, <2>3 DEF Hands, Own
  <2>5. UNCHANGED <<pending, live>> /\ Held' = Held
    BY <1>2 DEF Finish, Held
  <2>6. \A v \in Workers : task'[v] # NoReq <=> pc'[v] \in Busy
    BY <2>3 DEF Own, Busy
  <2>7. \A u, v \in Workers : task'[u] = task'[v] /\ task'[u] # NoReq => u = v
    BY <2>3 DEF Own
  <2> HIDE DEF r
  <2> QED
    BY <2>1, <2>2, <2>4, <2>5, <2>6, <2>7 DEF Own
<1>3. ASSUME NEW r \in Reqs, ReadFileAsync(r) PROVE Own'
  <2>1. r \notin live /\ live' = live \union {r} /\ pending' = <<r>> \o pending
    BY <1>3 DEF ReadFileAsync
  <2>2. r \notin Elems(pending) \union Hands \union Elems(done) \union Held
    BY <2>1 DEF Own
  <2>3. Distinct(pending') /\ Elems(pending') = Elems(pending) \union {r}
    BY <2>1, <2>2, PrependLemma DEF Own
  <2>4. UNCHANGED <<pc, task, done>> /\ Hands' = Hands /\ Held' = Held
    BY <1>3 DEF ReadFileAsync, Hands, Held
  <2> QED
    BY <2>1, <2>2, <2>3, <2>4 DEF Own
<1>4. CASE Resolve
  <2> DEFINE r == Head(done)
  <2>1. /\ r \in Elems(done)
        /\ Distinct(done')
        /\ Elems(done') = Elems(done) \ {r}
    BY <1>4, TailLemma DEF Resolve, Own
  <2>2. Held = {} /\ Held' = {r}
    BY <1>4 DEF Resolve, Held
  <2>3. UNCHANGED <<pc, task, pending, live>> /\ Hands' = Hands
    BY <1>4 DEF Resolve, Hands
  <2> HIDE DEF r
  <2> QED
    BY <2>1, <2>2, <2>3 DEF Own
<1>5. CASE FreeTask
  <2>1. Held = {cur} /\ Held' = {} /\ live' = live \ {cur}
    BY <1>5 DEF FreeTask, Held
  <2>2. UNCHANGED <<pc, task, pending, done>> /\ Hands' = Hands
    BY <1>5 DEF FreeTask, Hands
  <2> QED
    BY <2>1, <2>2 DEF Own
<1>6. ASSUME NEW w \in Workers, PassOn(w) PROVE Own'
  <2>1. pc[w] = "signal" /\ UNCHANGED <<pending, done, task, live, mainpc, cur>>
    BY <1>6 DEF PassOn, At
  <2>2. \A v \in Workers : pc[v] \in Busy <=> pc'[v] \in Busy
    BY <1>6, <2>1, PassOnWakes DEF Busy
  <2> QED
    BY <2>1, <2>2, OwnUnchanged DEF Held
<1>7. CASE AsyncSignal
  <2>1. UNCHANGED <<pending, done, task, live, mainpc, cur>>
    BY <1>7 DEF AsyncSignal
  <2>2. \A v \in Workers : pc[v] \in Busy <=> pc'[v] \in Busy
    <3>1. pc' \in SignalPending(pc) /\ pc \in [Workers -> WorkerPC]
      BY <1>7 DEF AsyncSignal
    <3>2. \A v \in Workers : pc'[v] = pc[v] \/ (pc[v] = "sleep" /\ pc'[v] = "woken")
      BY <3>1, SignalLemma
    <3> QED
      BY <3>2 DEF Busy
  <2> QED
    BY <2>1, <2>2, OwnUnchanged DEF Held
<1>8. ASSUME NEW w \in Workers,
             \/ Wait(w) \/ SpuriousWakeup(w) \/ Work(w) \/ SignalDone(w) \/ CreateThread(w)
      PROVE  Own'
  <2>1. UNCHANGED <<pending, done, task, live>> /\ Held' = Held
    BY <1>8 DEF Wait, SpuriousWakeup, Work, SignalDone, CreateThread, Held
  <2>2. \A v \in Workers : pc[v] \in Busy <=> pc'[v] \in Busy
    BY <1>8 DEF Wait, SpuriousWakeup, Work, SignalDone, CreateThread, At, Busy
  <2> QED
    BY <2>1, <2>2, OwnUnchanged
<1>9. ASSUME UNCHANGED <<pending, done, task, live, pc>>, Held' = Held PROVE Own'
  BY <1>9, OwnUnchanged
<1>10. ASSUME NEW r \in Reqs, EvalAwait(r) PROVE Own'
  BY <1>9, <1>10 DEF EvalAwait, Held
<1>11. CASE \/ EvalDone \/ SpinTest \/ TestDone \/ MainSpuriousWakeup \/ Drained
            \/ UNCHANGED vars
  BY <1>9, <1>11 DEF EvalDone, SpinTest, TestDone, MainSpuriousWakeup, Drained, vars, Held
<1> QED
  BY <1>1, <1>2, <1>3, <1>4, <1>5, <1>6, <1>7, <1>8, <1>10, <1>11
  DEF Next, Worker, MainThread

LEMMA HandPositions ==
    ASSUME Own, NEW r \in Reqs
    PROVE  LET P == {<<"worker", w>> : w \in {v \in Workers : task[v] = r}}
           IN  IF r \in Hands THEN \E x : P = {x} ELSE P = {}
<1>1. CASE r \in Hands
  <2>1. PICK k \in Workers : task[k] = r /\ r # NoReq
    BY <1>1 DEF Hands
  <2>2. {v \in Workers : task[v] = r} = {k}
    BY <2>1 DEF Own
  <2>3. {<<"worker", w>> : w \in {v \in Workers : task[v] = r}} = {<<"worker", k>>}
    BY <2>2
  <2> QED
    BY <1>1, <2>3
<1>2. CASE r \notin Hands
  BY <1>2, ReqsAssumption DEF Hands
<1> QED
  BY <1>1, <1>2

LEMMA OwnImpliesOneOwner == Own => OneOwner
<1> SUFFICES ASSUME Own, NEW r \in Reqs
             PROVE  Cardinality(Occurrences(r)) = IF r \in live THEN 1 ELSE 0
  BY DEF OneOwner
<1> DEFINE A == ListAt(pending, "pending", r)
           B == {<<"worker", w>> : w \in {v \in Workers : task[v] = r}}
           C == ListAt(done, "done", r)
           D == {<<"main", 0>> : x \in IF mainpc \in {"js", "crashed"}
                                        THEN {cur} \intersect {r} ELSE {}}
<1>1. Occurrences(r) = A \union B \union C \union D
  BY DEF Occurrences, ListAt
<1>2. IF r \in Elems(pending) THEN \E x : A = {x} ELSE A = {}
  BY ListPositions DEF Own
<1>3. IF r \in Hands THEN \E x : B = {x} ELSE B = {}
  BY HandPositions
<1>4. IF r \in Elems(done) THEN \E x : C = {x} ELSE C = {}
  BY ListPositions DEF Own
<1>5. IF r \in Held THEN \E x : D = {x} ELSE D = {}
  <2>1. CASE r \in Held
    <3>1. D = {<<"main", 0>>}
      BY <2>1 DEF Held
    <3> QED
      BY <2>1, <3>1
  <2>2. CASE r \notin Held
    BY <2>2 DEF Held
  <2> QED
    BY <2>1, <2>2
<1> HIDE DEF A, B, C, D
<1>6. /\ r \in live <=> r \in Elems(pending) \/ r \in Hands \/ r \in Elems(done) \/ r \in Held
      /\ r \in Elems(pending) => r \notin Hands /\ r \notin Elems(done) /\ r \notin Held
      /\ r \in Hands => r \notin Elems(done) /\ r \notin Held
      /\ r \in Elems(done) => r \notin Held
  BY DEF Own
<1>7. IF r \in live THEN \E x : Occurrences(r) = {x} ELSE Occurrences(r) = {}
  <2>1. CASE r \notin live
    BY <2>1, <1>1, <1>2, <1>3, <1>4, <1>5, <1>6
  <2>2. CASE r \in Elems(pending)
    BY <2>2, <1>1, <1>2, <1>3, <1>4, <1>5, <1>6
  <2>3. CASE r \in Hands
    BY <2>3, <1>1, <1>2, <1>3, <1>4, <1>5, <1>6
  <2>4. CASE r \in Elems(done)
    BY <2>4, <1>1, <1>2, <1>3, <1>4, <1>5, <1>6
  <2>5. CASE r \in Held
    BY <2>5, <1>1, <1>2, <1>3, <1>4, <1>5, <1>6
  <2> QED
    BY <2>1, <2>2, <2>3, <2>4, <2>5, <1>6
<1> QED
  BY <1>7, FS_EmptySet, FS_Singleton
-----------------------------------------------------------------------------
Inv == Types /\ WorkConserving /\ CompletionAnnounced /\ Own

LEMMA InvInit == Init => Inv
<1> SUFFICES ASSUME Init PROVE Inv
  OBVIOUS
<1>1. Sleepers = {} /\ mainpc # "sleep"
  BY DEF Init, Sleepers
<1> QED
  BY <1>1, TypesInit, OwnInit DEF Inv, WorkConserving, CompletionAnnounced

THEOREM Invariance == Spec => []Inv
<1>1. Inv /\ [Next]_vars => Inv'
  BY TypesStep, ConservingStep, AnnouncedStep, OwnStep DEF Inv
<1> QED
  BY <1>1, InvInit, PTL DEF Spec

\* The variables of main.cc's loop keep their types.
THEOREM TypeCorrect == Spec => []TypeOK
  BY Invariance, PTL DEF Inv, Types

\* A signal after each unlock, passed on by every worker, is enough: while a
\* worker sleeps, every pending request has a worker on its way or a signal
\* still to be sent.
THEOREM NoLostWakeup == Spec => []WorkConserving
  BY Invariance, PTL DEF Inv

\* The main thread never sleeps on finished requests with no signal to come.
THEOREM NoLostCompletion == Spec => []CompletionAnnounced
  BY Invariance, PTL DEF Inv

\* Every allocated request is on one list, in one worker's hands or being resolved,
\* and a freed one nowhere: no thread reads an ev_fs_t that main has freed.
THEOREM OneOwnerAlways == Spec => []OneOwner
  BY Invariance, OwnImpliesOneOwner, PTL DEF Inv
=============================================================================
