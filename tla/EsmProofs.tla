----------------------------- MODULE EsmProofs -----------------------------
(***************************************************************************)
(* Proofs that, for any program, the loader finds the path of every        *)
(* referrer, and which paths it has freed how often at its end; and that,  *)
(* where no two modules share a hash, the modules of a file are as many as *)
(* the chains of imports that lead to it, and cycles are not evaluated.    *)
(***************************************************************************)
EXTENDS Esm, SequenceTheorems, ListLemmas, TLAPS

\* An older one of the loads l has the hash of load i.
ShadowedIn(l, i) == \E j \in 1 .. i - 1 : l[j].hash = l[i].hash

Types ==
    /\ imports \in [Files -> ImportLists]
    /\ phase \in Phases
    /\ result \in {"none", "loaded", "failed"}
    /\ loads \in Seq([file : Files, hash : 0 .. MaxLoads])
    /\ Len(loads) <= MaxLoads
    /\ frees \in Seq(Nat) /\ Len(frees) = Len(loads)
    /\ todo \in Seq(1 .. Len(loads))
    /\ kids \in Seq(1 .. Len(loads))
    /\ phase \in {"link", "evaluate", "failed"} => loads # <<>>

\* An entry is the path of the oldest module with its hash.
MapInv ==
    \A h \in DOMAIN map :
        /\ map[h] \in 1 .. Len(loads)
        /\ loads[map[h]].hash = h /\ h # NoHash
        /\ ~ShadowedIn(loads, map[h])

\* Until the load is over, every module is in the map and nothing is freed;
\* before it nothing is loaded.
LoadInv ==
    /\ phase \in {"main", "link", "evaluate", "spin"} =>
          /\ result = "none"
          /\ \A i \in 1 .. Len(loads) : frees[i] = 0 /\ loads[i].hash \in DOMAIN map
    /\ phase = "main" => loads = <<>>

\* A path is freed when its entry is erased, the entry module's also after a load that
\* failed.
FreesDue(i) ==
    (IF loads[i].hash = NoHash \/ ShadowedIn(loads, i) \/ loads[i].hash \in DOMAIN map
     THEN 0 ELSE 1)
    + (IF i = 1 /\ result = "failed" THEN 1 ELSE 0)
FreeInv ==
    /\ \A i \in 1 .. Len(loads) : frees[i] = FreesDue(i)
    /\ result # "none" => phase \in {"destroy", "end"}
    /\ phase = "end" => DOMAIN map = {}

Inv == Types /\ MapInv /\ LoadInv /\ FreeInv

\* What a load leaves of the loads before it, and what it adds.
LEMMA LoadLemma ==
    ASSUME Types, NEW f \in Files, NEW h \in 0 .. MaxLoads, Load(f, h),
           Len(loads) < MaxLoads
    PROVE  /\ loads' \in Seq([file : Files, hash : 0 .. MaxLoads])
           /\ Len(loads') = Len(loads) + 1
           /\ frees' \in Seq(Nat) /\ Len(frees') = Len(loads')
           /\ \A i \in 1 .. Len(loads) : loads'[i] = loads[i] /\ frees'[i] = frees[i]
           /\ loads'[Len(loads')].hash = h /\ frees'[Len(loads')] = 0
           /\ \A i \in 1 .. Len(loads) : ShadowedIn(loads', i) <=> ShadowedIn(loads, i)
           /\ todo \in Seq(1 .. Len(loads')) /\ kids \in Seq(1 .. Len(loads'))
<1> DEFINE R == [file : Files, hash : 0 .. MaxLoads]
<1>1. loads \in Seq(R) /\ [file |-> f, hash |-> h] \in R /\ Len(loads) \in Nat
  BY DEF Types
<1> HIDE DEF R
<1>2. loads' = Append(loads, [file |-> f, hash |-> h]) /\ frees' = Append(frees, 0)
  BY DEF Load
<1>3. /\ loads' \in Seq(R)
      /\ Len(loads') = Len(loads) + 1
      /\ \A i \in 1 .. Len(loads) : loads'[i] = loads[i]
      /\ loads'[Len(loads) + 1] = [file |-> f, hash |-> h]
  BY <1>1, <1>2
<1>4. /\ frees' \in Seq(Nat) /\ Len(frees') = Len(loads')
      /\ \A i \in 1 .. Len(loads) : frees'[i] = frees[i]
      /\ frees'[Len(loads')] = 0
  BY <1>1, <1>2, <1>3 DEF Types
<1>5. ASSUME NEW i \in 1 .. Len(loads) PROVE ShadowedIn(loads', i) <=> ShadowedIn(loads, i)
  <2>1. loads'[i] = loads[i] /\ \A j \in 1 .. i - 1 : loads'[j] = loads[j]
    BY <1>1, <1>3
  <2> QED
    BY <2>1 DEF ShadowedIn
<1>6. todo \in Seq(1 .. Len(loads')) /\ kids \in Seq(1 .. Len(loads'))
  <2>1. 1 .. Len(loads) \subseteq 1 .. Len(loads')
    BY <1>1, <1>3
  <2> QED
    BY <2>1, SeqMonotonic DEF Types
<1>7. loads'[Len(loads')].hash = h
  BY <1>3
<1> QED
  BY <1>3, <1>4, <1>5, <1>6, <1>7 DEF R

LEMMA HashesLemma ==
    ASSUME Types, Len(loads) < MaxLoads, NEW h \in Hashes
    PROVE  h \in 1 .. MaxLoads
<1>1. Len(loads) \in Nat /\ DOMAIN loads = 1 .. Len(loads)
  BY DEF Types
<1>2. CASE h = Len(loads) + 1
  BY <1>1, <1>2, BoundsAssumption DEF Types
<1>3. CASE h # Len(loads) + 1
  <2>1. PICK i \in 1 .. Len(loads) : h = loads[i].hash /\ h # 0
    BY <1>1, <1>3 DEF Hashes, NoHash
  <2>2. loads[i] \in [file : Files, hash : 0 .. MaxLoads]
    BY ElementOfSeq DEF Types
  <2> QED
    BY <2>1, <2>2
<1> QED
  BY <1>2, <1>3

\* Compiling a module keeps the map in order: a new key belongs to nobody older.
LEMMA CompileLemma ==
    ASSUME Inv, NEW f \in Files, NEW h \in Hashes, Load(f, h),
           Insert(h, Len(loads) + 1), Len(loads) < MaxLoads,
           phase \in {"main", "link"}, phase' = "link", result' = result
    PROVE  MapInv' /\ LoadInv' /\ FreeInv'
<1> DEFINE n == Len(loads) + 1
<1>0. Len(loads) \in Nat
  BY DEF Inv, Types
<1>1. h \in 1 .. MaxLoads
  BY HashesLemma DEF Inv
<1>2. /\ Len(loads') = n
      /\ \A i \in 1 .. Len(loads) : loads'[i] = loads[i] /\ frees'[i] = frees[i]
      /\ loads'[n].hash = h /\ frees'[n] = 0
      /\ \A i \in 1 .. Len(loads) : ShadowedIn(loads', i) <=> ShadowedIn(loads, i)
  <2>1. Types /\ h \in 0 .. MaxLoads
    BY <1>1, BoundsAssumption DEF Inv
  <2> QED
    BY <2>1, LoadLemma
<1>3. /\ DOMAIN map' = DOMAIN map \union {h}
      /\ \A x \in DOMAIN map : map'[x] = map[x]
      /\ h \notin DOMAIN map => map'[h] = n
  BY DEF Insert
<1>4. /\ \A i \in 1 .. Len(loads) : frees[i] = 0 /\ loads[i].hash \in DOMAIN map
      /\ result = "none"
  BY DEF Inv, LoadInv
<1>5. h \notin DOMAIN map => ~ShadowedIn(loads', n)
  BY <1>0, <1>2, <1>4 DEF ShadowedIn
<1>6. MapInv'
  <2> SUFFICES ASSUME NEW x \in DOMAIN map'
               PROVE  /\ map'[x] \in 1 .. Len(loads')
                      /\ loads'[map'[x]].hash = x /\ x # NoHash
                      /\ ~ShadowedIn(loads', map'[x])
    BY DEF MapInv
  <2>1. CASE x \in DOMAIN map
    <3>1. /\ map[x] \in 1 .. Len(loads) /\ loads[map[x]].hash = x /\ x # NoHash
          /\ ~ShadowedIn(loads, map[x])
      BY <2>1 DEF Inv, MapInv
    <3>2. map'[x] = map[x] /\ loads'[map[x]] = loads[map[x]]
      BY <2>1, <3>1, <1>2, <1>3
    <3>3. ~ShadowedIn(loads', map'[x])
      BY <3>1, <3>2, <1>2
    <3> QED
      BY <3>1, <3>2, <3>3, <1>0, <1>2
  <2>2. CASE x \notin DOMAIN map
    <3>1. x = h /\ map'[x] = n
      BY <2>2, <1>3
    <3> QED
      BY <2>2, <3>1, <1>0, <1>1, <1>2, <1>5 DEF NoHash
  <2> QED
    BY <2>1, <2>2
<1>7. LoadInv'
  BY <1>0, <1>2, <1>3, <1>4 DEF LoadInv
<1>8. \A i \in 1 .. Len(loads') : frees'[i] = 0 /\ loads'[i].hash \in DOMAIN map'
  BY <1>0, <1>2, <1>3, <1>4
<1>9. FreeInv'
  BY <1>4, <1>8 DEF FreeInv, FreesDue
<1> QED
  BY <1>6, <1>7, <1>9

\* A load that does not compile touches neither the map nor older paths.
LEMMA RejectLemma ==
    ASSUME Inv, NEW f \in Files, Load(f, NoHash), Len(loads) < MaxLoads,
           phase \in {"main", "link"}, phase' = "failed", UNCHANGED <<result, map>>
    PROVE  MapInv' /\ LoadInv' /\ FreeInv'
<1>1. /\ Len(loads) \in Nat /\ Len(loads') = Len(loads) + 1
      /\ \A i \in 1 .. Len(loads) : loads'[i] = loads[i] /\ frees'[i] = frees[i]
      /\ \A i \in 1 .. Len(loads) : ShadowedIn(loads', i) <=> ShadowedIn(loads, i)
      /\ loads'[Len(loads')].hash = NoHash /\ frees'[Len(loads')] = 0
  <2>1. Types /\ NoHash \in 0 .. MaxLoads /\ Len(loads) \in Nat
    BY BoundsAssumption DEF Inv, Types, NoHash
  <2> QED
    BY <2>1, LoadLemma
<1>2. MapInv'
  <2> SUFFICES ASSUME NEW x \in DOMAIN map
               PROVE  /\ map[x] \in 1 .. Len(loads')
                      /\ loads'[map[x]].hash = x /\ x # NoHash
                      /\ ~ShadowedIn(loads', map[x])
    BY DEF MapInv
  <2>1. /\ map[x] \in 1 .. Len(loads) /\ loads[map[x]].hash = x /\ x # NoHash
        /\ ~ShadowedIn(loads, map[x])
    BY DEF Inv, MapInv
  <2> QED
    BY <1>1, <2>1
<1>3. LoadInv' /\ result = "none"
  BY DEF Inv, LoadInv
<1>4. ASSUME NEW i \in 1 .. Len(loads') PROVE frees'[i] = FreesDue(i)'
  <2>1. CASE i \in 1 .. Len(loads)
    <3>1. frees[i] = FreesDue(i)
      BY <2>1 DEF Inv, FreeInv
    <3> QED
      BY <1>1, <2>1, <3>1 DEF FreesDue
  <2>2. CASE i = Len(loads')
    BY <1>1, <1>3, <2>2 DEF FreesDue
  <2> QED
    BY <1>1, <2>1, <2>2
<1>5. FreeInv'
  BY <1>3, <1>4 DEF FreeInv
<1> QED
  BY <1>2, <1>3, <1>5

LEMMA InvInit == Init => Inv
<1> SUFFICES ASSUME Init PROVE Inv
  OBVIOUS
<1>1. loads = <<>> /\ frees = <<>> /\ todo = <<>> /\ kids = <<>> /\ DOMAIN map = {}
  BY DEF Init
<1>2. Types
  BY <1>1, BoundsAssumption DEF Init, Types, Phases
<1> QED
  BY <1>1, <1>2 DEF Init, Inv, MapInv, LoadInv, FreeInv

\* A module to link, and its file, exist.
LEMMA ReferrerLemma ==
    ASSUME Types, todo # <<>>
    PROVE  Head(todo) \in 1 .. Len(loads) /\ loads[Head(todo)].file \in Files
<1>1. Head(todo) \in 1 .. Len(loads)
  BY DEF Types
<1>2. loads[Head(todo)] \in [file : Files, hash : 0 .. MaxLoads]
  BY <1>1, ElementOfSeq DEF Types
<1> QED
  BY <1>1, <1>2

LEMMA ResolvedLemma ==
    ASSUME Types, Importing PROVE Resolved \subseteq Files
<1> DEFINE s == imports[loads[Head(todo)].file]
<1>1. loads[Head(todo)].file \in Files
  BY ReferrerLemma DEF Importing
<1>2. PICK n \in 0 .. MaxImports : s \in [1 .. n -> Files]
  <2>1. s \in ImportLists
    BY <1>1 DEF Types
  <2> HIDE DEF s
  <2> QED
    BY <2>1 DEF ImportLists
<1>3. s \in Seq(Files)
  BY <1>2, BoundsAssumption, SeqDef
<1> HIDE DEF s
<1>4. Len(kids) + 1 \in 1 .. Len(s)
  BY <1>3, SMTT(20) DEF Importing, Types, s
<1>5. s[Len(kids) + 1] \in Files
  BY <1>3, <1>4, ElementOfSeq
<1> QED
  BY <1>5 DEF Resolved, s

LEMMA TypesStep == Inv /\ [Next]_vars => Types'
<1> SUFFICES ASSUME Inv, [Next]_vars PROVE Types'
  OBVIOUS
<1> USE BoundsAssumption, EntryAssumption
<1>0. Types /\ Len(loads) \in Nat /\ NoHash \in 0 .. MaxLoads
  BY DEF Inv, Types, NoHash
<1>1. CASE NoArgument \/ MissingFile \/ StackOverflow \/ Linked
  <2>1. StackOverflow => loads # <<>>
    BY <1>0 DEF StackOverflow
  <2> QED
    BY <1>0, <1>1, <2>1 DEF NoArgument, MissingFile, StackOverflow, Linked, Types, Phases
<1>2. CASE EvaluateDone \/ EvaluatePending \/ DestroyDone
  BY <1>0, <1>2 DEF EvaluateDone, EvaluatePending, DestroyDone, Types, Phases
<1>14. CASE EvaluateFails
  <2>1. loads # <<>>
    BY <1>14 DEF EvaluateFails, Inv, LoadInv, Types
  <2> QED
    BY <1>0, <1>14, <2>1 DEF EvaluateFails, Types, Phases
<1>3. CASE UNCHANGED vars
  BY <1>0, <1>3 DEF vars, Types
\* The steps that load a file.
<1>4. ASSUME NEW f \in Files, NEW h \in 0 .. MaxLoads, Load(f, h), Len(loads) < MaxLoads
      PROVE  /\ loads' \in Seq([file : Files, hash : 0 .. MaxLoads])
             /\ Len(loads') = Len(loads) + 1 /\ Len(loads') <= MaxLoads /\ loads' # <<>>
             /\ frees' \in Seq(Nat) /\ Len(frees') = Len(loads')
             /\ todo \in Seq(1 .. Len(loads')) /\ kids \in Seq(1 .. Len(loads'))
  <2>1. /\ loads' \in Seq([file : Files, hash : 0 .. MaxLoads])
        /\ Len(loads') = Len(loads) + 1
        /\ frees' \in Seq(Nat) /\ Len(frees') = Len(loads')
        /\ todo \in Seq(1 .. Len(loads')) /\ kids \in Seq(1 .. Len(loads'))
    BY <1>0, <1>4, LoadLemma
  <2>2. Len(loads') <= MaxLoads /\ loads' # <<>>
    BY <1>0, <1>4, <2>1
  <2> QED
    BY <2>1, <2>2
<1>5. phase = "main" => Len(loads) = 0 /\ Len(loads) < MaxLoads
  BY <1>0 DEF Inv, LoadInv
<1>6. CASE CompileEntry
  <2>1. PICK h \in Hashes : Load(Entry, h)
    BY <1>6 DEF CompileEntry
  <2>2. h \in 0 .. MaxLoads
    BY <1>0, <1>5, <1>6, HashesLemma DEF CompileEntry
  <2>3. 1 \in 1 .. Len(loads')
    BY <1>0, <1>4, <1>5, <1>6, <2>1, <2>2 DEF CompileEntry
  <2>4. todo' \in Seq(1 .. Len(loads'))
    BY <1>6, <2>3 DEF CompileEntry
  <2>5. /\ loads' \in Seq([file : Files, hash : 0 .. MaxLoads])
        /\ Len(loads') <= MaxLoads
        /\ frees' \in Seq(Nat) /\ Len(frees') = Len(loads')
        /\ kids' \in Seq(1 .. Len(loads'))
    BY <1>4, <1>5, <1>6, <2>1, <2>2 DEF CompileEntry
  <2> QED
    BY <1>0, <1>6, <2>4, <2>5 DEF CompileEntry, Types, Phases
<1>7. CASE RejectEntry
  <2>1. /\ loads' \in Seq([file : Files, hash : 0 .. MaxLoads])
        /\ Len(loads') <= MaxLoads /\ loads' # <<>>
        /\ frees' \in Seq(Nat) /\ Len(frees') = Len(loads')
        /\ todo' \in Seq(1 .. Len(loads')) /\ kids' \in Seq(1 .. Len(loads'))
    BY <1>0, <1>4, <1>5, <1>7 DEF RejectEntry
  <2> QED
    BY <1>0, <1>7, <2>1 DEF RejectEntry, Types, Phases
<1>8. CASE CompileImport
  <2>1. PICK f \in Files, h \in Hashes : Load(f, h)
    BY <1>0, <1>8, ResolvedLemma DEF CompileImport
  <2>2. h \in 0 .. MaxLoads
    BY <1>0, <1>8, HashesLemma DEF CompileImport
  <2>3. /\ loads' \in Seq([file : Files, hash : 0 .. MaxLoads])
        /\ Len(loads') = Len(loads) + 1 /\ Len(loads') <= MaxLoads
        /\ frees' \in Seq(Nat) /\ Len(frees') = Len(loads')
        /\ todo' \in Seq(1 .. Len(loads')) /\ kids \in Seq(1 .. Len(loads'))
    BY <1>4, <1>8, <2>1, <2>2 DEF CompileImport
  <2>4. Len(loads) + 1 \in 1 .. Len(loads')
    BY <1>0, <2>3
  <2>5. kids' \in Seq(1 .. Len(loads'))
    BY <1>8, <2>3, <2>4, AppendProperties DEF CompileImport
  <2> QED
    BY <1>0, <1>8, <2>3, <2>5 DEF CompileImport, Importing, Types, Phases
<1>9. CASE RejectImport
  <2>1. PICK f \in Files : Load(f, NoHash)
    BY <1>0, <1>9, ResolvedLemma DEF RejectImport
  <2>2. /\ loads' \in Seq([file : Files, hash : 0 .. MaxLoads])
        /\ Len(loads') <= MaxLoads /\ loads' # <<>>
        /\ frees' \in Seq(Nat) /\ Len(frees') = Len(loads')
        /\ todo' \in Seq(1 .. Len(loads')) /\ kids' \in Seq(1 .. Len(loads'))
    BY <1>0, <1>4, <1>9, <2>1 DEF RejectImport
  <2> QED
    BY <1>0, <1>9, <2>2 DEF RejectImport, Types, Phases
<1>10. CASE Descend
  <2>1. Tail(todo) \in Seq(1 .. Len(loads))
    BY <1>0, <1>10 DEF Descend, Types
  <2>2. todo' \in Seq(1 .. Len(loads))
    BY <1>0, <1>10, <2>1, ConcatProperties DEF Descend, Types
  <2>3. kids' \in Seq(1 .. Len(loads))
    BY <1>10 DEF Descend
  <2> QED
    BY <1>0, <1>10, <2>2, <2>3 DEF Descend, Types, Phases
\* The steps that free a path.
<1>11. ASSUME NEW i \in 1 .. Len(loads), Free(i)
       PROVE  frees' \in Seq(Nat) /\ Len(frees') = Len(frees)
  BY <1>0, <1>11 DEF Free, Types
<1>12. CASE FreePath
  <2>1. 1 \in 1 .. Len(loads)
    BY <1>0, <1>12 DEF FreePath, Types
  <2> QED
    BY <1>0, <1>11, <1>12, <2>1 DEF FreePath, Types, Phases
<1>13. ASSUME NEW h \in DOMAIN map, DestroyEntry(h) PROVE Types'
  <2>1. map[h] \in 1 .. Len(loads)
    BY DEF Inv, MapInv
  <2> QED
    BY <1>0, <1>11, <1>13, <2>1 DEF DestroyEntry, Types
<1> QED
  BY <1>1, <1>2, <1>3, <1>6, <1>7, <1>8, <1>9, <1>10, <1>12, <1>13, <1>14 DEF Next

\* Erasing an entry: its path is freed, and it is the one path with that hash
\* that is not shadowed.
LEMMA DestroyLemma ==
    ASSUME Inv, NEW h \in DOMAIN map, DestroyEntry(h)
    PROVE  MapInv' /\ LoadInv' /\ FreeInv'
<1>1. /\ phase = "destroy" /\ UNCHANGED <<phase, result, loads>>
      /\ DOMAIN map' = DOMAIN map \ {h}
      /\ \A x \in DOMAIN map \ {h} : map'[x] = map[x]
      /\ Free(map[h])
  BY DEF DestroyEntry
<1>2. MapInv'
  BY <1>1 DEF Inv, MapInv
<1>3. LoadInv'
  BY <1>1 DEF LoadInv
<1>4. ASSUME NEW i \in 1 .. Len(loads) PROVE frees'[i] = FreesDue(i)'
  <2>1. /\ map[h] \in 1 .. Len(loads) /\ loads[map[h]].hash = h /\ h # NoHash
        /\ ~ShadowedIn(loads, map[h])
    BY DEF Inv, MapInv
  <2>2. frees[i] = FreesDue(i)
    BY DEF Inv, FreeInv
  <2>3. DOMAIN frees = 1 .. Len(loads) /\ Len(loads) \in Nat
    BY DEF Inv, Types
  <2>4. CASE i = map[h]
    <3>1. frees'[i] = frees[i] + 1
      BY <1>1, <2>3, <2>4 DEF Free
    <3>2. FreesDue(i)' = FreesDue(i) + 1
      BY <1>1, <2>1, <2>4 DEF FreesDue
    <3> QED
      BY <2>2, <3>1, <3>2
  <2>5. CASE i # map[h]
    <3>1. frees'[i] = frees[i]
      BY <1>1, <2>3, <2>5 DEF Free
    <3>2. loads[i].hash = h => ShadowedIn(loads, i)
      BY <2>1, <2>3, <2>5 DEF ShadowedIn
    <3>3. FreesDue(i)' = FreesDue(i)
      BY <1>1, <3>2 DEF FreesDue
    <3> QED
      BY <2>2, <3>1, <3>3
  <2> QED
    BY <2>4, <2>5
<1>5. FreeInv'
  BY <1>1, <1>4 DEF Inv, FreeInv
<1> QED
  BY <1>2, <1>3, <1>5

LEMMA InvStep == Inv /\ [Next]_vars => Inv'
<1> SUFFICES ASSUME Inv, [Next]_vars PROVE MapInv' /\ LoadInv' /\ FreeInv'
  BY TypesStep DEF Inv
<1>1. CASE NoArgument \/ MissingFile \/ StackOverflow \/ Linked \/ EvaluateFails \/ EvaluatePending
  BY <1>1 DEF NoArgument, MissingFile, Importing, StackOverflow, Linked, EvaluateFails,
       EvaluatePending, Inv, MapInv, LoadInv, FreeInv, FreesDue
<1>2. CASE EvaluateDone
  BY <1>2 DEF EvaluateDone, Inv, MapInv, LoadInv, FreeInv, FreesDue
<1>3. CASE DestroyDone
  BY <1>3 DEF DestroyDone, Inv, MapInv, LoadInv, FreeInv, FreesDue
<1>4. CASE UNCHANGED vars \/ Descend
  BY <1>4 DEF vars, Descend, Inv, MapInv, LoadInv, FreeInv, FreesDue
<1>5. phase = "main" => Len(loads) = 0 /\ Len(loads) < MaxLoads
  BY BoundsAssumption DEF Inv, LoadInv
<1>6. phase \in {"main", "link"} => result = "none"
  BY DEF Inv, LoadInv
<1>7. CASE CompileEntry
  <2>1. PICK h \in Hashes : Load(Entry, h) /\ Insert(h, Len(loads) + 1)
    BY <1>5, <1>7 DEF CompileEntry
  <2>2. Len(loads) < MaxLoads /\ phase = "main" /\ phase' = "link" /\ result' = result
    BY <1>5, <1>7 DEF CompileEntry
  <2> QED
    BY <2>1, <2>2, EntryAssumption, CompileLemma
<1>8. CASE CompileImport
  <2>1. PICK f \in Files, h \in Hashes : Load(f, h) /\ Insert(h, Len(loads) + 1)
    BY <1>8, ResolvedLemma DEF CompileImport, Inv
  <2>2. Len(loads) < MaxLoads /\ phase = "link" /\ phase' = "link" /\ result' = result
    BY <1>8 DEF CompileImport, Importing
  <2> QED
    BY <2>1, <2>2, CompileLemma
<1>9. CASE RejectEntry
  <2>1. /\ Load(Entry, NoHash) /\ Len(loads) < MaxLoads /\ phase = "main"
        /\ phase' = "failed" /\ UNCHANGED <<result, map>>
    BY <1>5, <1>9 DEF RejectEntry
  <2> QED
    BY <2>1, EntryAssumption, RejectLemma
<1>10. CASE RejectImport
  <2>1. PICK f \in Files : Load(f, NoHash)
    BY <1>10, ResolvedLemma DEF RejectImport, Inv
  <2>2. /\ Len(loads) < MaxLoads /\ phase = "link"
        /\ phase' = "failed" /\ UNCHANGED <<result, map>>
    BY <1>10 DEF RejectImport, Importing
  <2> QED
    BY <2>1, <2>2, RejectLemma
<1>11. CASE FreePath
  <2>1. /\ UNCHANGED <<loads, map>> /\ phase = "failed" /\ phase' = "destroy"
        /\ result' = "failed" /\ Free(1)
    BY <1>11 DEF FreePath
  <2>2. result = "none" /\ DOMAIN frees = 1 .. Len(loads)
    BY <2>1 DEF Inv, FreeInv, Types
  <2>3. ASSUME NEW i \in 1 .. Len(loads) PROVE frees'[i] = FreesDue(i)'
    <3>1. frees[i] = FreesDue(i)
      BY DEF Inv, FreeInv
    <3>2. frees'[i] = frees[i] + (IF i = 1 THEN 1 ELSE 0)
      BY <2>1, <2>2, <3>1 DEF Free, FreesDue
    <3> QED
      BY <2>1, <2>2, <3>1, <3>2 DEF FreesDue
  <2>4. FreeInv'
    BY <2>1, <2>3 DEF FreeInv
  <2> QED
    BY <2>1, <2>4 DEF Inv, MapInv, LoadInv
<1>12. CASE \E h \in DOMAIN map : DestroyEntry(h)
  BY <1>12, DestroyLemma
<1> QED
  BY <1>1, <1>2, <1>3, <1>4, <1>7, <1>8, <1>9, <1>10, <1>11, <1>12 DEF Next

LEMMA InvAlways == Spec => []Inv
BY InvInit, InvStep, PTL DEF Spec

\* The types of the loader's variables: a load, path or hash that is used exists.
THEOREM TypeCorrect == Spec => []TypeOK
<1>1. Inv => TypeOK
  <2> SUFFICES ASSUME Inv PROVE TypeOK
    OBVIOUS
  <2>1. frees \in [1 .. Len(loads) -> Nat]
    BY DEF Inv, Types
  <2>2. ASSUME NEW h \in DOMAIN map
        PROVE  map[h] \in 1 .. Len(loads) /\ h \in 1 .. MaxLoads
    <3>1. map[h] \in 1 .. Len(loads) /\ loads[map[h]].hash = h /\ h # 0
      BY DEF Inv, MapInv, NoHash
    <3>2. loads[map[h]] \in [file : Files, hash : 0 .. MaxLoads]
      BY <3>1, ElementOfSeq DEF Inv, Types
    <3> QED
      BY <3>1, <3>2, BoundsAssumption
  <2> QED
    BY <2>1, <2>2 DEF Inv, Types, TypeOK
<1> QED
  BY <1>1, InvAlways, PTL

\* The search for the path of a referrer in module_path_map never misses, and
\* the path is not freed: resolve_module_callback and import_meta_callback may
\* use it->second untested.
THEOREM ReferrersFound == Spec => []ReferrerFound
<1>1. Inv => ReferrerFound
  <2> SUFFICES ASSUME Inv, phase \in {"link", "evaluate", "spin"}, NEW i \in DOMAIN loads
               PROVE  loads[i].hash \in DOMAIN map /\ frees[map[loads[i].hash]] = 0
    BY DEF ReferrerFound
  <2>1. i \in 1 .. Len(loads)
    BY DEF Inv, Types
  <2>2. loads[i].hash \in DOMAIN map
    BY <2>1 DEF Inv, LoadInv
  <2>3. map[loads[i].hash] \in 1 .. Len(loads)
    BY <2>2 DEF Inv, MapInv
  <2> QED
    BY <2>2, <2>3 DEF Inv, LoadInv
<1> QED
  BY <1>1, InvAlways, PTL

\* At the end of the program a path in the map has been freed once, the entry module's
\* once more by esm_init if the load failed, and no other at all.
THEOREM FreedAtEnd == Spec => []PathsFreed
<1>1. Inv => PathsFreed
  <2> SUFFICES ASSUME Inv, phase = "end", NEW i \in DOMAIN loads
               PROVE  frees[i] = (IF loads[i].hash = NoHash \/ Shadowed(i) THEN 0 ELSE 1)
                                 + (IF i = 1 /\ result = "failed" THEN 1 ELSE 0)
    BY DEF PathsFreed
  <2>1. i \in 1 .. Len(loads)
    BY DEF Inv, Types
  <2>2. frees[i] = FreesDue(i) /\ DOMAIN map = {}
    BY <2>1 DEF Inv, FreeInv
  <2> QED
    BY <2>2 DEF FreesDue, ShadowedIn, Shadowed
<1> QED
  BY <1>1, InvAlways, PTL
-----------------------------------------------------------------------------
(* Chains of imports.                                                      *)

\* A file imports another; a chain of imports that begins with the entry module.
Leads(f, g) == \E j \in DOMAIN imports[f] : imports[f][j] = g
IsChain(p) ==
    /\ p \in Seq(Files) /\ p # <<>>
    /\ p[1] = Entry
    /\ \A k \in 1 .. Len(p) - 1 : Leads(p[k], p[k + 1])

\* No two modules have the same hash.
Alone == \A i \in 1 .. Len(loads) : ~ShadowedIn(loads, i)

\* Modules of which V8 has not resolved all imports, and their lists: no module is on
\* both or twice on one.
Waiting == Elems(todo) \union Elems(kids)
ListInv ==
    phase \in {"main", "link", "evaluate"} =>
        /\ Distinct(todo) /\ Distinct(kids) /\ Elems(todo) \cap Elems(kids) = {}
        /\ todo = <<>> => kids = <<>>
        /\ phase \in {"main", "evaluate"} => todo = <<>>

\* Each load is for a chain of its own that leads to its file ...
Separate(c) ==
    /\ \A i \in 1 .. Len(loads) :
          IsChain(c[i]) /\ c[i][Len(c[i])] = loads[i].file
    /\ \A i, j \in 1 .. Len(loads) : c[i] = c[j] => i = j

\* ... and so is the load of the module that made the import.
Rooted(c) ==
    /\ loads # <<>> /\ c[1] = <<Entry>>
    /\ \A j \in 2 .. Len(loads) :
          \E i \in 1 .. Len(loads), g \in Files : c[j] = Append(c[i], g)

\* A module that waits has made no import, but for those of the first of them, and these
\* are in the order of its import list.
Pending(c) ==
    /\ \A i \in Waiting, j \in 1 .. Len(loads), g \in Files :
          c[j] = Append(c[i], g) => todo # <<>> /\ i = Head(todo) /\ j \in Elems(kids)
    /\ \A k \in 1 .. Len(kids) :
          c[kids[k]] = Append(c[Head(todo)], imports[loads[Head(todo)].file][k])

\* Any other has made all its imports.
Complete(c) ==
    \A i \in (1 .. Len(loads)) \ Waiting, g \in Files :
        Leads(loads[i].file, g) => \E j \in 1 .. Len(loads) : c[j] = Append(c[i], g)

Chained(c) == Separate(c) /\ Rooted(c) /\ Pending(c) /\ Complete(c)

ChainInv ==
    phase \in {"link", "evaluate"} /\ Alone =>
        \E c \in [1 .. Len(loads) -> Seq(Files)] : Chained(c)

\* The imports of a file, in order and each once.
LEMMA ImportsLemma ==
    ASSUME Types, NEW f \in Files
    PROVE  /\ imports[f] \in Seq(Files)
           /\ \A i, j \in 1 .. Len(imports[f]) : imports[f][i] = imports[f][j] => i = j
<1> DEFINE s == imports[f]
<1>1. s \in ImportLists
  BY DEF Types
<1> HIDE DEF s
<1>2. PICK n \in 0 .. MaxImports : s \in [1 .. n -> Files]
  BY <1>1 DEF ImportLists
<1>3. s \in Seq(Files) /\ DOMAIN s = 1 .. Len(s)
  BY <1>2, BoundsAssumption, SeqDef
<1>4. \A i, j \in DOMAIN s : s[i] = s[j] => i = j
  BY <1>1 DEF ImportLists
<1> QED
  BY <1>3, <1>4 DEF s

\* A chain and one more import.
LEMMA LongerChain ==
    ASSUME NEW p, IsChain(p), NEW g \in Files, Leads(p[Len(p)], g)
    PROVE  IsChain(Append(p, g)) /\ Append(p, g)[Len(Append(p, g))] = g
<1> DEFINE q == Append(p, g)
           n == Len(p)
<1>1. p \in Seq(Files) /\ p # <<>> /\ p[1] = Entry
  BY DEF IsChain
<1>2. /\ q \in Seq(Files) /\ Len(q) = n + 1 /\ q[n + 1] = g /\ n \in Nat /\ n > 0
      /\ \A i \in 1 .. n : q[i] = p[i]
  BY <1>1
<1>3. \A k \in 1 .. n - 1 : Leads(p[k], p[k + 1])
  BY DEF IsChain
<1> HIDE DEF q, n
<1>4. ASSUME NEW k \in 1 .. n PROVE Leads(q[k], q[k + 1])
  <2>1. CASE k = n
    BY <1>2, <2>1 DEF n
  <2>2. CASE k # n
    <3>1. k \in 1 .. n - 1 /\ k + 1 \in 1 .. n
      BY <1>2, <2>2
    <3> QED
      BY <1>2, <1>3, <3>1
  <2> QED
    BY <2>1, <2>2
<1>5. q # <<>> /\ q[1] = Entry
  BY <1>1, <1>2
<1>6. IsChain(q)
  <2>1. \A k \in 1 .. Len(q) - 1 : k \in 1 .. n
    BY <1>2
  <2> QED
    BY <1>2, <1>4, <1>5, <2>1 DEF IsChain
<1> QED
  BY <1>2, <1>6 DEF q

\* The lists that V8 works through are empty before the load, and stay apart.
LEMMA ListStep == Inv /\ ListInv /\ [Next]_vars => ListInv'
<1> SUFFICES ASSUME Inv, ListInv, [Next]_vars, phase' \in {"main", "link", "evaluate"}
             PROVE  /\ Distinct(todo') /\ Distinct(kids') /\ Elems(todo') \cap Elems(kids') = {}
                    /\ todo' = <<>> => kids' = <<>>
                    /\ phase' \in {"main", "evaluate"} => todo' = <<>>
  BY DEF ListInv
<1> DEFINE D == 1 .. Len(loads)
<1>1. todo \in Seq(D) /\ kids \in Seq(D) /\ Len(loads) \in Nat
  BY DEF Inv, Types
<1>2. CASE CompileEntry
  <2>1. kids' = <<>> /\ todo' = <<1>> /\ phase' = "link"
    BY <1>2 DEF CompileEntry, ListInv
  <2> QED
    BY <2>1 DEF Distinct, Elems
<1>3. CASE CompileImport
  <2> DEFINE n == Len(loads) + 1
             E == 1 .. n
  <2>1. phase = "link" /\ phase' = "link" /\ todo' = todo /\ todo # <<>> /\ kids' = Append(kids, n)
    BY <1>3 DEF CompileImport, Importing
  <2>2. D \subseteq E /\ n \in E /\ n \notin D
    BY <1>1
  <2> HIDE DEF D, E, n
  <2>3. kids \in Seq(E)
    BY <1>1, <2>2, SeqMonotonic
  <2>4. n \notin Elems(kids) /\ n \notin Elems(todo)
    BY <1>1, <2>2, ElementOfSeq DEF Elems
  <2>5. Distinct(kids') /\ Elems(kids') = Elems(kids) \union {n}
    BY <2>1, <2>2, <2>3, <2>4, AppendLemma DEF ListInv
  <2> QED
    BY <2>1, <2>4, <2>5 DEF ListInv
<1>4. CASE Descend
  <2>1. todo # <<>> /\ todo' = kids \o Tail(todo) /\ kids' = <<>> /\ phase = "link" /\ phase' = "link"
    BY <1>4 DEF Descend
  <2>2. Distinct(todo) /\ Distinct(kids) /\ Elems(todo) \cap Elems(kids) = {}
    BY <2>1 DEF ListInv
  <2> HIDE DEF D
  <2>3. Distinct(Tail(todo)) /\ Elems(Tail(todo)) = Elems(todo) \ {Head(todo)}
    BY <1>1, <2>1, <2>2, TailLemma
  <2>4. Tail(todo) \in Seq(D)
    BY <1>1, <2>1, HeadTailProperties
  <2>5. Distinct(todo')
    BY <1>1, <2>1, <2>2, <2>3, <2>4, ConcatLemma
  <2> QED
    BY <2>1, <2>5, SMTT(20) DEF Distinct, Elems
<1>5. CASE Linked
  BY <1>5 DEF Linked, ListInv
<1>6. CASE UNCHANGED vars
  BY <1>6 DEF vars, ListInv
<1>7. phase \notin {"main", "link", "evaluate"} \/ phase' \notin {"main", "link", "evaluate"} \/
      CompileEntry \/ CompileImport \/ Descend \/ Linked \/ UNCHANGED vars
  BY DEF Next, NoArgument, RejectEntry, MissingFile, RejectImport, StackOverflow,
    EvaluateDone, EvaluateFails, EvaluatePending, FreePath, DestroyEntry, DestroyDone
<1>8. CASE phase \notin {"main", "link", "evaluate"}
  <2>1. phase' \notin {"main", "link", "evaluate"}
    BY <1>8 DEF Next, NoArgument, CompileEntry, RejectEntry, MissingFile, Importing,
      CompileImport, RejectImport, Descend, StackOverflow, Linked, EvaluateDone, EvaluateFails,
      EvaluatePending, FreePath, DestroyEntry, DestroyDone, vars
  <2> QED
    BY <2>1
<1> QED
  BY <1>2, <1>3, <1>4, <1>5, <1>6, <1>7, <1>8

\* The path that the entry module is loaded for.
LEMMA FirstChain ==
    ASSUME Inv, ListInv, CompileEntry
    PROVE  \E c \in [1 .. Len(loads') -> Seq(Files)] : Chained(c)'
<1>1. loads = <<>> /\ todo' = <<1>> /\ kids' = <<>>
  BY DEF CompileEntry, Inv, LoadInv, ListInv
<1>2. PICK h \in Hashes : loads' = Append(loads, [file |-> Entry, hash |-> h])
  BY DEF CompileEntry, Load
<1>3. /\ Len(loads') = 1 /\ loads'[1].file = Entry /\ loads' # <<>>
      /\ \A i \in 1 .. Len(loads') : i = 1
  <2>1. loads' = <<[file |-> Entry, hash |-> h]>>
    BY <1>1, <1>2
  <2> QED
    BY <2>1
<1> DEFINE e == <<Entry>>
<1>4. e \in Seq(Files) /\ Len(e) = 1 /\ e[1] = Entry /\ e # <<>> /\ e[Len(e)] = Entry
  BY EntryAssumption
<1>5. IsChain(e)'
  BY <1>4 DEF IsChain
<1>6. PICK c \in [1 .. Len(loads') -> Seq(Files)] : c[1] = e
  <2> DEFINE f == [i \in 1 .. Len(loads') |-> e]
  <2>1. f \in [1 .. Len(loads') -> Seq(Files)] /\ f[1] = e
    BY <1>3, <1>4
  <2> HIDE DEF f
  <2> QED
    BY <2>1
<1> HIDE DEF e
<1>7. Separate(c)'
  BY <1>3, <1>4, <1>5, <1>6 DEF Separate
<1>8. Rooted(c)'
  <2>1. \A i \in 2 .. Len(loads') : FALSE
    BY <1>3
  <2> QED
    BY <1>3, <1>6, <2>1 DEF Rooted, e
<1>9. /\ \A i \in Waiting' : i = 1
      /\ 1 \in Waiting'
  BY <1>1 DEF Waiting, Elems
<1>10. Pending(c)'
  <2>1. ASSUME NEW g \in Files PROVE e # Append(e, g)
    BY <1>4, AppendProperties
  <2>2. \A k \in 1 .. Len(kids') : FALSE
    BY <1>1
  <2> QED
    BY <1>3, <1>6, <1>9, <2>1, <2>2 DEF Pending
<1>11. Complete(c)'
  BY <1>3, <1>9 DEF Complete
<1> QED
  BY <1>6, <1>7, <1>8, <1>10, <1>11 DEF Chained

\* A chain that grew by one import tells which it was.
LEMMA OneWay ==
    ASSUME NEW p \in Seq(Files)
    PROVE  \A x, y \in Files, q \in Seq(Files) : Append(p, x) = Append(q, y) => q = p
  BY AppendInjective

\* Where no two modules share a hash, the next import is the one that is written.
LEMMA ResolvedAlone ==
    ASSUME Inv, ListInv, Alone, Importing
    PROVE  LET f == loads[Head(todo)].file
           IN  /\ Head(todo) \in 1 .. Len(loads) /\ f \in Files
               /\ Len(kids) + 1 \in 1 .. Len(imports[f])
               /\ imports[f][Len(kids) + 1] \in Files
               /\ Resolved = {imports[f][Len(kids) + 1]}
<1> DEFINE r == Head(todo)
           f == loads[r].file
           m == map[loads[r].hash]
<1>1. r \in 1 .. Len(loads) /\ f \in Files /\ phase = "link"
  BY ReferrerLemma DEF Importing, Inv
<1>2. m \in 1 .. Len(loads) /\ loads[m].hash = loads[r].hash
  <2>1. loads[r].hash \in DOMAIN map
    BY <1>1 DEF Inv, LoadInv
  <2> QED
    BY <2>1 DEF Inv, MapInv
<1>3. Len(loads) \in Nat /\ Len(kids) \in Nat
  BY DEF Inv, Types
<1>4. imports[f] \in Seq(Files)
  BY <1>1, ImportsLemma DEF Inv
<1>5. Len(kids) < Len(imports[f])
  BY DEF Importing
<1>6. Resolved = IF loads[m].file = f THEN {imports[f][Len(kids) + 1]} ELSE Files
  BY DEF Resolved
<1> HIDE DEF r, f, m
<1>7. m = r
  <2>1. ASSUME m < r PROVE FALSE
    <3>1. m \in 1 .. r - 1
      BY <1>1, <1>2, <1>3, <2>1
    <3> QED
      BY <1>1, <1>2, <3>1 DEF Alone, ShadowedIn
  <2>2. ASSUME r < m PROVE FALSE
    <3>1. r \in 1 .. m - 1
      BY <1>1, <1>2, <1>3, <2>2
    <3> QED
      BY <1>1, <1>2, <3>1 DEF Alone, ShadowedIn
  <2> QED
    BY <1>1, <1>2, <1>3, <2>1, <2>2
<1>8. Resolved = {imports[f][Len(kids) + 1]}
  BY <1>6, <1>7 DEF f
<1>9. Len(imports[f]) \in Nat /\ Len(kids) + 1 \in 1 .. Len(imports[f])
  BY <1>3, <1>4, <1>5
<1>10. imports[f][Len(kids) + 1] \in Files
  BY <1>4, <1>9, ElementOfSeq
<1> QED
  BY <1>1, <1>8, <1>9, <1>10 DEF f, r

\* An import extends the chain of its referrer, and nothing was loaded for that yet.
LEMMA NextChain ==
    ASSUME Inv, ListInv, Alone, CompileImport,
           NEW c \in [1 .. Len(loads) -> Seq(Files)], Chained(c)
    PROVE  \E d \in [1 .. Len(loads') -> Seq(Files)] : Chained(d)'
<1> DEFINE N == Len(loads)
           r == Head(todo)
           f == loads[r].file
           K == Len(kids)
           s == imports[f]
           g == s[K + 1]
           p == Append(c[r], g)
<1>1. /\ Importing /\ todo' = todo /\ imports' = imports /\ phase = "link" /\ todo # <<>>
      /\ kids' = Append(kids, N + 1)
  BY DEF CompileImport, Importing
<1>2. /\ r \in 1 .. N /\ f \in Files
      /\ K + 1 \in 1 .. Len(s) /\ g \in Files /\ Resolved = {g}
  BY <1>1, ResolvedAlone
<1>3. PICK h : loads' = Append(loads, [file |-> g, hash |-> h])
  BY <1>2 DEF CompileImport, Load
<1>4. /\ N \in Nat /\ K \in Nat /\ kids \in Seq(1 .. N) /\ todo \in Seq(1 .. N)
      /\ kids \in Seq(Nat) /\ DOMAIN kids = 1 .. K
  BY DEF Inv, Types
<1>5. /\ Len(loads') = N + 1 /\ loads'[N + 1].file = g
      /\ \A i \in 1 .. N : loads'[i] = loads[i]
  BY <1>3 DEF Inv, Types
<1>6. /\ Len(kids') = K + 1 /\ kids'[K + 1] = N + 1
      /\ \A k \in 1 .. K : kids'[k] = kids[k] /\ kids[k] \in 1 .. N
  <2>1. N + 1 \in Nat
    BY <1>4
  <2> QED
    BY <1>1, <1>4, <2>1, AppendProperties
<1>7. \A i, j \in 1 .. Len(s) : s[i] = s[j] => i = j
  BY <1>2, ImportsLemma DEF Inv
<1>8. Leads(f, g)
  <2>1. DOMAIN s = 1 .. Len(s)
    BY <1>2, ImportsLemma DEF Inv
  <2> QED
    BY <1>2, <2>1 DEF Leads
<1>9. /\ \A i \in 1 .. N : c[i] \in Seq(Files)
      /\ \A i \in 1 .. N : IsChain(c[i]) /\ c[i][Len(c[i])] = loads[i].file
      /\ \A i, j \in 1 .. N : c[i] = c[j] => i = j
  BY DEF Chained, Separate
<1>10. /\ N # 0 /\ c[1] = <<Entry>>
       /\ \A j \in 2 .. N : \E i \in 1 .. N, x \in Files : c[j] = Append(c[i], x)
  BY DEF Chained, Rooted
<1>11. /\ \A i \in Waiting, j \in 1 .. N, x \in Files :
            c[j] = Append(c[i], x) => i = r /\ j \in Elems(kids)
       /\ \A k \in 1 .. K : c[kids[k]] = Append(c[r], s[k])
  BY DEF Chained, Pending
<1>12. \A i \in (1 .. N) \ Waiting, x \in Files :
          Leads(loads[i].file, x) => \E j \in 1 .. N : c[j] = Append(c[i], x)
  BY DEF Chained, Complete
<1>13. r \in Waiting
  <2>1. r \in Elems(todo)
    BY <1>1, <1>4, TailLemma DEF ListInv
  <2> QED
    BY <2>1 DEF Waiting
<1>14. Waiting \subseteq 1 .. N
  BY <1>4, ElementOfSeq DEF Waiting, Elems
<1>15. Waiting' = Waiting \union {N + 1} /\ Elems(kids') = Elems(kids) \union {N + 1}
  <2>1. /\ DOMAIN kids' = 1 .. K + 1 /\ DOMAIN kids = 1 .. K
        /\ 1 .. K + 1 = 1 .. K \union {K + 1}
    BY <1>1, <1>4
  <2>2. Elems(kids') = Elems(kids) \union {N + 1}
    BY <1>6, <2>1 DEF Elems
  <2> QED
    BY <1>1, <2>2 DEF Waiting
<1>16. /\ IsChain(p) /\ p[Len(p)] = g /\ p \in Seq(Files)
  BY <1>2, <1>8, <1>9, LongerChain, ZenonT(30) DEF IsChain
<1> HIDE DEF N, r, f, K, s, g
\* Nothing was loaded for the longer chain ...
<1>17. \A j \in 1 .. N : c[j] # p
  <2> SUFFICES ASSUME NEW j \in 1 .. N, c[j] = p PROVE FALSE
    OBVIOUS
  <2>1. j \in Elems(kids)
    BY <1>2, <1>11, <1>13
  <2>2. PICK k \in 1 .. K : kids[k] = j
    BY <2>1, <1>4 DEF Elems
  <2>3. Append(c[r], s[k]) = Append(c[r], g)
    BY <1>11, <2>2
  <2>4. k \in 1 .. Len(s) /\ k # K + 1 /\ s[k] \in Files
    <3>1. Len(s) \in Nat /\ s \in Seq(Files)
      BY <1>2, ImportsLemma DEF s, Inv
    <3>2. k \in 1 .. Len(s) /\ k # K + 1
      BY <1>2, <1>4, <3>1
    <3> QED
      BY <3>1, <3>2, ElementOfSeq
  <2>5. s[k] = g
    BY <1>2, <1>9, <2>3, <2>4, AppendInjective
  <2> QED
    BY <1>2, <1>7, <2>4, <2>5 DEF g
\* ... and nothing for a longer one still.
<1>18. \A j \in 1 .. N, x \in Files : c[j] # Append(p, x)
  <2> SUFFICES ASSUME NEW j \in 1 .. N, NEW x \in Files, c[j] = Append(p, x) PROVE FALSE
    OBVIOUS
  <2>1. Len(p) \in Nat /\ Len(p) > 0
    BY <1>16 DEF IsChain
  <2>2. j # 1
    <3>1. Len(Append(p, x)) = Len(p) + 1 /\ Len(<<Entry>>) = 1
      BY <1>16, AppendProperties
    <3> QED
      BY <1>10, <2>1, <3>1
  <2>3. j \in 2 .. N
    BY <1>4, <2>2
  <2>4. PICK i \in 1 .. N, y \in Files : c[j] = Append(c[i], y)
    BY <1>10, <2>3
  <2>5. c[i] \in Seq(Files) /\ Append(c[i], y) = Append(p, x)
    BY <1>9, <2>4
  <2>6. c[i] = p
    <3>1. \A q \in Seq(Files) : Append(p, x) = Append(q, y) => q = p
      BY <1>16, OneWay
    <3> QED
      BY <2>5, <3>1
  <2> QED
    BY <1>17, <2>6
<1> HIDE DEF p
<1>19. PICK d \in [1 .. N + 1 -> Seq(Files)] : d[N + 1] = p /\ \A i \in 1 .. N : d[i] = c[i]
  <2> DEFINE e == [i \in 1 .. N + 1 |-> IF i = N + 1 THEN p ELSE c[i]]
  <2>1. /\ \A i \in 1 .. N : i # N + 1 /\ i \in 1 .. N + 1
        /\ \A i \in 1 .. N + 1 : i = N + 1 \/ i \in 1 .. N
        /\ N + 1 \in 1 .. N + 1
    BY <1>4
  <2>2. e \in [1 .. N + 1 -> Seq(Files)] /\ e[N + 1] = p /\ \A i \in 1 .. N : e[i] = c[i]
    BY <1>9, <1>16, <2>1
  <2> HIDE DEF e
  <2> QED
    BY <2>2
<1>20. \A i \in 1 .. N + 1 : i = N + 1 \/ i \in 1 .. N
  BY <1>4
<1>21. ASSUME NEW i \in 1 .. N + 1
       PROVE  IsChain(d[i])' /\ d[i][Len(d[i])] = loads'[i].file
  <2>1. IsChain(d[i])
    BY <1>9, <1>16, <1>19, <1>20
  <2>2. IsChain(d[i])'
    BY <1>1, <2>1 DEF IsChain, Leads
  <2> QED
    BY <1>5, <1>9, <1>16, <1>19, <1>20, <2>2
<1>22. Separate(d)'
  <2>1. ASSUME NEW i \in 1 .. N + 1, NEW j \in 1 .. N + 1, d[i] = d[j] PROVE i = j
    BY <1>9, <1>17, <1>19, <1>20, <2>1
  <2> QED
    BY <1>5, <1>21, <2>1 DEF Separate
<1>23. Rooted(d)'
  <2>1. loads' # <<>> /\ d[1] = <<Entry>>
    <3>1. 1 \in 1 .. N /\ Len(loads') # 0
      BY <1>4, <1>5, <1>10
    <3>2. loads' # <<>>
      BY <3>1
    <3> QED
      BY <1>10, <1>19, <3>1, <3>2
  <2>2. ASSUME NEW j \in 2 .. N + 1
        PROVE  \E i \in 1 .. N + 1, x \in Files : d[j] = Append(d[i], x)
    <3>1. \A i \in 1 .. N : i \in 1 .. N + 1
      BY <1>4
    <3>2. CASE j = N + 1
      <4>1. d[j] = Append(d[r], g) /\ r \in 1 .. N + 1
        BY <1>2, <1>19, <3>1, <3>2 DEF p
      <4> QED
        BY <1>2, <4>1
    <3>3. CASE j # N + 1
      <4>1. j \in 2 .. N /\ j \in 1 .. N
        BY <1>4, <3>3
      <4>2. PICK i \in 1 .. N, x \in Files : c[j] = Append(c[i], x)
        BY <1>10, <4>1
      <4> QED
        BY <1>19, <3>1, <4>1, <4>2
    <3> QED
      BY <3>2, <3>3
  <2> QED
    BY <1>5, <2>1, <2>2 DEF Rooted
<1>24. Pending(d)'
  <2>1. ASSUME NEW i \in Waiting', NEW j \in 1 .. N + 1, NEW x \in Files, d[j] = Append(d[i], x)
        PROVE  i = r /\ j \in Elems(kids')
    <3>1. CASE i = N + 1 /\ j = N + 1
      <4>1. p = Append(p, x)
        BY <1>19, <2>1, <3>1
      <4>2. Len(p) \in Nat /\ Len(Append(p, x)) = Len(p) + 1
        BY <1>16, AppendProperties
      <4> QED
        BY <4>1, <4>2
    <3>2. CASE i = N + 1 /\ j \in 1 .. N
      BY <1>18, <1>19, <2>1, <3>2
    <3>3. CASE i \in Waiting /\ j = N + 1
      <4>1. Append(c[r], g) = Append(c[i], x) /\ i \in 1 .. N
        BY <1>14, <1>19, <2>1, <3>3 DEF p
      <4>2. c[r] \in Seq(Files) /\ c[i] \in Seq(Files)
        BY <1>2, <1>9, <4>1
      <4>3. c[r] = c[i]
        <5>1. \A q \in Seq(Files) : Append(c[r], g) = Append(q, x) => q = c[r]
          BY <1>2, <4>2, OneWay
        <5> QED
          BY <4>1, <4>2, <5>1
      <4> QED
        BY <1>2, <1>9, <1>15, <3>3, <4>1, <4>3
    <3>4. CASE i \in Waiting /\ j \in 1 .. N
      <4>1. c[j] = Append(c[i], x)
        BY <1>14, <1>19, <2>1, <3>4
      <4> QED
        BY <1>11, <1>15, <3>4, <4>1
    <3> QED
      BY <1>15, <1>20, <3>1, <3>2, <3>3, <3>4
  <2>2. ASSUME NEW k \in 1 .. K + 1
        PROVE  d[kids'[k]] = Append(d[r], s[k])
    <3>1. d[r] = c[r]
      BY <1>2, <1>19
    <3>2. CASE k = K + 1
      BY <1>6, <1>19, <3>1, <3>2 DEF p, g
    <3>3. CASE k # K + 1
      <4>1. k \in 1 .. K
        BY <1>4, <3>3
      <4> QED
        BY <1>6, <1>11, <1>19, <3>1, <4>1
    <3> QED
      BY <3>2, <3>3
  <2>3. Head(todo') = r /\ todo' # <<>> /\ imports'[loads'[r].file] = s
    BY <1>1, <1>2, <1>5 DEF r, s, f
  <2> QED
    BY <1>5, <1>6, <2>1, <2>2, <2>3 DEF Pending
<1>25. Complete(d)'
  <2> SUFFICES ASSUME NEW i \in (1 .. N + 1) \ Waiting', NEW x \in Files,
                      \E k \in DOMAIN imports'[loads'[i].file] : imports'[loads'[i].file][k] = x
               PROVE  \E j \in 1 .. N + 1 : d[j] = Append(d[i], x)
    BY <1>5 DEF Complete, Leads
  <2>1. i \in (1 .. N) \ Waiting
    BY <1>15, <1>20
  <2>2. Leads(loads[i].file, x)
    BY <1>1, <1>5, <2>1 DEF Leads
  <2>3. PICK j \in 1 .. N : c[j] = Append(c[i], x)
    BY <1>12, <2>1, <2>2
  <2>4. j \in 1 .. N + 1
    BY <1>4
  <2> QED
    BY <1>19, <2>1, <2>3, <2>4
<1> QED
  BY <1>5, <1>19, <1>22, <1>23, <1>24, <1>25 DEF Chained

\* When the imports of a module are resolved, they wait in its place.
LEMMA DescendChain ==
    ASSUME Inv, ListInv, Descend,
           NEW c \in [1 .. Len(loads) -> Seq(Files)], Chained(c)
    PROVE  Chained(c)'
<1> DEFINE N == Len(loads)
           D == 1 .. N
           r == Head(todo)
           s == imports[loads[r].file]
<1>1. /\ phase = "link" /\ todo # <<>> /\ Len(kids) = Len(s)
      /\ todo' = kids \o Tail(todo) /\ kids' = <<>> /\ loads' = loads /\ imports' = imports
  BY DEF Descend
<1>2. todo \in Seq(D) /\ kids \in Seq(D)
  BY DEF Inv, Types
<1>3. Distinct(todo) /\ Distinct(kids) /\ Elems(todo) \cap Elems(kids) = {}
  BY <1>1 DEF ListInv
<1>4. r \in Elems(todo) /\ Distinct(Tail(todo)) /\ Elems(Tail(todo)) = Elems(todo) \ {r}
  BY <1>1, <1>2, <1>3, TailLemma
<1>5. Elems(todo') = Elems(kids) \union Elems(Tail(todo))
  <2>1. Tail(todo) \in Seq(D)
    BY <1>1, <1>2, HeadTailProperties
  <2>2. Elems(kids) \cap Elems(Tail(todo)) = {}
    BY <1>3, <1>4
  <2> DEFINE t == Tail(todo)
  <2>3. t \in Seq(D) /\ Distinct(t) /\ Elems(kids) \cap Elems(t) = {} /\ todo' = kids \o t
    BY <1>1, <1>4, <2>1, <2>2
  <2> HIDE DEF D, t
  <2>4. Elems(kids \o t) = Elems(kids) \union Elems(t)
    BY <1>2, <1>3, <2>3, ConcatLemma
  <2> QED
    BY <2>3, <2>4 DEF t
<1>6. Elems(kids') = {}
  BY <1>1 DEF Elems
<1>7. Waiting' = Waiting \ {r}
  BY <1>3, <1>4, <1>5, <1>6 DEF Waiting
<1>8. Separate(c)'
  BY <1>1 DEF Chained, Separate, IsChain, Leads
<1>9. Rooted(c)'
  BY <1>1 DEF Chained, Rooted
<1>10. Pending(c)'
  <2>1. ASSUME NEW i \in Waiting', NEW j \in 1 .. N, NEW g \in Files, c[j] = Append(c[i], g)
        PROVE  FALSE
    BY <1>7, <2>1 DEF Chained, Pending
  <2>2. \A k \in 1 .. Len(kids') : FALSE
    BY <1>1
  <2> QED
    BY <1>1, <2>1, <2>2 DEF Pending
<1>11. Complete(c)'
  <2> SUFFICES ASSUME NEW i \in D \ Waiting', NEW g \in Files, Leads(loads[i].file, g)
               PROVE  \E j \in 1 .. N : c[j] = Append(c[i], g)
    BY <1>1, ZenonT(30) DEF Complete, Leads
  <2>1. CASE i # r
    BY <1>7, <2>1 DEF Chained, Complete
  <2>2. CASE i = r
    <3>1. loads[r].file \in Files
      BY <1>1, ReferrerLemma DEF Inv
    <3>2. s \in Seq(Files)
      BY <3>1, ImportsLemma DEF Inv
    <3>3. PICK k \in 1 .. Len(s) : s[k] = g
      BY <2>2, <3>2 DEF Leads
    <3>4. kids[k] \in D
      BY <1>1, <1>2, <3>3, ElementOfSeq
    <3>5. c[kids[k]] = Append(c[r], s[k])
      BY <1>1, <3>3 DEF Chained, Pending
    <3> QED
      BY <2>2, <3>3, <3>4, <3>5
  <2> QED
    BY <2>1, <2>2
<1> QED
  BY <1>8, <1>9, <1>10, <1>11 DEF Chained

\* Every step keeps a chain for each load.
LEMMA ChainStep == Inv /\ ListInv /\ ChainInv /\ [Next]_vars => ChainInv'
<1> SUFFICES ASSUME Inv, ListInv, ChainInv, [Next]_vars, phase' \in {"link", "evaluate"}, Alone'
             PROVE  \E c \in [1 .. Len(loads') -> Seq(Files)] : Chained(c)'
  BY DEF ChainInv
<1>1. CASE CompileEntry
  BY <1>1, FirstChain
<1>2. CASE CompileImport
  <2>1. phase = "link" /\ Importing /\ Len(loads) < MaxLoads
    BY <1>2 DEF CompileImport, Importing
  <2>2. Alone
    <3>1. PICK f \in Files, h \in Hashes : Load(f, h)
      BY <1>2, <2>1, ResolvedLemma DEF CompileImport, Inv
    <3>2. h \in 0 .. MaxLoads
      BY <2>1, HashesLemma DEF Inv
    <3>3. /\ Len(loads') = Len(loads) + 1 /\ Len(loads) \in Nat
          /\ \A i \in 1 .. Len(loads) : ShadowedIn(loads', i) <=> ShadowedIn(loads, i)
      BY <2>1, <3>1, <3>2, LoadLemma DEF Inv, Types
    <3>4. \A i \in 1 .. Len(loads') : ~ShadowedIn(loads', i)
      BY DEF Alone, ShadowedIn
    <3>5. \A i \in 1 .. Len(loads) : i \in 1 .. Len(loads')
      BY <3>3
    <3> QED
      BY <3>3, <3>4, <3>5 DEF Alone
  <2> QED
    BY <1>2, <2>1, <2>2, NextChain DEF ChainInv
<1>3. CASE Descend
  <2>1. Alone /\ phase = "link" /\ loads' = loads
    BY <1>3 DEF Descend, Alone, ShadowedIn
  <2> QED
    BY <1>3, <2>1, DescendChain DEF ChainInv
<1>4. CASE UNCHANGED <<imports, loads, todo, kids>> /\ phase \in {"link", "evaluate"}
  <2>1. Alone
    BY <1>4 DEF Alone, ShadowedIn
  <2>2. PICK c \in [1 .. Len(loads) -> Seq(Files)] : Chained(c)
    BY <1>4, <2>1 DEF ChainInv
  <2>3. Separate(c)' /\ Rooted(c)'
    BY <1>4, <2>2 DEF Chained, Separate, Rooted, IsChain, Leads
  <2>4. Waiting' = Waiting /\ Elems(kids') = Elems(kids)
    BY <1>4 DEF Waiting
  <2>5. Pending(c)'
    BY <1>4, <2>2, <2>4 DEF Chained, Pending
  <2>6. Complete(c)'
    <3>1. Complete(c)
      BY <2>2 DEF Chained
    <3> SUFFICES ASSUME NEW i \in (1 .. Len(loads')) \ Waiting', NEW g \in Files,
                        \E k \in DOMAIN imports'[loads'[i].file] : imports'[loads'[i].file][k] = g
                 PROVE  \E j \in 1 .. Len(loads') : c[j] = Append(c[i], g)
      BY DEF Complete, Leads
    <3>2. loads' = loads /\ imports' = imports
      BY <1>4
    <3>3. i \in (1 .. Len(loads)) \ Waiting /\ Leads(loads[i].file, g)
      BY <2>4, <3>2 DEF Leads
    <3> QED
      BY <3>1, <3>2, <3>3 DEF Complete
  <2> QED
    BY <1>4, <2>3, <2>5, <2>6 DEF Chained
<1>5. \/ CompileEntry \/ CompileImport \/ Descend
      \/ UNCHANGED <<imports, loads, todo, kids>> /\ phase \in {"link", "evaluate"}
  BY DEF Next, NoArgument, RejectEntry, MissingFile, RejectImport, StackOverflow, Linked,
    EvaluateDone, EvaluateFails, EvaluatePending, FreePath, DestroyEntry, DestroyDone, vars
<1> QED
  BY <1>1, <1>2, <1>3, <1>4, <1>5

\* At the start there are neither lists nor loads.
LEMMA ChainsAlways == Spec => [](Inv /\ ListInv /\ ChainInv)
<1>1. Init => ListInv /\ ChainInv
  BY DEF Init, ListInv, ChainInv, Distinct, Elems
<1> QED
  BY <1>1, InvInit, InvStep, ListStep, ChainStep, PTL DEF Spec

\* Where all imports are made, the loads have all chains.
LEMMA AllChains ==
    ASSUME Inv, NEW c \in [1 .. Len(loads) -> Seq(Files)], Chained(c), Waiting = {},
           NEW p, IsChain(p)
    PROVE  \E i \in 1 .. Len(loads) : c[i] = p
<1> DEFINE N == Len(loads)
           n == Len(p)
           u(k) == SubSeq(p, 1, k)
           T == {k \in 0 .. n : k # 0 => \E i \in 1 .. N : c[i] = u(k)}
<1>1. /\ p \in Seq(Files) /\ p # <<>> /\ p[1] = Entry /\ n \in Nat /\ n > 0
      /\ \A k \in 1 .. n - 1 : Leads(p[k], p[k + 1])
      /\ \A k \in 1 .. n : p[k] \in Files
  BY ElementOfSeq DEF IsChain
<1>2. N \in Nat /\ N # 0 /\ c[1] = <<Entry>>
  BY DEF Chained, Rooted, Inv, Types
<1>3. \A i \in 1 .. N : c[i] \in Seq(Files) /\ c[i][Len(c[i])] = loads[i].file
  BY DEF Chained, Separate
<1>4. \A i \in 1 .. N, x \in Files :
         Leads(loads[i].file, x) => \E j \in 1 .. N : c[j] = Append(c[i], x)
  BY DEF Chained, Complete
<1> HIDE DEF n, N
<1>5. \A k \in 1 .. n : /\ u(k) \in Seq(Files) /\ Len(u(k)) = k
                       /\ \A i \in 1 .. k : u(k)[i] = p[i]
  <2> SUFFICES ASSUME NEW k \in 1 .. n
               PROVE  /\ u(k) \in Seq(Files) /\ Len(u(k)) = k
                      /\ \A i \in 1 .. k : u(k)[i] = p[i]
    OBVIOUS
  <2>1. k <= n /\ k \in Nat /\ 1 \in Nat
    BY <1>1
  <2>2. \A i \in 1 .. k : p[i] \in Files /\ i \in 1 .. n
    BY <1>1, <2>1
  <2> QED
    BY <1>1, <2>1, <2>2 DEF n
<1>6. 0 \in T
  BY <1>1
<1>7. ASSUME NEW k \in 1 .. n, k - 1 \in T PROVE k \in T
  <2>1. k \in 0 .. n
    BY <1>1
  <2>2. CASE k = 1
    <3>1. u(1) = <<Entry>>
      <4>1. /\ u(1) \in Seq(Files) /\ Len(u(1)) = 1 /\ u(1)[1] = Entry
        BY <1>1, <1>5, <2>2
      <4> DEFINE v == u(1)
      <4> HIDE DEF v, u
      <4>2. v = <<Entry>>
        BY <4>1 DEF v
      <4> QED
        BY <4>2 DEF v
    <3>2. 1 \in 1 .. N
      BY <1>2
    <3> QED
      BY <1>2, <2>1, <2>2, <3>1, <3>2
  <2>3. CASE k # 1
    <3>1. k - 1 \in 1 .. n - 1 /\ k - 1 \in 1 .. n /\ k - 1 # 0 /\ (k - 1) + 1 = k /\ k - 1 \in 1 .. k
      BY <1>1, <2>3
    <3>2. PICK i \in 1 .. N : c[i] = u(k - 1)
      BY <1>7, <3>1
    <3>3. loads[i].file = p[k - 1]
      BY <1>3, <1>5, <3>1, <3>2
    <3>4. Leads(loads[i].file, p[k])
      BY <1>1, <3>1, <3>3
    <3>5. PICK j \in 1 .. N : c[j] = Append(u(k - 1), p[k])
      BY <1>1, <1>4, <3>2, <3>4
    <3>6. Append(u(k - 1), p[k]) = u(k)
      <4> DEFINE a == u(k - 1)
                 b == u(k)
                 x == p[k]
      <4>1. /\ a \in Seq(Files) /\ Len(a) = k - 1 /\ \A m \in 1 .. k - 1 : a[m] = p[m]
            /\ b \in Seq(Files) /\ Len(b) = k /\ \A m \in 1 .. k : b[m] = p[m]
            /\ x \in Files /\ b[k] = x
        BY <1>1, <1>5, <3>1
      <4> HIDE DEF a, b, x, u
      <4>2. /\ Append(a, x) \in Seq(Files) /\ Len(Append(a, x)) = Len(a) + 1
            /\ \A m \in 1 .. Len(a) : Append(a, x)[m] = a[m]
            /\ Append(a, x)[Len(a) + 1] = x
        BY <4>1, AppendProperties
      <4> DEFINE d == Append(a, x)
      <4>3. d \in Seq(Files) /\ Len(d) = k /\ d[k] = x /\ \A m \in 1 .. k - 1 : d[m] = a[m]
        BY <3>1, <4>1, <4>2
      <4> HIDE DEF d
      <4>4. ASSUME NEW m \in 1 .. k PROVE d[m] = b[m]
        <5>1. m = k \/ m \in 1 .. k - 1
          OBVIOUS
        <5> QED
          BY <4>1, <4>3, <5>1
      <4>5. d = b
        BY <4>1, <4>3, <4>4, SeqEqual
      <4> QED
        BY <4>5 DEF a, b, d, x
    <3> QED
      BY <2>1, <3>5, <3>6
  <2> QED
    BY <2>2, <2>3
<1>8. n \in T
  <2> HIDE DEF T, u
  <2>1. n \in Nat /\ n \in 0 .. n
    BY <1>1
  <2>2. \A k \in 1 .. n : k - 1 \in T => k \in T
    BY <1>7
  <2>3. 0 .. n \subseteq T
    BY <1>6, <2>1, <2>2, UpTo
  <2> QED
    BY <2>1, <2>3
<1>9. u(n) = p
  <2> DEFINE v == u(n)
  <2>1. v \in Seq(Files) /\ Len(v) = Len(p) /\ \A i \in 1 .. Len(v) : v[i] = p[i]
    BY <1>1, <1>5 DEF n
  <2> HIDE DEF v, u
  <2>2. v = p
    BY <1>1, <2>1, SeqEqual
  <2> QED
    BY <2>2 DEF v
<1> QED
  BY <1>1, <1>8, <1>9 DEF N

\* A chain that leads to a file of another goes on along that one.
LEMMA GluedChain ==
    ASSUME NEW p, IsChain(p), NEW q, IsChain(q),
           NEW a \in 1 .. Len(p), NEW b \in 1 .. Len(p), a <= b, q[Len(q)] = p[a]
    PROVE  \E r : IsChain(r) /\ Len(r) = Len(q) + (b - a) /\ r[Len(r)] = p[b]
<1> DEFINE n == Len(p)
           m == Len(q)
           s == SubSeq(p, a + 1, b)
           r == q \o s
<1>1. /\ p \in Seq(Files) /\ n \in Nat /\ \A k \in 1 .. n - 1 : Leads(p[k], p[k + 1])
      /\ q \in Seq(Files) /\ m \in Nat /\ m > 0 /\ q[1] = Entry
      /\ \A k \in 1 .. m - 1 : Leads(q[k], q[k + 1])
  BY DEF IsChain
<1>2. /\ \A i \in 1 .. b - a : a + i \in 1 .. n
      /\ a + 1 \in Int /\ b \in Int /\ a \in Int
      /\ \A i \in a + 1 .. b : i \in 1 .. n
  BY <1>1
<1>3. /\ s \in Seq(Files) /\ Len(s) = b - a /\ \A i \in 1 .. b - a : s[i] = p[a + i]
  <2>1. \A i \in a + 1 .. b : p[i] \in Files
    BY <1>1, <1>2, ElementOfSeq
  <2> HIDE DEF n
  <2>2. /\ s \in Seq(Files) /\ Len(s) = IF a + 1 <= b THEN b - (a + 1) + 1 ELSE 0
        /\ \A i \in 1 .. b - (a + 1) + 1 : s[i] = p[(a + 1) + i - 1]
    BY <1>2, <2>1, SubSeqProperties, SMTT(20)
  <2>3. \A i \in 1 .. b - a : i \in 1 .. b - (a + 1) + 1 /\ (a + 1) + i - 1 = a + i
    BY <1>2
  <2>4. Len(s) = b - a
    BY <1>2, <2>2
  <2> HIDE DEF s
  <2> QED
    BY <2>2, <2>3, <2>4
<1> HIDE DEF s, n, m
<1>4. /\ r \in Seq(Files) /\ Len(r) = m + (b - a)
      /\ \A i \in 1 .. m + (b - a) : r[i] = IF i <= m THEN q[i] ELSE s[i - m]
  <2>1. /\ r \in Seq(Files) /\ Len(r) = Len(q) + Len(s)
        /\ \A i \in 1 .. Len(q) + Len(s) : r[i] = IF i <= Len(q) THEN q[i] ELSE s[i - Len(q)]
    BY <1>1, <1>3, ConcatProperties
  <2> HIDE DEF r
  <2>2. m = Len(q) /\ Len(s) = b - a
    BY <1>3 DEF m
  <2> QED
    BY <2>1, <2>2
<1> HIDE DEF r
<1>5. \A i \in 1 .. m : i \in 1 .. m + (b - a) /\ r[i] = q[i]
  BY <1>1, <1>2, <1>4
<1>6. ASSUME NEW i \in 0 .. b - a PROVE m + i \in 1 .. m + (b - a) /\ r[m + i] = p[a + i]
  <2>1. m + i \in 1 .. m + (b - a) /\ m \in 1 .. m
    BY <1>1, <1>2
  <2>2. CASE i = 0
    <3>1. q[m] = p[a]
      BY DEF m
    <3> QED
      BY <1>1, <1>2, <1>5, <2>1, <2>2, <3>1
  <2>3. CASE i # 0
    <3>1. i \in 1 .. b - a /\ ~(m + i <= m) /\ (m + i) - m = i
      BY <1>1, <1>2, <2>3
    <3> QED
      BY <1>3, <1>4, <2>1, <3>1
  <2> QED
    BY <2>2, <2>3
<1>7. ASSUME NEW k \in 1 .. Len(r) - 1 PROVE Leads(r[k], r[k + 1])
  <2>1. CASE k < m
    <3>1. k \in 1 .. m - 1 /\ k \in 1 .. m /\ k + 1 \in 1 .. m
      BY <1>1, <2>1
    <3> QED
      BY <1>1, <1>5, <3>1
  <2>2. CASE ~(k < m)
    <3> DEFINE i == k - m
    <3>1. /\ i \in 0 .. b - a /\ i + 1 \in 0 .. b - a
          /\ m + i = k /\ m + (i + 1) = k + 1
          /\ a + i \in 1 .. n - 1 /\ a + (i + 1) = (a + i) + 1
      BY <1>1, <1>2, <1>4, <2>2 DEF n
    <3> HIDE DEF i
    <3>2. r[k] = p[a + i] /\ r[k + 1] = p[(a + i) + 1]
      BY <1>6, <3>1
    <3> QED
      BY <1>1, <3>1, <3>2
  <2> QED
    BY <2>1, <2>2
<1>8. r[Len(r)] = p[b]
  <2>1. b - a \in 0 .. b - a /\ a + (b - a) = b
    BY <1>2
  <2> QED
    BY <1>4, <1>6, <2>1
<1>9. r # <<>> /\ r[1] = Entry
  <2>1. 1 \in 1 .. m /\ Len(r) # 0
    BY <1>1, <1>2, <1>4
  <2>2. r # <<>>
    BY <2>1
  <2> QED
    BY <1>1, <1>5, <2>1, <2>2
<1> QED
  BY <1>4, <1>7, <1>8, <1>9 DEF IsChain, m

\* The loads that are finished bound the chains: none meets a file twice, as it could go
\* round once more than the longest for which that file was loaded.
LEMMA NoRepeats ==
    ASSUME Inv, NEW c \in [1 .. Len(loads) -> Seq(Files)], Chained(c), Waiting = {},
           NEW p, IsChain(p), NEW a \in 1 .. Len(p), NEW b \in 1 .. Len(p), a < b
    PROVE  p[a] # p[b]
<1> SUFFICES ASSUME p[a] = p[b] PROVE FALSE
  OBVIOUS
<1> DEFINE N == Len(loads)
           J == {i \in 1 .. N : loads[i].file = p[b]}
<1>1. /\ p \in Seq(Files) /\ p[1] = Entry /\ Len(p) \in Nat
      /\ N \in Nat
      /\ 1 \in 1 .. Len(p) /\ 1 <= a /\ a <= b /\ a \in Nat /\ b \in Nat
  BY DEF IsChain, Inv, Types
<1>2. \A i \in 1 .. N : IsChain(c[i]) /\ c[i][Len(c[i])] = loads[i].file
  BY DEF Chained, Separate
<1>3. ASSUME NEW r, IsChain(r), r[Len(r)] = p[b]
      PROVE  \E j \in J : c[j] = r
  <2>1. PICK j \in 1 .. N : c[j] = r
    BY <1>3, AllChains
  <2> QED
    BY <1>2, <1>3, <2>1
<1>4. J # {}
  <2>1. IsChain(<<Entry>>) /\ Len(<<Entry>>) = 1 /\ <<Entry>>[1] = p[1]
    BY <1>1, EntryAssumption DEF IsChain
  <2> DEFINE e == <<Entry>>
  <2>2. IsChain(e) /\ e[Len(e)] = p[1]
    BY <2>1
  <2> HIDE DEF e, J
  <2>3. PICK r : IsChain(r) /\ r[Len(r)] = p[a]
    BY <1>1, <2>2, GluedChain
  <2> QED
    BY <1>3, <2>3
<1> DEFINE f == [i \in 1 .. N |-> Len(c[i])]
<1>5. \A i \in 1 .. N : f[i] = Len(c[i]) /\ f[i] \in Nat
  BY <1>2 DEF IsChain
<1>6. J \in SUBSET (1 .. N)
  OBVIOUS
<1>7. \A j \in J : loads[j].file = p[b] /\ j \in 1 .. N
  OBVIOUS
<1> HIDE DEF f, J, N
<1>8. PICK i \in J : \A j \in J : f[j] <= f[i]
  BY <1>1, <1>4, <1>5, <1>6, GreatestOf
<1>9. IsChain(c[i]) /\ c[i][Len(c[i])] = p[a]
  BY <1>2, <1>7
<1>10. PICK r : IsChain(r) /\ Len(r) = Len(c[i]) + (b - a) /\ r[Len(r)] = p[b]
  BY <1>1, <1>9, GluedChain, ZenonT(30)
<1>11. PICK j \in J : c[j] = r
  BY <1>3, <1>10
<1>12. f[j] <= f[i] /\ f[j] = Len(r) /\ f[i] = Len(c[i]) /\ f[i] \in Nat
  BY <1>5, <1>7, <1>8, <1>11
<1> QED
  BY <1>1, <1>10, <1>12

\* So the chains are the paths without repetitions that Chains lists.
LEMMA ChainsLemma ==
    ASSUME Inv, NEW c \in [1 .. Len(loads) -> Seq(Files)], Chained(c), Waiting = {}, NEW p
    PROVE  IsChain(p) <=> p \in Chains
<1> DEFINE C == Cardinality(Files)
<1>1. C \in Nat
  BY FilesAssumption, FS_CardinalityType
<1> HIDE DEF C
<1>2. Chains = {q \in UNION {[1 .. n -> Files] : n \in 1 .. C} :
                  q[1] = Entry /\ \A i \in 1 .. Len(q) - 1 : Leads(q[i], q[i + 1])}
  BY DEF Chains, Leads, C
<1>3. ASSUME IsChain(p) PROVE p \in Chains
  <2> DEFINE n == Len(p)
  <2>1. p \in [1 .. n -> Files] /\ n \in Nat /\ n > 0
    BY <1>3 DEF IsChain
  <2> HIDE DEF n
  <2>2. ASSUME NEW a \in 1 .. n, NEW b \in 1 .. n, p[a] = p[b] PROVE a = b
    <3>1. ~(a < b) /\ ~(b < a)
      BY <1>3, <2>2, NoRepeats DEF n
    <3> QED
      BY <2>1, <3>1
  <2>3. p \in Injection(1 .. n, Files)
    BY <2>1, <2>2 DEF Injection, IsInjective
  <2>4. Cardinality(1 .. n) <= C
    BY <2>3, FilesAssumption, FS_Injection DEF C
  <2>5. Cardinality(1 .. n) = n
    <3>1. 1 \in Int /\ n \in Int /\ ~(1 > n) /\ n - 1 + 1 = n
      BY <2>1
    <3> QED
      BY <3>1, FS_Interval
  <2>6. n \in 1 .. C
    BY <1>1, <2>1, <2>4, <2>5
  <2> QED
    BY <1>2, <1>3, <2>1, <2>6 DEF IsChain, n
<1>4. ASSUME p \in Chains PROVE IsChain(p)
  <2>1. PICK n \in 1 .. C : p \in [1 .. n -> Files]
    BY <1>2, <1>4
  <2>2. p \in Seq(Files) /\ Len(p) = n /\ n > 0
    BY <1>1, <2>1, SeqDef
  <2>3. p # <<>>
    BY <2>2
  <2> QED
    BY <1>2, <1>4, <2>2, <2>3 DEF IsChain
<1> QED
  BY <1>3, <1>4

\* The loads of a file go one to one with the chains that end in it.
LEMMA CountChains ==
    ASSUME Inv, NEW c \in [1 .. Len(loads) -> Seq(Files)], Chained(c), Waiting = {},
           NEW f \in Files
    PROVE  Cardinality({i \in DOMAIN loads : loads[i].file = f})
             = Cardinality({p \in Chains : p[Len(p)] = f})
<1> DEFINE N == Len(loads)
           I == {i \in DOMAIN loads : loads[i].file = f}
           S == {p \in Chains : p[Len(p)] = f}
           g == [i \in I |-> c[i]]
<1>1. N \in Nat /\ DOMAIN loads = 1 .. N
  BY DEF Inv, Types
<1>2. /\ \A i \in 1 .. N : IsChain(c[i]) /\ c[i][Len(c[i])] = loads[i].file
      /\ \A i, j \in 1 .. N : c[i] = c[j] => i = j
  BY DEF Chained, Separate
<1>3. \A p : p \in Chains <=> IsChain(p)
  BY ChainsLemma
<1>4. I \subseteq 1 .. N /\ \A i \in 1 .. N : i \in I <=> loads[i].file = f
  BY <1>1
<1>5. IsFiniteSet(I)
  <2>1. IsFiniteSet(1 .. N)
    BY <1>1, FS_Interval
  <2> QED
    BY <1>4, <2>1, FS_Subset
<1>6. \A i \in I : c[i] \in S
  BY <1>2, <1>3, <1>4
<1>7. \A p \in S : \E i \in I : c[i] = p
  <2> SUFFICES ASSUME NEW p \in S PROVE \E i \in I : c[i] = p
    OBVIOUS
  <2>1. IsChain(p) /\ p[Len(p)] = f
    BY <1>3
  <2>2. PICK i \in 1 .. N : c[i] = p
    BY <2>1, AllChains
  <2> QED
    BY <1>2, <1>4, <2>1, <2>2
<1> HIDE DEF I, S, N
<1>8. g \in Bijection(I, S)
  <2>1. g \in [I -> S] /\ \A i \in I : g[i] = c[i]
    BY <1>6
  <2> HIDE DEF g
  <2>2. \A i, j \in I : g[i] = g[j] => i = j
    BY <1>2, <1>4, <2>1
  <2>3. \A p \in S : \E i \in I : g[i] = p
    BY <1>7, <2>1
  <2> QED
    BY <2>1, <2>2, <2>3 DEF Bijection, Injection, Surjection, IsInjective
<1>9. Cardinality(S) = Cardinality(I)
  <2> HIDE DEF g
  <2>1. ExistsBijection(I, S)
    BY <1>8 DEF ExistsBijection
  <2> QED
    BY <1>5, <2>1, FS_Bijection
<1> QED
  BY <1>9 DEF I, S

\* OneLoadPerChain, in any number of files and loads: where no two modules share a hash,
\* resolve_module_callback compiles a file once for each chain of imports that leads to it
\* from the entry module, neither more often nor less.
THEOREM OneLoadForEachChain == Spec => []OneLoadPerChain
<1>1. Inv /\ ListInv /\ ChainInv => OneLoadPerChain
  <2> SUFFICES ASSUME Inv, ListInv, ChainInv, phase = "evaluate",
                      \A i \in DOMAIN loads : ~Shadowed(i), NEW f \in Files
               PROVE  Cardinality({i \in DOMAIN loads : loads[i].file = f})
                        = Cardinality({p \in Chains : p[Len(p)] = f})
    BY DEF OneLoadPerChain
  <2>1. Alone
    <3>1. DOMAIN loads = 1 .. Len(loads)
      BY DEF Inv, Types
    <3> QED
      BY <3>1 DEF Alone, ShadowedIn, Shadowed
  <2>2. PICK c \in [1 .. Len(loads) -> Seq(Files)] : Chained(c)
    BY <2>1 DEF ChainInv
  <2>3. Waiting = {}
    BY DEF ListInv, Waiting, Elems
  <2> QED
    BY <2>2, <2>3, CountChains
<1> QED
  BY <1>1, ChainsAlways, PTL

\* CyclesFail, for any program: where no two modules share a hash, InstantiateModule does
\* not succeed on imports that run into a cycle.  A module of one of its files has
\* imported another of them, under a longer chain, and of finitely many modules one has
\* the longest.
THEOREM CyclesNeverEnd == Spec => []CyclesFail
<1>1. Inv /\ ListInv /\ ChainInv => CyclesFail
  <2> SUFFICES ASSUME Inv, ListInv, ChainInv, phase = "evaluate",
                      \A i \in DOMAIN loads : ~Shadowed(i),
                      NEW S \in SUBSET Files, Endless(S)
               PROVE  FALSE
    BY DEF CyclesFail
  <2> DEFINE N == Len(loads)
  <2>1. DOMAIN loads = 1 .. N /\ N \in Nat
    BY DEF Inv, Types
  <2>2. Alone
    BY <2>1 DEF Alone, ShadowedIn, Shadowed
  <2>3. PICK c \in [1 .. N -> Seq(Files)] : Chained(c)
    BY <2>2 DEF ChainInv
  <2>4. Waiting = {}
    BY DEF ListInv, Waiting, Elems
  <2>5. \A i \in 1 .. N : c[i] \in Seq(Files) /\ c[i][Len(c[i])] = loads[i].file
    BY <2>3 DEF Chained, Separate
  <2>6. \A i \in 1 .. N, g \in Files :
           Leads(loads[i].file, g) => \E j \in 1 .. N : c[j] = Append(c[i], g)
    BY <2>3, <2>4 DEF Chained, Complete
  <2>7. 1 \in 1 .. N /\ c[1] = <<Entry>>
    BY <2>1, <2>3 DEF Chained, Rooted, Inv, Types
  <2>8. Entry \in S /\ \A f \in S : \E g \in S : Leads(f, g)
    BY DEF Endless, Leads
  <2> DEFINE I == {i \in 1 .. N : loads[i].file \in S}
             f == [i \in 1 .. N |-> Len(c[i])]
  <2>9. \A i \in 1 .. N : f[i] = Len(c[i]) /\ f[i] \in Nat
    BY <2>5
  <2>10. 1 \in I
    <3>1. <<Entry>>[Len(<<Entry>>)] = Entry
      OBVIOUS
    <3> QED
      BY <2>5, <2>7, <2>8, <3>1
  <2>11. I \in SUBSET (1 .. N) /\ I # {}
    BY <2>10
  <2>12. \A i \in 1 .. N : i \in I <=> loads[i].file \in S
    OBVIOUS
  <2> HIDE DEF I, f, N
  <2>13. PICK i \in I : \A j \in I : f[j] <= f[i]
    BY <2>1, <2>9, <2>11, GreatestOf
  <2>14. i \in 1 .. N /\ loads[i].file \in S
    BY <2>11, <2>12
  <2>15. PICK g \in S : Leads(loads[i].file, g)
    BY <2>8, <2>14
  <2>16. PICK j \in 1 .. N : c[j] = Append(c[i], g)
    BY <2>6, <2>14, <2>15
  <2>17. c[j][Len(c[j])] = g /\ Len(c[j]) = Len(c[i]) + 1
    BY <2>5, <2>14, <2>16, AppendProperties
  <2>18. j \in I
    BY <2>5, <2>12, <2>17
  <2> QED
    BY <2>9, <2>13, <2>14, <2>17, <2>18
<1> QED
  BY <1>1, ChainsAlways, PTL
=============================================================================
