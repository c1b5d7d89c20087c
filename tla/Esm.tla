-------------------------------- MODULE Esm --------------------------------
(***************************************************************************)
(* The module loader of the current runtime (src/esm/esm.cc) and the main  *)
(* program around it (src/main.cc): esm_init compiles the entry module and *)
(* has V8 link it, which calls resolve_module_callback for every import;   *)
(* then the module is evaluated, and esm_destroy frees the paths.          *)
(*                                                                         *)
(* A load allocates a path, reads the file and compiles it into a new      *)
(* module; it is numbered, and its path and module go by that number.      *)
(* module_path_map leads from V8's identity hash of a module to the path   *)
(* against which the module's imports are resolved.  Hashes need not be    *)
(* unique: a new module has a hash of its own, named by the number of the  *)
(* load, or one that another module has.                                   *)
(***************************************************************************)
EXTENDS Naturals, Sequences, FiniteSets

CONSTANTS
    Files,          \* the files of the program
    Entry,          \* the one named on the command line
    MaxImports,     \* the most imports a file has (a bound)
    MaxLoads        \* the loads at which V8's stack is full (a bound)

ASSUME EntryAssumption == Entry \in Files
ASSUME FilesAssumption == IsFiniteSet(Files)
ASSUME BoundsAssumption == MaxImports \in Nat /\ MaxLoads \in Nat \ {0}

VARIABLES
    imports,        \* what each file imports, in order; never changes
    phase,          \* where the program is
    result,         \* what esm_init returned: "none" until it does
    loads,          \* the loads so far: their file, and the hash or NoHash
    frees,          \* how often the path of each load has been freed
    map,            \* module_path_map
    todo,           \* modules that V8 has yet to link, in order
    kids            \* the imports resolved of the first of these

vars == <<imports, phase, result, loads, frees, map, todo, kids>>

NoHash == 0         \* of a load that did not compile
Phases == {"main", "link", "evaluate", "spin", "failed", "destroy", "end", "crashed"}

\* A file imports a file under one specifier, hence once.
ImportLists ==
    {s \in UNION {[1 .. n -> Files] : n \in 0 .. MaxImports} :
        \A i, j \in DOMAIN s : s[i] = s[j] => i = j}

\* The hashes a module compiled now may have.
Hashes == ({loads[i].hash : i \in DOMAIN loads} \ {NoHash}) \union {Len(loads) + 1}

\* Two faulty variants of Insert, for the same use as those further down:
\* map[h] = path in place of insert.
InsertOverwrites(h, i) ==
    map' = [x \in DOMAIN map \union {h} |-> IF x = h THEN i ELSE map[x]]

\* No insert, as if only the entry module were a referrer.
InsertEntryOnly(h, i) ==
    map' = IF i = 1 THEN [x \in {h} |-> i] ELSE map

\* unordered_map::insert does nothing if the key is present.
Insert(h, i) ==
    map' = [x \in DOMAIN map \union {h} |-> IF x \in DOMAIN map THEN map[x] ELSE i]

\* malloc of a path, and what became of the file.
Load(f, h) ==
    /\ loads' = Append(loads, [file |-> f, hash |-> h])
    /\ frees' = Append(frees, 0)

Free(i) == frees' = [frees EXCEPT ![i] = @ + 1]

(***************************************************************************)
(* V8 links a module by resolving all its imports in order, and then links *)
(* each of these.  Importing is the state in which it calls                *)
(* resolve_module_callback.                                                *)
(***************************************************************************)
Importing == phase = "link" /\ todo # <<>> /\ Len(kids) < Len(imports[loads[Head(todo)].file])

(* main before esm_init. *)
Init ==
    /\ imports \in [Files -> ImportLists]
    /\ phase = "main"
    /\ result = "none"
    /\ loads = <<>> /\ frees = <<>>
    /\ map = [h \in {} |-> 0]
    /\ todo = <<>> /\ kids = <<>>
-----------------------------------------------------------------------------
(* Faulty variants of definitions below, used to see that the properties   *)
(* would notice such a slip.                                               *)

\* The next import is resolved against the path of the entry module.
ResolvedAgainstEntry ==
    LET referrer == loads[Head(todo)]
        base == loads[1].file
    IN  IF base = referrer.file THEN {imports[referrer.file][Len(kids) + 1]} ELSE Files

\* The path is entered in the map before it is known whether the file compiles.
RejectImportEntered ==
    /\ Importing /\ Len(loads) < MaxLoads
    /\ \E f \in Files : Load(f, NoHash)
    /\ Insert(NoHash, Len(loads) + 1)
    /\ phase' = "failed"
    /\ UNCHANGED <<imports, result, todo, kids>>
-----------------------------------------------------------------------------
(* esm_init: the entry module. *)

\* main with no argument: esm_init is not called.
NoArgument ==
    /\ phase = "main"
    /\ phase' = "destroy"
    /\ UNCHANGED <<imports, result, loads, frees, map, todo, kids>>

CompileEntry ==
    /\ phase = "main"
    /\ \E h \in Hashes : Load(Entry, h) /\ Insert(h, 1)
    /\ todo' = <<1>>
    /\ phase' = "link"
    /\ UNCHANGED <<imports, result, kids>>

RejectEntry ==
    /\ phase = "main"
    /\ Load(Entry, NoHash)
    /\ phase' = "failed"
    /\ UNCHANGED <<imports, result, map, todo, kids>>

\* read_file or http_get returns NULL, of which V8 cannot make a string.
MissingFile ==
    /\ phase = "main" \/ Importing
    /\ phase' = "crashed"
    /\ UNCHANGED <<imports, result, loads, frees, map, todo, kids>>

\* The file that the next import names, resolved against the path found for
\* the referrer.  Against the path of another module it may be any file.
Resolved ==
    LET referrer == loads[Head(todo)]
        base == loads[map[referrer.hash]].file
    IN  IF base = referrer.file THEN {imports[referrer.file][Len(kids) + 1]} ELSE Files

CompileImport ==
    /\ Importing /\ Len(loads) < MaxLoads
    /\ \E f \in Resolved, h \in Hashes : Load(f, h) /\ Insert(h, Len(loads) + 1)
    /\ kids' = Append(kids, Len(loads) + 1)
    /\ UNCHANGED <<imports, phase, result, todo>>

\* The callback returns no module: InstantiateModule fails.
RejectImport ==
    /\ Importing /\ Len(loads) < MaxLoads
    /\ \E f \in Resolved : Load(f, NoHash)
    /\ phase' = "failed"
    /\ UNCHANGED <<imports, result, map, todo, kids>>

\* All imports resolved: on to the first of them.
Descend ==
    /\ phase = "link" /\ todo # <<>>
    /\ Len(kids) = Len(imports[loads[Head(todo)].file])
    /\ todo' = kids \o Tail(todo)
    /\ kids' = <<>>
    /\ UNCHANGED <<imports, phase, result, loads, frees, map>>

\* V8 gives up when its stack is full: InstantiateModule fails.
StackOverflow ==
    /\ Importing /\ Len(loads) = MaxLoads
    /\ phase' = "failed"
    /\ UNCHANGED <<imports, result, loads, frees, map, todo, kids>>

Linked ==
    /\ phase = "link" /\ todo = <<>>
    /\ phase' = "evaluate"
    /\ UNCHANGED <<imports, result, loads, frees, map, todo, kids>>

\* The promise of the evaluation is settled, and esm_init returns 1 ...
EvaluateDone ==
    /\ phase = "evaluate"
    /\ result' = "loaded"
    /\ phase' = "destroy"
    /\ UNCHANGED <<imports, loads, frees, map, todo, kids>>

\* ... or Evaluate returns no value, ...
EvaluateFails ==
    /\ phase = "evaluate"
    /\ phase' = "failed"
    /\ UNCHANGED <<imports, result, loads, frees, map, todo, kids>>

\* ... or the promise is pending, and esm_init stays in its busy loop: nothing settles it.
EvaluatePending ==
    /\ phase = "evaluate"
    /\ phase' = "spin"
    /\ UNCHANGED <<imports, result, loads, frees, map, todo, kids>>

\* free(path), the entry module's; esm_init returns 0.
FreePath ==
    /\ phase = "failed"
    /\ Free(1)
    /\ result' = "failed"
    /\ phase' = "destroy"
    /\ UNCHANGED <<imports, loads, map, todo, kids>>

(* esm_destroy: free and erase each entry, in the order of the hash table. *)
DestroyEntry(h) ==
    /\ phase = "destroy" /\ h \in DOMAIN map
    /\ Free(map[h])
    /\ map' = [x \in DOMAIN map \ {h} |-> map[x]]
    /\ UNCHANGED <<imports, phase, result, loads, todo, kids>>

DestroyDone ==
    /\ phase = "destroy" /\ DOMAIN map = {}
    /\ phase' = "end"
    /\ UNCHANGED <<imports, result, loads, frees, map, todo, kids>>
-----------------------------------------------------------------------------
Next ==
    \/ NoArgument \/ CompileEntry \/ RejectEntry \/ MissingFile
    \/ CompileImport \/ RejectImport \/ Descend \/ StackOverflow \/ Linked
    \/ EvaluateDone \/ EvaluateFails \/ EvaluatePending \/ FreePath
    \/ (\E h \in DOMAIN map : DestroyEntry(h)) \/ DestroyDone

Spec == Init /\ [][Next]_vars
-----------------------------------------------------------------------------
(* Properties. *)

\* Types of the loader's variables.
TypeOK ==
    /\ imports \in [Files -> ImportLists]
    /\ phase \in Phases
    /\ result \in {"none", "loaded", "failed"}
    /\ loads \in Seq([file : Files, hash : 0 .. MaxLoads])
    /\ Len(loads) <= MaxLoads
    /\ frees \in [1 .. Len(loads) -> Nat]
    /\ DOMAIN map \subseteq 1 .. MaxLoads
    /\ \A h \in DOMAIN map : map[h] \in 1 .. Len(loads)
    /\ todo \in Seq(1 .. Len(loads))
    /\ kids \in Seq(1 .. Len(loads))

\* find(referer->GetIdentityHash()) and its like for import.meta never miss:
\* it->second is used without a test for end(), for every module that V8
\* knows, and its path is not freed.
ReferrerFound ==
    phase \in {"link", "evaluate", "spin"} =>
        \A i \in DOMAIN loads :
            /\ loads[i].hash \in DOMAIN map
            /\ frees[map[loads[i].hash]] = 0

\* An older module has the hash of this load's.
Shadowed(i) == \E j \in 1 .. i - 1 : loads[j].hash = loads[i].hash

\* What is freed when the program has come to its end, however the load went: a path
\* that is in the map once, and the entry module's once more if the load failed, in
\* the map or not.  A path that did not get into the map leaks: its file did not
\* compile, or it is shadowed.
PathsFreed ==
    phase = "end" =>
        \A i \in DOMAIN loads :
            frees[i] = (IF loads[i].hash = NoHash \/ Shadowed(i) THEN 0 ELSE 1)
                       + (IF i = 1 /\ result = "failed" THEN 1 ELSE 0)

\* A file is compiled, and so evaluated, once for each chain of imports that
\* leads to it: nothing looks for the module of a path that is loaded.
Chains ==
    {p \in UNION {[1 .. n -> Files] : n \in 1 .. Cardinality(Files)} :
        /\ p[1] = Entry
        /\ \A i \in 1 .. Len(p) - 1 : \E j \in DOMAIN imports[p[i]] : imports[p[i]][j] = p[i + 1]}
OneLoadPerChain ==
    phase = "evaluate" /\ (\A i \in DOMAIN loads : ~Shadowed(i)) =>
        \A f \in Files : Cardinality({i \in DOMAIN loads : loads[i].file = f})
                           = Cardinality({p \in Chains : p[Len(p)] = f})

\* Files that each import one of them, the entry module among them: their imports
\* run into a cycle.
Endless(S) == Entry \in S /\ \A f \in S : \E j \in DOMAIN imports[f] : imports[f][j] \in S

\* A program whose imports run into a cycle is never evaluated, legal as it is: the
\* callback compiles the files of the cycle anew until a load fails.
CyclesFail ==
    phase = "evaluate" /\ (\A i \in DOMAIN loads : ~Shadowed(i)) =>
        \A S \in SUBSET Files : ~Endless(S)

\* "Error: fail to init es module" (src/main.cc:34): a failed load is reported
\* and the program goes on to its orderly end, so that nothing is freed twice.
FreedOnce == \A i \in DOMAIN loads : frees[i] <= 1
=============================================================================
