----------------------------- MODULE EioProofs -----------------------------
(***************************************************************************)
(* The memory of the file requests is sound for any number of requests and  *)
(* addresses, whichever free block the allocator returns.                   *)
(***************************************************************************)
EXTENDS Eio, TLAPS

-----------------------------------------------------------------------------
(* The inductive invariant. *)

\* No two pointers of a request are to one block.
Apart(r) ==
    /\ ptr[r][0] = ptr[r][1] => ptr[r][0] = NULL
    /\ errbuf[r] # NULL => errbuf[r] \notin {ptr[r][0], ptr[r][1]}
    /\ {ptr[r][0], ptr[r][1], errbuf[r]} \intersect bases[r] = {}

\* The pointers of a request that its operation has yet to see are those it
\* expects, and a request that is free has none.
Shape(r) ==
    /\ stage[r] = "none" => Held(r) = {}
    /\ stage[r] = "queued" =>
          /\ errbuf[r] = NULL /\ errnum[r] = FALSE
          /\ op[r] \in OnePtrOps \union TwoPtrOps \union VectorOps <=> ptr[r][0] # NULL
          /\ op[r] \in TwoPtrOps <=> ptr[r][1] # NULL
    /\ op[r] \notin VectorOps \/ errnum[r] => bases[r] = {}
    /\ stage[r] # "queued" /\ errnum[r] => stage[r] # "none" /\ errbuf[r] # NULL
    /\ stage[r] \in {"worked", "settled"} /\ op[r] = "read" /\ ~errnum[r] => ptr[r][0] # NULL

\* A block of a request is malloc's, or it is the DIR of an opendir that is
\* over.
Kind(r) ==
    \A b \in Held(r) :
        \/ heap[b] = "data"
        \/ heap[b] = "dir" /\ op[r] = "opendir" /\ ~errnum[r] /\ stage[r] # "queued"

Separate == \A r, s \in Reqs : r # s => Held(r) \intersect Held(s) = {}

Sound(r) == Apart(r) /\ Shape(r) /\ Kind(r)

Inv ==
    /\ TypeOK
    /\ \A r \in Reqs : Sound(r)
    /\ Separate
    /\ NothingLost
    /\ FreesMatch

LEMMA OpsApart ==
    /\ FdOps \intersect (OnePtrOps \union TwoPtrOps \union VectorOps) = {}
    /\ OnePtrOps \intersect (TwoPtrOps \union VectorOps) = {}
    /\ TwoPtrOps \intersect VectorOps = {}
BY DEF FdOps, OnePtrOps, TwoPtrOps, VectorOps

\* The invariant says at least what the properties say.
LEMMA InvSuffices == Inv => NoDangling /\ NothingLost /\ FreesMatch /\ CallbackReads
<1> SUFFICES ASSUME Inv PROVE NoDangling /\ CallbackReads
  BY DEF Inv
<1>1. NoDangling
  BY NullAssumption DEF Inv, TypeOK, Sound, Apart, Kind, Separate, NoDangling, Held, Pointers
<1>2. CallbackReads
  <2> SUFFICES ASSUME NEW r \in Reqs, stage[r] = "worked"
        PROVE /\ errnum[r] => errbuf[r] # NULL /\ heap[errbuf[r]] = "data"
              /\ op[r] = "read" /\ ~errnum[r] => ptr[r][0] # NULL /\ heap[ptr[r][0]] = "data"
    BY DEF CallbackReads
  <2>1. Sound(r)
    BY DEF Inv
  <2>2. errnum[r] => errbuf[r] # NULL
    BY <2>1 DEF Sound, Shape
  <2>3. op[r] = "read" /\ ~errnum[r] => ptr[r][0] # NULL
    BY <2>1 DEF Sound, Shape
  <2>4. errnum[r] => heap[errbuf[r]] = "data"
    BY <2>1, <2>2 DEF Sound, Kind, Held
  <2>5. op[r] = "read" /\ ~errnum[r] => heap[ptr[r][0]] = "data"
    BY <2>1, <2>3 DEF Sound, Kind, Held
  <2> QED BY <2>2, <2>3, <2>4, <2>5
<1> QED BY <1>1, <1>2

LEMMA InitInv == Init => Inv
<1> SUFFICES ASSUME Init PROVE Inv
  OBVIOUS
<1>1. TypeOK
  BY DEF Init, TypeOK, Pointers, Ops, FdOps
<1>2. ASSUME NEW r \in Reqs PROVE Held(r) = {} /\ Sound(r)
  BY DEF Init, Sound, Apart, Shape, Kind, Held, VectorOps
<1>3. Separate
  BY <1>2 DEF Separate
<1>4. NothingLost /\ FreesMatch
  BY DEF Init, NothingLost, FreesMatch
<1> QED BY <1>1, <1>2, <1>3, <1>4 DEF Inv

-----------------------------------------------------------------------------
(* Frame: what a step that is about request r leaves of the others. *)

\* Only r's fields change; the blocks that r gains were unused, and only r's
\* blocks are freed.
OnlyBlocksOf(r) ==
    /\ \A s \in Reqs \ {r} :
          /\ stage'[s] = stage[s] /\ op'[s] = op[s] /\ ptr'[s] = ptr[s]
          /\ bases'[s] = bases[s] /\ errnum'[s] = errnum[s] /\ errbuf'[s] = errbuf[s]
    /\ \A b \in Blocks : heap'[b] # heap[b] => heap[b] = "free" \/ b \in Held(r)
    /\ \A b \in Held(r)' : b \in Held(r) \/ (b \in Blocks /\ heap[b] = "free")

LEMMA Frame ==
    ASSUME Inv, NEW r \in Reqs, OnlyBlocksOf(r), TypeOK', Sound(r)',
           lost \subseteq lost',
           \A b \in Blocks : heap'[b] # "free" =>
              b \in lost' \/ b \in Held(r)' \/ (heap[b] # "free" /\ b \notin Held(r)),
           misfreed' \subseteq misfreed \union {"opendir"}
    PROVE  Inv'
<1> DEFINE Others == Reqs \ {r}
<1>1. ASSUME NEW s \in Others PROVE Held(s)' = Held(s)
  BY DEF OnlyBlocksOf, Held
<1>2. ASSUME NEW s \in Others, NEW b \in Held(s) PROVE b \in Blocks /\ heap[b] # "free" /\ heap'[b] = heap[b]
  <2>1. b \in Blocks
    BY DEF Inv, TypeOK, Held, Pointers
  <2>2. heap[b] # "free"
    BY DEF Inv, Sound, Kind
  <2>3. b \notin Held(r)
    BY DEF Inv, Separate
  <2> QED BY <2>1, <2>2, <2>3 DEF OnlyBlocksOf
<1>3. ASSUME NEW s \in Others PROVE Sound(s)'
  <2>1. Sound(s)
    BY DEF Inv
  <2>2. Apart(s)'
    BY <2>1 DEF Sound, Apart, OnlyBlocksOf
  <2>3. Shape(s)'
    BY <2>1, <1>1 DEF Sound, Shape, OnlyBlocksOf
  <2>4. Kind(s)'
    BY <2>1, <1>1, <1>2 DEF Sound, Kind, OnlyBlocksOf
  <2> QED BY <2>2, <2>3, <2>4 DEF Sound
<1>4. Separate'
  <2> SUFFICES ASSUME NEW s \in Reqs, NEW t \in Reqs, s # t
        PROVE Held(s)' \intersect Held(t)' = {}
    BY DEF Separate
  <2>1. CASE s # r /\ t # r
    BY <2>1, <1>1 DEF Inv, Separate
  <2>2. ASSUME NEW u \in Others PROVE Held(r)' \intersect Held(u)' = {}
    BY <2>2, <1>1, <1>2 DEF Inv, Separate, OnlyBlocksOf
  <2> QED BY <2>1, <2>2
<1>5. NothingLost'
  <2> SUFFICES ASSUME NEW b \in Blocks, heap'[b] # "free"
        PROVE b \in lost' \/ \E s \in Reqs : b \in Held(s)'
    BY DEF NothingLost
  <2>1. CASE b \in lost' \/ b \in Held(r)'
    BY <2>1
  <2>2. CASE heap[b] # "free" /\ b \notin Held(r)
    <3>1. b \in lost \/ \E s \in Others : b \in Held(s)
      BY <2>2 DEF Inv, NothingLost
    <3> QED BY <3>1, <1>1
  <2> QED BY <2>1, <2>2
<1>6. FreesMatch'
  BY DEF Inv, FreesMatch
<1> QED BY <1>3, <1>4, <1>5, <1>6 DEF Inv

-----------------------------------------------------------------------------
(* Issuing a request. *)

LEMMA QueueInv ==
    ASSUME Inv, NEW r \in Reqs, NEW o \in Ops, NEW a \in Pointers, NEW b \in Pointers,
           NEW B \in SUBSET Blocks, Queue(r, o, Two(a, b), B),
           ({a, b} \ {NULL}) \union B \subseteq Unused,
           a = b => a = NULL, {a, b} \intersect B = {},
           o \in OnePtrOps \union TwoPtrOps \union VectorOps <=> a # NULL,
           o \in TwoPtrOps <=> b # NULL,
           o \notin VectorOps => B = {}
    PROVE  Inv'
<1> DEFINE New == ({a, b} \ {NULL}) \union B
<1>0. /\ NULL \notin Blocks
      /\ TypeOK
  BY NullAssumption DEF Inv
<1>1. /\ ptr'[r][0] = a /\ ptr'[r][1] = b /\ bases'[r] = B /\ errbuf'[r] = NULL
      /\ stage'[r] = "queued" /\ op'[r] = o /\ errnum'[r] = FALSE
  BY <1>0 DEF Queue, TypeOK, Two
<1>2. Held(r)' = New
  BY <1>1 DEF Held
<1>3. Held(r) = {}
  BY DEF Inv, Sound, Shape, Queue
<1>4. \A x \in Blocks : heap'[x] = IF x \in New THEN "data" ELSE heap[x]
  BY <1>0 DEF Queue, Two
<1>5. TypeOK'
  <2>1. Two(a, b) \in [0 .. 1 -> Pointers]
    BY DEF Two
  <2>2. NULL \in Pointers
    BY DEF Pointers
  <2>3. heap' \in [Blocks -> {"free", "data", "dir"}]
    BY <1>0 DEF TypeOK, Queue
  <2> QED BY <1>0, <2>1, <2>2, <2>3 DEF TypeOK, Queue
<1>6. Sound(r)'
  <2>1. Apart(r)'
    BY <1>1, <1>0 DEF Apart
  <2>2. Shape(r)'
    BY <1>1, <1>2, <1>0 DEF Shape
  <2>3. Kind(r)'
    BY <1>2, <1>4 DEF Kind, Unused
  <2> QED BY <2>1, <2>2, <2>3 DEF Sound
<1>7. OnlyBlocksOf(r)
  BY <1>0, <1>2, <1>4 DEF OnlyBlocksOf, Queue, TypeOK, Unused
<1>8. \A x \in Blocks : heap'[x] # "free" =>
        x \in Held(r)' \/ (heap[x] # "free" /\ x \notin Held(r))
  BY <1>2, <1>3, <1>4
<1>9. lost' = lost /\ misfreed' = misfreed
  BY DEF Queue
<1>10. /\ lost \subseteq lost'
       /\ misfreed' \subseteq misfreed \union {"opendir"}
       /\ \A x \in Blocks : heap'[x] # "free" =>
             x \in lost' \/ x \in Held(r)' \/ (heap[x] # "free" /\ x \notin Held(r))
  BY <1>8, <1>9
<1> HIDE DEF New
<1> QED BY <1>5, <1>6, <1>7, <1>10, Frame

LEMMA IssueInv ==
    ASSUME Inv, NEW r \in Reqs,
           \/ FsOpen(r) \/ FsRead(r) \/ FsClose(r)
           \/ IssueFd(r) \/ IssueOne(r) \/ IssueTwo(r) \/ IssueVector(r)
    PROVE  Inv'
<1>0. /\ NULL \notin Blocks /\ NULL \in Pointers /\ Unused \subseteq Blocks
      /\ Unused \subseteq Pointers
  BY NullAssumption DEF Pointers, Unused
<1>1. \A o \in FdOps : o \in Ops /\ o \notin OnePtrOps \union TwoPtrOps \union VectorOps
  BY OpsApart DEF Ops
<1>2. \A o \in OnePtrOps : o \in Ops /\ o \notin TwoPtrOps \union VectorOps
  BY OpsApart DEF Ops
<1>3. \A o \in TwoPtrOps : o \in Ops /\ o \notin VectorOps
  BY OpsApart DEF Ops
<1>4. \A o \in VectorOps : o \in Ops /\ o \notin TwoPtrOps
  BY OpsApart DEF Ops
<1>5. ASSUME NEW o \in FdOps, Queue(r, o, Two(NULL, NULL), {}) PROVE Inv'
  BY <1>0, <1>1, <1>5, QueueInv
<1>6. ASSUME NEW o \in OnePtrOps, NEW a \in Unused, Queue(r, o, Two(a, NULL), {}) PROVE Inv'
  BY <1>0, <1>2, <1>6, QueueInv
<1>7. ASSUME NEW o \in TwoPtrOps, NEW a \in Unused, NEW b \in Unused, a # b,
             Queue(r, o, Two(a, b), {})
      PROVE Inv'
  BY <1>0, <1>3, <1>7, QueueInv
<1>8. ASSUME NEW o \in VectorOps, NEW a \in Unused, NEW b \in Unused, a # b,
             Queue(r, o, Two(a, NULL), {b})
      PROVE Inv'
  BY <1>0, <1>4, <1>8, QueueInv
<1>9. "close" \in FdOps /\ "open" \in OnePtrOps /\ "read" \in OnePtrOps
  BY DEF FdOps, OnePtrOps
<1>10. CASE FsOpen(r)
  BY <1>6, <1>9, <1>10 DEF FsOpen
<1>11. CASE FsRead(r)
  BY <1>6, <1>9, <1>11 DEF FsRead
<1>12. CASE FsClose(r)
  BY <1>5, <1>9, <1>12 DEF FsClose
<1>13. CASE IssueFd(r)
  BY <1>5, <1>13 DEF IssueFd
<1>14. CASE IssueOne(r)
  BY <1>6, <1>14 DEF IssueOne
<1>15. CASE IssueTwo(r)
  BY <1>7, <1>15 DEF IssueTwo
<1>16. CASE IssueVector(r)
  BY <1>8, <1>16 DEF IssueVector
<1> QED BY <1>10, <1>11, <1>12, <1>13, <1>14, <1>15, <1>16

-----------------------------------------------------------------------------
(* Performing one. *)

\* What an operation must leave: B is freed, p and N are kept, and between
\* them they are what the request had.
LEMMA EndsInv ==
    ASSUME Inv, NEW r \in Reqs, stage[r] = "queued", NEW err \in BOOLEAN,
           NEW p \in [0 .. 1 -> Pointers], NEW B, NEW N \in SUBSET bases[r],
           Ends(r, err, p, B), bases' = [bases EXCEPT ![r] = N],
           {p[0], p[1]} \subseteq {ptr[r][0], ptr[r][1], NULL},
           p[0] = p[1] => p[0] = NULL,
           B \subseteq Held(r) \union {NULL},
           Held(r) \subseteq B \union N \union {p[0], p[1]},
           B \intersect (N \union ({p[0], p[1]} \ {NULL})) = {},
           err \/ op[r] \notin VectorOps => N = {},
           op[r] = "read" /\ ~err => p[0] # NULL
    PROVE  Inv'
<1> DEFINE Kept == ({p[0], p[1]} \ {NULL}) \union N
<1>0. TypeOK /\ NULL \notin Blocks /\ Sound(r)
  BY NullAssumption DEF Inv
<1>1. /\ ptr'[r] = p /\ bases'[r] = N /\ stage'[r] = "worked" /\ errnum'[r] = err
      /\ op' = op /\ lost' = lost
  BY <1>0 DEF Ends, TypeOK
<1>2. errbuf[r] = NULL
  BY <1>0 DEF Sound, Shape
<1>3. PICK e \in Pointers :
        /\ err = FALSE => e = NULL
        /\ err = TRUE => e \in Unused
        /\ errbuf' = [errbuf EXCEPT ![r] = e]
        /\ heap' = Free(IF err THEN [heap EXCEPT ![e] = "data"] ELSE heap, B)
  <2>1. CASE err = FALSE
    <3>1. errbuf = [errbuf EXCEPT ![r] = NULL]
      BY <1>0, <1>2 DEF TypeOK
    <3> QED BY <2>1, <3>1 DEF Ends, Pointers
  <2>2. CASE err = TRUE
    BY <2>2 DEF Ends, Pointers, Unused
  <2> QED BY <2>1, <2>2
<1>4. errbuf'[r] = e
  BY <1>3, <1>0 DEF TypeOK
<1>5. Held(r) \subseteq Blocks /\ \A x \in Held(r) : heap[x] = "data"
  BY <1>0 DEF Sound, Kind, Held, TypeOK, Pointers
<1>6. e \notin Held(r) /\ e \notin B \ {NULL} /\ (e \in Blocks <=> err = TRUE)
  <2>1. err = TRUE => e \in Blocks /\ heap[e] = "free"
    BY <1>3 DEF Unused
  <2>2. err = TRUE => e \notin Held(r)
    BY <2>1, <1>5
  <2>3. NULL \notin Held(r)
    BY <1>5, <1>0
  <2> QED BY <2>1, <2>2, <2>3, <1>3, <1>0
<1>7. Held(r)' = Kept \union ({e} \ {NULL})
  BY <1>1, <1>4 DEF Held
<1>8. \A x \in Blocks : heap'[x] = IF x \in B THEN "free" ELSE IF x = e THEN "data" ELSE heap[x]
  BY <1>3, <1>6, <1>0 DEF Free, TypeOK
<1>9. Kept \subseteq Held(r)
  BY <1>0 DEF Held
<1>10. TypeOK'
  <2>1. heap' \in [Blocks -> {"free", "data", "dir"}]
    BY <1>3, <1>0 DEF Free, TypeOK, Unused
  <2>2. misfreed' \subseteq Ops
    BY <1>0 DEF Ends, Misfreed, TypeOK
  <2>3. errbuf' \in [Reqs -> Pointers]
    BY <1>3, <1>0 DEF TypeOK
  <2>4. bases' \in [Reqs -> SUBSET Blocks]
    BY <1>0 DEF TypeOK
  <2>5. ptr' \in [Reqs -> [0 .. 1 -> Pointers]]
    BY <1>0 DEF TypeOK, Ends
  <2> QED BY <1>0, <1>1, <2>1, <2>2, <2>3, <2>4, <2>5 DEF TypeOK, Ends
<1>11. Sound(r)'
  <2>1. Apart(r)'
    <3>1. {p[0], p[1]} \intersect N = {}
      BY <1>0 DEF Sound, Apart, TypeOK
    <3>2. e # NULL => e \notin {p[0], p[1]} \union N
      BY <1>6, <1>9
    <3>3. NULL \notin N
      BY <1>0 DEF TypeOK
    <3> QED BY <1>1, <1>4, <3>1, <3>2, <3>3 DEF Apart
  <2>2. Shape(r)'
    BY <1>1, <1>4, <1>6, <1>0 DEF Shape
  <2>3. Kind(r)'
    <3>1. ASSUME NEW x \in Kept PROVE heap'[x] = "data"
      BY <1>8, <1>9, <1>5
    <3>2. e # NULL => heap'[e] = "data"
      BY <1>8, <1>6 DEF Pointers
    <3> QED BY <1>7, <3>1, <3>2 DEF Kind
  <2> QED BY <2>1, <2>2, <2>3 DEF Sound
<1>12. OnlyBlocksOf(r)
  <2>1. \A x \in Blocks : heap'[x] # heap[x] => heap[x] = "free" \/ x \in Held(r)
    BY <1>8, <1>3, <1>0, <1>6 DEF Unused
  <2>2. \A x \in Held(r)' : x \in Held(r) \/ (x \in Blocks /\ heap[x] = "free")
    BY <1>7, <1>9, <1>3 DEF Unused
  <2>3. \A s \in Reqs \ {r} :
          /\ stage'[s] = stage[s] /\ op'[s] = op[s] /\ ptr'[s] = ptr[s]
          /\ bases'[s] = bases[s] /\ errnum'[s] = errnum[s] /\ errbuf'[s] = errbuf[s]
    BY <1>3, <1>0 DEF Ends, TypeOK
  <2> QED BY <2>1, <2>2, <2>3 DEF OnlyBlocksOf
<1>13. \A x \in Blocks : heap'[x] # "free" =>
        x \in Held(r)' \/ (heap[x] # "free" /\ x \notin Held(r))
  BY <1>7, <1>8, <1>6, <1>0
<1>14. misfreed' \subseteq misfreed
  BY <1>5 DEF Ends, Misfreed
<1>15. /\ lost \subseteq lost'
       /\ misfreed' \subseteq misfreed \union {"opendir"}
       /\ \A x \in Blocks : heap'[x] # "free" =>
             x \in lost' \/ x \in Held(r)' \/ (heap[x] # "free" /\ x \notin Held(r))
  BY <1>1, <1>13, <1>14
<1> QED BY <1>10, <1>11, <1>12, <1>15, Frame

\* What is known of a request that its operation is about to see.
LEMMA QueuedFacts ==
    ASSUME Inv, NEW r \in Reqs, stage[r] = "queued"
    PROVE  /\ ptr[r] \in [0 .. 1 -> Pointers] /\ ptr[r][0] \in Pointers /\ ptr[r][1] \in Pointers
           /\ NULL \in Pointers /\ bases[r] \in SUBSET Blocks /\ NULL \notin bases[r]
           /\ bases = [bases EXCEPT ![r] = bases[r]]
           /\ ptr[r][0] = ptr[r][1] => ptr[r][0] = NULL
           /\ {ptr[r][0], ptr[r][1]} \intersect bases[r] = {}
           /\ Held(r) = ({ptr[r][0], ptr[r][1]} \ {NULL}) \union bases[r]
           /\ op[r] \notin VectorOps => bases[r] = {}
           /\ op[r] \in OnePtrOps => ptr[r][0] # NULL /\ ptr[r][1] = NULL
           /\ op[r] \in VectorOps => ptr[r][1] = NULL
           /\ op[r] \in TwoPtrOps => ptr[r][0] # NULL /\ ptr[r][1] # NULL
<1>1. TypeOK /\ NULL \notin Blocks /\ Apart(r) /\ Shape(r)
  BY NullAssumption DEF Inv, Sound
<1>2. /\ ptr[r] \in [0 .. 1 -> Pointers] /\ NULL \in Pointers
      /\ bases[r] \in SUBSET Blocks /\ bases = [bases EXCEPT ![r] = bases[r]]
  BY <1>1 DEF TypeOK, Pointers
<1>3. errbuf[r] = NULL
  BY <1>1 DEF Shape
<1>4. Held(r) = ({ptr[r][0], ptr[r][1]} \ {NULL}) \union bases[r]
  BY <1>3 DEF Held
<1>5. /\ op[r] \notin VectorOps => bases[r] = {}
      /\ op[r] \in OnePtrOps => ptr[r][0] # NULL /\ ptr[r][1] = NULL
      /\ op[r] \in VectorOps => ptr[r][1] = NULL
      /\ op[r] \in TwoPtrOps => ptr[r][0] # NULL /\ ptr[r][1] # NULL
  BY <1>1, OpsApart DEF Shape
<1> QED BY <1>1, <1>2, <1>4, <1>5 DEF Apart

LEMMA TakesNothingInv ==
    ASSUME Inv, NEW r \in Reqs, stage[r] = "queued", NEW err \in BOOLEAN,
           TakesNothing(r, err), op[r] \notin VectorOps
    PROVE  Inv'
<1>1. Ends(r, err, ptr[r], {}) /\ bases' = bases
  BY DEF TakesNothing
<1>2. op[r] = "read" => ptr[r][0] # NULL
  BY QueuedFacts DEF OnePtrOps
<1> QED BY <1>1, <1>2, QueuedFacts, EndsInv

LEMMA FreesOneInv ==
    ASSUME Inv, NEW r \in Reqs, stage[r] = "queued", NEW err \in BOOLEAN,
           FreesOne(r, err), op[r] \notin VectorOps, err \/ op[r] # "read"
    PROVE  Inv'
<1> DEFINE p == Cleared(r, 0)
           B == {ptr[r][0]}
<1>1. Ends(r, err, p, B) /\ bases' = bases
  BY DEF FreesOne
<1>2. p \in [0 .. 1 -> Pointers] /\ p[0] = NULL /\ p[1] = ptr[r][1]
  BY QueuedFacts DEF Cleared
<1>3. B \subseteq Held(r) \union {NULL} /\ Held(r) \subseteq B \union {p[0], p[1]}
  BY <1>2, QueuedFacts
<1>4. B \intersect ({p[0], p[1]} \ {NULL}) = {} /\ bases[r] = {}
  BY <1>2, QueuedFacts
<1>5. /\ {p[0], p[1]} \subseteq {ptr[r][0], ptr[r][1], NULL}
      /\ p[0] = p[1] => p[0] = NULL
      /\ op[r] = "read" /\ ~err => p[0] # NULL
      /\ bases' = [bases EXCEPT ![r] = bases[r]]
      /\ err \/ op[r] \notin VectorOps => bases[r] = {}
  BY <1>1, <1>2, <1>4, QueuedFacts
<1>6. /\ B \intersect (bases[r] \union ({p[0], p[1]} \ {NULL})) = {}
      /\ Held(r) \subseteq B \union bases[r] \union {p[0], p[1]}
      /\ bases[r] \in SUBSET bases[r]
  BY <1>3, <1>4
<1>7. Ends(r, err, p, B) /\ p \in [0 .. 1 -> Pointers] /\ B \subseteq Held(r) \union {NULL}
  BY <1>1, <1>2, <1>3
<1> HIDE DEF p, B
<1> QED BY <1>5, <1>6, <1>7, EndsInv

LEMMA FreesBothInv ==
    ASSUME Inv, NEW r \in Reqs, stage[r] = "queued", NEW err \in BOOLEAN,
           FreesBoth(r, err), op[r] \notin VectorOps, op[r] # "read"
    PROVE  Inv'
<1> DEFINE p == Two(NULL, NULL)
           B == {ptr[r][0], ptr[r][1]}
<1>1. Ends(r, err, p, B) /\ bases' = [bases EXCEPT ![r] = bases[r]]
  BY QueuedFacts DEF FreesBoth
<1>2. p \in [0 .. 1 -> Pointers] /\ p[0] = NULL /\ p[1] = NULL
  BY QueuedFacts DEF Two
<1>3. /\ B \subseteq Held(r) \union {NULL} /\ Held(r) \subseteq B \union {p[0], p[1]}
      /\ bases[r] = {}
  BY <1>2, QueuedFacts
<1>4. /\ {p[0], p[1]} \subseteq {ptr[r][0], ptr[r][1], NULL}
      /\ p[0] = p[1] => p[0] = NULL
      /\ B \intersect (bases[r] \union ({p[0], p[1]} \ {NULL})) = {}
      /\ Held(r) \subseteq B \union bases[r] \union {p[0], p[1]}
      /\ bases[r] \in SUBSET bases[r]
  BY <1>2, <1>3
<1> HIDE DEF p, B
<1> QED BY <1>1, <1>2, <1>3, <1>4, EndsInv

LEMMA LstatInv ==
    ASSUME Inv, NEW r \in Reqs, stage[r] = "queued", NEW err \in BOOLEAN,
           eio_lstat(r, err), op[r] = "lstat"
    PROVE  Inv'
<1> DEFINE p == Two(IF err THEN NULL ELSE ptr[r][1], NULL)
           B == IF err THEN {ptr[r][0], ptr[r][1]} ELSE {ptr[r][0]}
<1>0. op[r] \in TwoPtrOps /\ op[r] \notin VectorOps
  BY DEF TwoPtrOps, VectorOps
<1>1. Ends(r, err, p, B) /\ bases' = [bases EXCEPT ![r] = bases[r]]
  BY QueuedFacts DEF eio_lstat
<1>2. /\ p \in [0 .. 1 -> Pointers] /\ p[1] = NULL
      /\ p[0] = IF err THEN NULL ELSE ptr[r][1]
  BY QueuedFacts DEF Two
<1>3. /\ B \subseteq Held(r) \union {NULL} /\ Held(r) \subseteq B \union {p[0], p[1]}
      /\ bases[r] = {} /\ B \intersect ({p[0], p[1]} \ {NULL}) = {}
      /\ {p[0], p[1]} \subseteq {ptr[r][0], ptr[r][1], NULL}
      /\ p[0] = p[1] => p[0] = NULL
  BY <1>0, <1>2, QueuedFacts
<1>4. /\ B \intersect (bases[r] \union ({p[0], p[1]} \ {NULL})) = {}
      /\ Held(r) \subseteq B \union bases[r] \union {p[0], p[1]}
      /\ bases[r] \in SUBSET bases[r]
      /\ op[r] = "read" /\ ~err => p[0] # NULL
  BY <1>3
<1> HIDE DEF p, B
<1> QED BY <1>1, <1>2, <1>3, <1>4, EndsInv

LEMMA FillsVectorInv ==
    ASSUME Inv, NEW r \in Reqs, stage[r] = "queued", NEW err \in BOOLEAN,
           FillsVector(r, err), op[r] \in VectorOps
    PROVE  Inv'
<1> DEFINE p == IF err THEN Cleared(r, 0) ELSE ptr[r]
           B == IF err THEN bases[r] \union {ptr[r][0]} ELSE {}
           N == IF err THEN {} ELSE bases[r]
<1>1. Ends(r, err, p, B) /\ bases' = [bases EXCEPT ![r] = N] /\ N \in SUBSET bases[r]
  BY QueuedFacts DEF FillsVector
<1>2. /\ p \in [0 .. 1 -> Pointers] /\ p[1] = NULL
      /\ p[0] = IF err THEN NULL ELSE ptr[r][0]
  BY QueuedFacts DEF Cleared
<1>3. /\ B \subseteq Held(r) \union {NULL} /\ Held(r) \subseteq B \union N \union {p[0], p[1]}
      /\ B \intersect (N \union ({p[0], p[1]} \ {NULL})) = {}
      /\ {p[0], p[1]} \subseteq {ptr[r][0], ptr[r][1], NULL}
      /\ err \/ op[r] \notin VectorOps => N = {}
      /\ p[0] = p[1] => p[0] = NULL
      /\ op[r] = "read" /\ ~err => p[0] # NULL
  BY <1>2, QueuedFacts DEF VectorOps
<1> HIDE DEF p, B, N
<1> QED BY <1>1, <1>2, <1>3, EndsInv

\* opendir: the DIR is in ptr[0], and the path is freed.
LEMMA OpendirInv ==
    ASSUME Inv, NEW r \in Reqs, stage[r] = "queued", NEW err \in BOOLEAN,
           eio_opendir(r, err), op[r] = "opendir"
    PROVE  Inv'
<1>0. op[r] \in OnePtrOps /\ op[r] \notin VectorOps /\ op[r] # "read" /\ op[r] \notin TwoPtrOps
  BY DEF OnePtrOps, TwoPtrOps, VectorOps
<1>1. CASE err = TRUE
  BY <1>0, <1>1, FreesOneInv DEF eio_opendir
<1>2. CASE err = FALSE
  <2>1. PICK d \in Unused :
          /\ stage' = [stage EXCEPT ![r] = "worked"]
          /\ ptr' = [ptr EXCEPT ![r][0] = d]
          /\ heap' = Free([heap EXCEPT ![d] = "dir"], {ptr[r][0]})
          /\ misfreed' = misfreed \union Misfreed(r, {ptr[r][0]})
          /\ UNCHANGED <<op, bases, errnum, errbuf, lost>>
    BY <1>2 DEF eio_opendir
  <2>2. TypeOK /\ NULL \notin Blocks /\ Sound(r)
    BY NullAssumption DEF Inv
  <2>3. /\ bases[r] = {} /\ ptr[r][0] # NULL /\ ptr[r][1] = NULL /\ errbuf[r] = NULL
        /\ errnum[r] = FALSE /\ Held(r) = {ptr[r][0]} /\ ptr[r][0] \in Blocks
        /\ heap[ptr[r][0]] = "data"
    <3>1. /\ bases[r] = {} /\ ptr[r][0] # NULL /\ ptr[r][1] = NULL
          /\ Held(r) = {ptr[r][0]} /\ ptr[r][0] \in Blocks
      BY <1>0, QueuedFacts DEF Pointers
    <3>2. errbuf[r] = NULL /\ errnum[r] = FALSE
      BY <2>2 DEF Sound, Shape
    <3>3. heap[ptr[r][0]] = "data"
      BY <2>2, <3>1 DEF Sound, Kind
    <3> QED BY <3>1, <3>2, <3>3
  <2>4. /\ d \in Blocks /\ heap[d] = "free" /\ d # ptr[r][0] /\ d # NULL
    BY <2>2, <2>3 DEF Unused
  <2>5. /\ ptr'[r][0] = d /\ ptr'[r][1] = NULL /\ bases'[r] = {} /\ errbuf'[r] = NULL
        /\ stage'[r] = "worked" /\ op'[r] = op[r] /\ errnum'[r] = FALSE
    BY <2>1, <2>2, <2>3 DEF TypeOK
  <2>6. Held(r)' = {d}
    BY <2>4, <2>5 DEF Held
  <2>7. \A x \in Blocks : heap'[x] = IF x = ptr[r][0] THEN "free"
                                    ELSE IF x = d THEN "dir" ELSE heap[x]
    BY <2>1, <2>2, <2>4 DEF Free, TypeOK
  <2>8. misfreed' = misfreed
    BY <2>1, <2>3 DEF Misfreed
  <2>9. TypeOK'
    <3>1. heap' \in [Blocks -> {"free", "data", "dir"}]
      BY <2>1, <2>2 DEF Free, TypeOK
    <3>2. ptr' \in [Reqs -> [0 .. 1 -> Pointers]]
      BY <2>1, <2>2, <2>4 DEF TypeOK, Pointers
    <3> QED BY <2>1, <2>2, <2>8, <3>1, <3>2 DEF TypeOK
  <2>10. Sound(r)'
    <3>1. Apart(r)'
      BY <2>4, <2>5 DEF Apart
    <3>2. Shape(r)'
      BY <1>0, <2>5 DEF Shape
    <3>3. Kind(r)'
      BY <2>4, <2>5, <2>6, <2>7 DEF Kind
    <3> QED BY <3>1, <3>2, <3>3 DEF Sound
  <2>11. OnlyBlocksOf(r)
    <3>1. \A x \in Blocks : heap'[x] # heap[x] => heap[x] = "free" \/ x \in Held(r)
      BY <2>3, <2>4, <2>7
    <3>2. \A x \in Held(r)' : x \in Held(r) \/ (x \in Blocks /\ heap[x] = "free")
      BY <2>4, <2>6
    <3>3. \A s \in Reqs \ {r} :
            /\ stage'[s] = stage[s] /\ op'[s] = op[s] /\ ptr'[s] = ptr[s]
            /\ bases'[s] = bases[s] /\ errnum'[s] = errnum[s] /\ errbuf'[s] = errbuf[s]
      BY <2>1, <2>2 DEF TypeOK
    <3> QED BY <3>1, <3>2, <3>3 DEF OnlyBlocksOf
  <2>12. /\ lost \subseteq lost'
         /\ misfreed' \subseteq misfreed \union {"opendir"}
         /\ \A x \in Blocks : heap'[x] # "free" =>
               x \in lost' \/ x \in Held(r)' \/ (heap[x] # "free" /\ x \notin Held(r))
    BY <2>1, <2>3, <2>6, <2>7, <2>8
  <2> QED BY <2>9, <2>10, <2>11, <2>12, Frame
<1> QED BY <1>1, <1>2

LEMMA WorkInv ==
    ASSUME Inv, NEW r \in Reqs, Work(r)
    PROVE  Inv'
<1>1. stage[r] = "queued"
  BY DEF Work
<1>2. PICK err \in BOOLEAN : Operation(r, err)
  BY DEF Work
<1>3. ASSUME op[r] \in FdOps, TakesNothing(r, err) PROVE Inv'
  BY <1>1, <1>3, OpsApart, TakesNothingInv
<1>4. ASSUME op[r] \in OnePtrOps \union TwoPtrOps, op[r] # "read" \/ err, FreesOne(r, err)
      PROVE Inv'
  BY <1>1, <1>4, OpsApart, FreesOneInv
<1>5. ASSUME op[r] \in TwoPtrOps, FreesBoth(r, err) PROVE Inv'
  <2>1. op[r] # "read"
    BY <1>5 DEF TwoPtrOps
  <2> QED BY <1>1, <1>5, <2>1, OpsApart, FreesBothInv
<1>6. ASSUME op[r] \in OnePtrOps, FillsOne(r, err) PROVE Inv'
  <2>1. CASE err
    BY <1>4, <1>6, <2>1 DEF FillsOne
  <2>2. CASE ~err
    BY <1>1, <1>6, <2>2, OpsApart, TakesNothingInv DEF FillsOne
  <2> QED BY <2>1, <2>2
<1>7. ASSUME op[r] \in TwoPtrOps, FillsSecond(r, err) PROVE Inv'
  <2>1. CASE err
    BY <1>5, <1>7, <2>1 DEF FillsSecond
  <2>2. CASE ~err
    <3>1. op[r] # "read"
      BY <1>7 DEF TwoPtrOps
    <3> QED BY <1>4, <1>7, <2>2, <3>1 DEF FillsSecond
  <2> QED BY <2>1, <2>2
<1>8. ASSUME op[r] \in VectorOps, FillsVector(r, err) PROVE Inv'
  BY <1>1, <1>8, FillsVectorInv
<1>9. CASE op[r] \in FdOps
  <2>1. TakesNothing(r, err)
    BY <1>2, <1>9 DEF Operation, FdOps, eio_close, eio_fchmod, eio_fchown, eio_fdatasync,
         eio_fsync, eio_ftruncate
  <2> QED BY <1>3, <1>9, <2>1
<1>10. CASE op[r] \in {"access", "chmod", "chown", "futimes", "lchown", "mkdir", "open",
                       "rmdir", "truncate", "unlink"}
  <2>1. FreesOne(r, err) /\ op[r] # "read" /\ op[r] \in OnePtrOps
    BY <1>2, <1>10 DEF Operation, OnePtrOps, eio_access, eio_chmod, eio_chown, eio_futimes,
         eio_lchown, eio_mkdir, eio_open, eio_rmdir, eio_truncate, eio_unlink
  <2> QED BY <1>4, <2>1
<1>11. CASE op[r] \in {"fstat", "mkdtemp", "read", "write"}
  <2>1. FillsOne(r, err) /\ op[r] \in OnePtrOps
    BY <1>2, <1>11 DEF Operation, OnePtrOps, eio_fstat, eio_mkdtemp, eio_read, eio_write
  <2> QED BY <1>6, <2>1
<1>12. CASE op[r] = "opendir"
  <2>1. eio_opendir(r, err)
    BY <1>2, <1>12 DEF Operation
  <2> QED BY <1>1, <1>12, <2>1, OpendirInv
<1>13. CASE op[r] \in {"lutimes", "link", "rename", "symlink", "utimes"}
  <2>1. FreesBoth(r, err) /\ op[r] \in TwoPtrOps
    BY <1>2, <1>13 DEF Operation, TwoPtrOps, eio_lutimes, eio_link, eio_rename, eio_symlink,
         eio_utimes
  <2> QED BY <1>5, <2>1
<1>14. CASE op[r] \in {"stat", "readlink", "realpath"}
  <2>1. FillsSecond(r, err) /\ op[r] \in TwoPtrOps
    BY <1>2, <1>14 DEF Operation, TwoPtrOps, eio_stat, eio_readlink, eio_realpath
  <2> QED BY <1>7, <2>1
<1>15. CASE op[r] = "lstat"
  <2>1. eio_lstat(r, err)
    BY <1>2, <1>15 DEF Operation
  <2> QED BY <1>1, <1>15, <2>1, LstatInv
<1>16. CASE op[r] \in VectorOps
  <2>1. FillsVector(r, err)
    BY <1>2, <1>16 DEF Operation, VectorOps, eio_readv, eio_writev
  <2> QED BY <1>8, <1>16, <2>1
<1>17. op[r] \in Ops
  BY DEF Inv, TypeOK
<1> QED BY <1>9, <1>10, <1>11, <1>12, <1>13, <1>14, <1>15, <1>16, <1>17
      DEF Ops, OnePtrOps, TwoPtrOps

-----------------------------------------------------------------------------
(* Calling back and freeing. *)

LEMMA CallbackInv ==
    ASSUME Inv, NEW r \in Reqs, Callback(r)
    PROVE  Inv'
<1>1. /\ stage[r] = "worked" /\ stage' = [stage EXCEPT ![r] = "settled"]
      /\ UNCHANGED <<heap, op, ptr, bases, errnum, errbuf, lost, misfreed>>
  BY DEF Callback
<1>2. TypeOK'
  BY <1>1 DEF Inv, TypeOK
<1>3. Held(r)' = Held(r)
  BY <1>1 DEF Held
<1>4. Sound(r)'
  BY <1>1, <1>3 DEF Inv, TypeOK, Sound, Apart, Shape, Kind
<1>5. OnlyBlocksOf(r)
  BY <1>1, <1>3 DEF OnlyBlocksOf, Inv, TypeOK
<1>6. /\ lost \subseteq lost'
      /\ misfreed' \subseteq misfreed \union {"opendir"}
      /\ \A x \in Blocks : heap'[x] # "free" =>
            x \in lost' \/ x \in Held(r)' \/ (heap[x] # "free" /\ x \notin Held(r))
  BY <1>1, <1>3
<1> QED BY <1>2, <1>4, <1>5, <1>6, Frame

LEMMA FreeReqInv ==
    ASSUME Inv, NEW r \in Reqs, FreeReq(r)
    PROVE  Inv'
<1> DEFINE B == {ptr[r][0], ptr[r][1], errbuf[r]} \ {NULL}
<1>0. TypeOK /\ NULL \notin Blocks /\ Sound(r) /\ NULL \in Pointers
  BY NullAssumption DEF Inv, Pointers
<1>1. /\ stage[r] = "settled"
      /\ stage' = [stage EXCEPT ![r] = "none"]
      /\ heap' = Free(heap, B)
      /\ misfreed' = misfreed \union Misfreed(r, B)
      /\ ptr' = [ptr EXCEPT ![r] = Two(NULL, NULL)]
      /\ errbuf' = [errbuf EXCEPT ![r] = NULL]
      /\ bases' = [bases EXCEPT ![r] = {}]
      /\ lost' = IF op[r] \in VectorOps /\ ~errnum[r] THEN lost \union bases[r] ELSE lost
      /\ op' = [op EXCEPT ![r] = "close"]
      /\ errnum' = [errnum EXCEPT ![r] = FALSE]
  BY DEF FreeReq
<1>2. Two(NULL, NULL) \in [0 .. 1 -> Pointers] /\ Two(NULL, NULL)[0] = NULL /\ Two(NULL, NULL)[1] = NULL
  BY <1>0 DEF Two
<1>3. /\ ptr'[r][0] = NULL /\ ptr'[r][1] = NULL /\ bases'[r] = {} /\ errbuf'[r] = NULL
      /\ stage'[r] = "none" /\ op'[r] = "close" /\ errnum'[r] = FALSE
  BY <1>0, <1>1, <1>2 DEF TypeOK
<1>4. Held(r) = B \union bases[r] /\ Held(r)' = {} /\ B \subseteq Blocks
  BY <1>0, <1>3 DEF Held, TypeOK, Pointers
<1>5. \A x \in Blocks : heap'[x] = IF x \in B THEN "free" ELSE heap[x]
  BY <1>1 DEF Free
<1>6. bases[r] \subseteq lost'
  BY <1>0, <1>1 DEF Sound, Shape
<1>7. misfreed' \subseteq misfreed \union {"opendir"}
  BY <1>0, <1>1, <1>4 DEF Sound, Kind, Misfreed
<1>8. TypeOK'
  <2>1. heap' \in [Blocks -> {"free", "data", "dir"}]
    BY <1>0, <1>1 DEF Free, TypeOK
  <2>2. misfreed' \subseteq Ops /\ "close" \in Ops
    BY <1>0, <1>1 DEF Misfreed, TypeOK, Ops, FdOps
  <2>3. lost' \subseteq Blocks
    BY <1>0, <1>1 DEF TypeOK
  <2> QED BY <1>0, <1>1, <1>2, <2>1, <2>2, <2>3 DEF TypeOK
<1>9. Sound(r)'
  BY <1>3, <1>4 DEF Sound, Apart, Shape, Kind
<1>10. OnlyBlocksOf(r)
  <2>1. \A x \in Blocks : heap'[x] # heap[x] => heap[x] = "free" \/ x \in Held(r)
    BY <1>4, <1>5
  <2>2. \A s \in Reqs \ {r} :
          /\ stage'[s] = stage[s] /\ op'[s] = op[s] /\ ptr'[s] = ptr[s]
          /\ bases'[s] = bases[s] /\ errnum'[s] = errnum[s] /\ errbuf'[s] = errbuf[s]
    BY <1>0, <1>1 DEF TypeOK
  <2> QED BY <1>4, <2>1, <2>2 DEF OnlyBlocksOf
<1>11. /\ lost \subseteq lost'
       /\ \A x \in Blocks : heap'[x] # "free" =>
             x \in lost' \/ x \in Held(r)' \/ (heap[x] # "free" /\ x \notin Held(r))
  BY <1>1, <1>4, <1>5, <1>6
<1> QED BY <1>7, <1>8, <1>9, <1>10, <1>11, Frame

-----------------------------------------------------------------------------
(* The theorems. *)

LEMMA StepInv == Inv /\ [Next]_vars => Inv'
<1> SUFFICES ASSUME Inv, [Next]_vars PROVE Inv'
  OBVIOUS
<1>1. CASE Next
  <2>1. PICK r \in Reqs :
          \/ FsOpen(r) \/ FsRead(r) \/ FsClose(r)
          \/ IssueFd(r) \/ IssueOne(r) \/ IssueTwo(r) \/ IssueVector(r)
          \/ Work(r)
          \/ Callback(r) \/ FreeReq(r)
    BY <1>1 DEF Next
  <2>2. CASE \/ FsOpen(r) \/ FsRead(r) \/ FsClose(r)
             \/ IssueFd(r) \/ IssueOne(r) \/ IssueTwo(r) \/ IssueVector(r)
    BY <2>2, IssueInv
  <2>3. CASE Work(r)
    BY <2>3, WorkInv
  <2>4. CASE Callback(r)
    BY <2>4, CallbackInv
  <2>5. CASE FreeReq(r)
    BY <2>5, FreeReqInv
  <2> QED BY <2>1, <2>2, <2>3, <2>4, <2>5
<1>2. CASE UNCHANGED vars
  <2>1. TypeOK' /\ FreesMatch'
    BY <1>2 DEF vars, Inv, TypeOK, FreesMatch
  <2>2. ASSUME NEW r \in Reqs PROVE Held(r)' = Held(r)
    BY <1>2 DEF vars, Held
  <2>3. ASSUME NEW r \in Reqs PROVE Sound(r)'
    <3>1. Sound(r)
      BY DEF Inv
    <3> QED BY <1>2, <2>2, <3>1 DEF vars, Sound, Apart, Shape, Kind
  <2>4. Separate'
    BY <2>2 DEF Inv, Separate
  <2>5. NothingLost'
    BY <1>2, <2>2 DEF vars, Inv, NothingLost
  <2> QED BY <2>1, <2>3, <2>4, <2>5 DEF Inv
<1> QED BY <1>1, <1>2

LEMMA Invariance == Spec => []Inv
<1>1. Init => Inv
  BY InitInv
<1>2. Inv /\ [Next]_vars => Inv'
  BY StepInv
<1> QED BY <1>1, <1>2, PTL DEF Spec

\* The fields of a request and the heap keep their types.
THEOREM TypeCorrect == Spec => []TypeOK
<1>1. Inv => TypeOK
  BY DEF Inv
<1> QED BY <1>1, Invariance, PTL

\* Whatever an operation frees, moves or keeps, and whichever address malloc
\* gives to others, no pointer left in a request is stale or a second one to
\* the same block: EIO_REQ_FREE frees every block once.
THEOREM PointersLive == Spec => []NoDangling
<1>1. Inv => NoDangling
  BY InvSuffices
<1> QED BY <1>1, Invariance, PTL

\* A request that is freed leaves no block behind, on any path of any
\* operation, but the arrays that readv and writev have succeeded with.
THEOREM NoneLost == Spec => []NothingLost
<1>1. Inv => NothingLost
  BY InvSuffices
<1> QED BY <1>1, Invariance, PTL

\* Only opendir's DIR is given to free() without being malloc's.
THEOREM FreesRight == Spec => []FreesMatch
<1>1. Inv => FreesMatch
  BY InvSuffices
<1> QED BY <1>1, Invariance, PTL

\* The callbacks find the error text and the buffer that they read.
THEOREM CallbacksRead == Spec => []CallbackReads
<1>1. Inv => CallbackReads
  BY InvSuffices
<1> QED BY <1>1, Invariance, PTL
=============================================================================
