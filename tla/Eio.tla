-------------------------------- MODULE Eio --------------------------------
(***************************************************************************)
(* The memory of the file requests of xxx: the pointers that an eio_*      *)
(* operation (xxx/eio/eio.c) receives in req->ptr, frees, moves and leaves  *)
(* behind, the error text of EIO_REQ_SETERR, what the callbacks of xxx/fs   *)
(* read, and what EIO_REQ_FREE releases.  Operations run on several         *)
(* workers and share the allocator, which gives a freed block to any later  *)
(* request.                                                                 *)
(*                                                                         *)
(* The fs functions issue open, read and close; the other operations have   *)
(* no caller yet, and Issue gives them the pointers that their code reads.  *)
(* ptr[2] is never used.  The request structure and the resolver are not    *)
(* among the blocks.                                                        *)
(***************************************************************************)
EXTENDS Naturals

CONSTANTS
    Reqs,           \* requests there are at any time (a bound)
    Blocks,         \* addresses the allocator can return (a bound)
    NULL

ASSUME NullAssumption == NULL \notin Blocks

\* The operations, by the pointers they expect in req->ptr.
FdOps     == {"close", "fchmod", "fchown", "fdatasync", "fsync", "ftruncate"}
OnePtrOps == {"access", "chmod", "chown", "futimes", "lchown", "mkdir", "open",
              "rmdir", "truncate", "unlink", "fstat", "mkdtemp", "read", "write",
              "opendir"}
TwoPtrOps == {"lutimes", "link", "rename", "symlink", "utimes",
              "stat", "lstat", "readlink", "realpath"}
VectorOps == {"readv", "writev"}
FsOps     == {"open", "read", "close"}
Ops == FdOps \union OnePtrOps \union TwoPtrOps \union VectorOps

VARIABLES
    heap,           \* what each address holds: nothing, malloc's block, a DIR
    stage,          \* how far each request is
    op,             \* req->work
    ptr,            \* req->ptr[0] and req->ptr[1]
    bases,          \* the iov_base blocks of the array that ptr[0] points to
    errnum,         \* req->errnum is not zero
    errbuf,         \* req->errbuf
    lost,           \* blocks of the arrays that a vector operation has filled
    misfreed        \* operations that led to free() of what malloc did not give
vars == <<heap, stage, op, ptr, bases, errnum, errbuf, lost, misfreed>>

Pointers == Blocks \union {NULL}
Unused == {b \in Blocks : heap[b] = "free"}

\* The heap h after free() of each block in B.
Free(h, B) == [b \in Blocks |-> IF b \in B THEN "free" ELSE h[b]]

\* The operations at fault if request r now frees B.
Misfreed(r, B) == IF \E b \in B : heap[b] # "data" THEN {op[r]} ELSE {}

Init ==
    /\ heap = [b \in Blocks |-> "free"]
    /\ stage = [r \in Reqs |-> "none"]
    /\ op = [r \in Reqs |-> "close"]
    /\ ptr = [r \in Reqs |-> [i \in 0 .. 1 |-> NULL]]
    /\ bases = [r \in Reqs |-> {}]
    /\ errnum = [r \in Reqs |-> FALSE]
    /\ errbuf = [r \in Reqs |-> NULL]
    /\ lost = {}
    /\ misfreed = {}
-----------------------------------------------------------------------------
(* The main thread issues requests. *)

\* EIO_REQ_ALLOC, the pointers p and B, the promise, and EV_REQ_ADD.
Queue(r, o, p, B) ==
    /\ stage[r] = "none"
    /\ stage' = [stage EXCEPT ![r] = "queued"]
    /\ op' = [op EXCEPT ![r] = o]
    /\ ptr' = [ptr EXCEPT ![r] = p]
    /\ bases' = [bases EXCEPT ![r] = B]
    /\ errnum' = [errnum EXCEPT ![r] = FALSE]
    /\ errbuf' = [errbuf EXCEPT ![r] = NULL]
    /\ heap' = [b \in Blocks |-> IF b \in B \union {p[0], p[1]} THEN "data" ELSE heap[b]]
    /\ UNCHANGED <<lost, misfreed>>

Two(a, b) == [i \in 0 .. 1 |-> IF i = 0 THEN a ELSE b]

FsOpen(r)  == \E a \in Unused : Queue(r, "open", Two(a, NULL), {})
FsRead(r)  == \E a \in Unused : Queue(r, "read", Two(a, NULL), {})
FsClose(r) == Queue(r, "close", Two(NULL, NULL), {})

\* Any other operation, with the pointers it expects.
IssueFd(r)     == \E o \in FdOps \ FsOps : Queue(r, o, Two(NULL, NULL), {})
IssueOne(r)    == \E o \in OnePtrOps \ FsOps, a \in Unused : Queue(r, o, Two(a, NULL), {})
IssueTwo(r)    == \E o \in TwoPtrOps, a, b \in Unused : a # b /\ Queue(r, o, Two(a, b), {})
IssueVector(r) == \E o \in VectorOps, a, b \in Unused : a # b /\ Queue(r, o, Two(a, NULL), {b})
-----------------------------------------------------------------------------
(* A worker performs one.  An operation changes its own request only, and  *)
(* the allocator's state, so that it is one step.                          *)

\* The call ends with or without an error (then EIO_REQ_SETERR allocates the
\* text); the blocks B are freed, and p is left in req->ptr.
Ends(r, err, p, B) ==
    /\ stage' = [stage EXCEPT ![r] = "worked"]
    /\ errnum' = [errnum EXCEPT ![r] = err]
    /\ ptr' = [ptr EXCEPT ![r] = p]
    /\ misfreed' = misfreed \union Misfreed(r, B \ {NULL})
    /\ \/ err = FALSE /\ heap' = Free(heap, B) /\ UNCHANGED errbuf
       \/ err = TRUE /\ \E e \in Unused : /\ heap' = Free([heap EXCEPT ![e] = "data"], B)
                                          /\ errbuf' = [errbuf EXCEPT ![r] = e]
    /\ UNCHANGED <<op, lost>>

\* req->ptr of r with a NULL in place i, and as it is.
Cleared(r, i) == [ptr[r] EXCEPT ![i] = NULL]

-----------------------------------------------------------------------------
(* Faulty variants. *)

\* ptr[0] is freed but not set to NULL.
FreesOneKeeps(r, err) == Ends(r, err, ptr[r], {ptr[r][0]}) /\ UNCHANGED bases

\* The buffer is freed whether or not the call failed.
FillsOneFrees(r, err) == Ends(r, err, Cleared(r, 0), {ptr[r][0]}) /\ UNCHANGED bases

\* The array of a failed vector operation is freed, its blocks are not.
FillsVectorShallow(r, err) ==
    /\ Ends(r, err, IF err THEN Cleared(r, 0) ELSE ptr[r], IF err THEN {ptr[r][0]} ELSE {})
    /\ bases' = [bases EXCEPT ![r] = IF err THEN {} ELSE @]

\* The descriptor is left in req->ptr, where EIO_REQ_FREE looks for blocks.
OpenInPtr(r, err) ==
    Ends(r, err, Two(IF err THEN NULL ELSE "fd", NULL), {ptr[r][0]}) /\ UNCHANGED bases
-----------------------------------------------------------------------------
(* What the operations do with their pointers. *)

TakesNothing(r, err) == Ends(r, err, ptr[r], {}) /\ UNCHANGED bases
FreesOne(r, err) == Ends(r, err, Cleared(r, 0), {ptr[r][0]}) /\ UNCHANGED bases
FreesBoth(r, err) ==
    Ends(r, err, Two(NULL, NULL), {ptr[r][0], ptr[r][1]}) /\ UNCHANGED bases

\* The result is in the block at ptr[0], which is freed on an error.
FillsOne(r, err) ==
    IF err THEN FreesOne(r, err) ELSE TakesNothing(r, err)

\* The path at ptr[0] is freed, and on an error the result at ptr[1] too.
FillsSecond(r, err) == IF err THEN FreesBoth(r, err) ELSE FreesOne(r, err)

\* On an error the blocks of the array and the array are freed.
FillsVector(r, err) ==
    /\ Ends(r, err, IF err THEN Cleared(r, 0) ELSE ptr[r],
            IF err THEN bases[r] \union {ptr[r][0]} ELSE {})
    /\ bases' = [bases EXCEPT ![r] = IF err THEN {} ELSE @]
-----------------------------------------------------------------------------
(* The operations of eio.c. *)

eio_access(r, err)    == FreesOne(r, err)
eio_chmod(r, err)     == FreesOne(r, err)
eio_chown(r, err)     == FreesOne(r, err)
eio_close(r, err)     == TakesNothing(r, err)
eio_fchmod(r, err)    == TakesNothing(r, err)
eio_fchown(r, err)    == TakesNothing(r, err)
eio_fdatasync(r, err) == TakesNothing(r, err)
eio_fstat(r, err)     == FillsOne(r, err)
eio_fsync(r, err)     == TakesNothing(r, err)
eio_ftruncate(r, err) == TakesNothing(r, err)
eio_futimes(r, err)   == FreesOne(r, err)
eio_lchown(r, err)    == FreesOne(r, err)
eio_lutimes(r, err)   == FreesBoth(r, err)
eio_link(r, err)      == FreesBoth(r, err)
\* The result moves to ptr[0].
eio_lstat(r, err)     ==
    Ends(r, err, Two(IF err THEN NULL ELSE ptr[r][1], NULL),
         IF err THEN {ptr[r][0], ptr[r][1]} ELSE {ptr[r][0]}) /\ UNCHANGED bases
eio_mkdir(r, err)     == FreesOne(r, err)
eio_mkdtemp(r, err)   == FillsOne(r, err)
eio_open(r, err)      == FreesOne(r, err)
\* The DIR takes the place of the path.
eio_opendir(r, err)   ==
    \/ err = TRUE /\ FreesOne(r, err)
    \/ err = FALSE /\ \E d \in Unused :
          /\ stage' = [stage EXCEPT ![r] = "worked"]
          /\ ptr' = [ptr EXCEPT ![r][0] = d]
          /\ heap' = Free([heap EXCEPT ![d] = "dir"], {ptr[r][0]})
          /\ misfreed' = misfreed \union Misfreed(r, {ptr[r][0]})
          /\ UNCHANGED <<op, bases, errnum, errbuf, lost>>
eio_read(r, err)      == FillsOne(r, err)
eio_readlink(r, err)  == FillsSecond(r, err)
eio_readv(r, err)     == FillsVector(r, err)
eio_realpath(r, err)  == FillsSecond(r, err)
eio_rename(r, err)    == FreesBoth(r, err)
eio_rmdir(r, err)     == FreesOne(r, err)
eio_stat(r, err)      == FillsSecond(r, err)
eio_symlink(r, err)   == FreesBoth(r, err)
eio_truncate(r, err)  == FreesOne(r, err)
eio_unlink(r, err)    == FreesOne(r, err)
eio_utimes(r, err)    == FreesBoth(r, err)
eio_write(r, err)     == FillsOne(r, err)
eio_writev(r, err)    == FillsVector(r, err)

Operation(r, err) ==
    \/ op[r] = "access"    /\ eio_access(r, err)
    \/ op[r] = "chmod"     /\ eio_chmod(r, err)
    \/ op[r] = "chown"     /\ eio_chown(r, err)
    \/ op[r] = "close"     /\ eio_close(r, err)
    \/ op[r] = "fchmod"    /\ eio_fchmod(r, err)
    \/ op[r] = "fchown"    /\ eio_fchown(r, err)
    \/ op[r] = "fdatasync" /\ eio_fdatasync(r, err)
    \/ op[r] = "fstat"     /\ eio_fstat(r, err)
    \/ op[r] = "fsync"     /\ eio_fsync(r, err)
    \/ op[r] = "ftruncate" /\ eio_ftruncate(r, err)
    \/ op[r] = "futimes"   /\ eio_futimes(r, err)
    \/ op[r] = "lchown"    /\ eio_lchown(r, err)
    \/ op[r] = "lutimes"   /\ eio_lutimes(r, err)
    \/ op[r] = "link"      /\ eio_link(r, err)
    \/ op[r] = "lstat"     /\ eio_lstat(r, err)
    \/ op[r] = "mkdir"     /\ eio_mkdir(r, err)
    \/ op[r] = "mkdtemp"   /\ eio_mkdtemp(r, err)
    \/ op[r] = "open"      /\ eio_open(r, err)
    \/ op[r] = "opendir"   /\ eio_opendir(r, err)
    \/ op[r] = "read"      /\ eio_read(r, err)
    \/ op[r] = "readlink"  /\ eio_readlink(r, err)
    \/ op[r] = "readv"     /\ eio_readv(r, err)
    \/ op[r] = "realpath"  /\ eio_realpath(r, err)
    \/ op[r] = "rename"    /\ eio_rename(r, err)
    \/ op[r] = "rmdir"     /\ eio_rmdir(r, err)
    \/ op[r] = "stat"      /\ eio_stat(r, err)
    \/ op[r] = "symlink"   /\ eio_symlink(r, err)
    \/ op[r] = "truncate"  /\ eio_truncate(r, err)
    \/ op[r] = "unlink"    /\ eio_unlink(r, err)
    \/ op[r] = "utimes"    /\ eio_utimes(r, err)
    \/ op[r] = "write"     /\ eio_write(r, err)
    \/ op[r] = "writev"    /\ eio_writev(r, err)

Work(r) == stage[r] = "queued" /\ \E err \in BOOLEAN : Operation(r, err)
-----------------------------------------------------------------------------
(* The main thread calls back, one request at a time, and frees it. *)

\* The callback settles the promise: with req->errnum and the text at
\* req->errbuf if there was an error; otherwise with 0 (callback1), req->ret
\* (callback2, open) or the text at req->ptr[0] (callback3, read).
Callback(r) ==
    /\ stage[r] = "worked"
    /\ \A s \in Reqs : stage[s] # "settled"
    /\ stage' = [stage EXCEPT ![r] = "settled"]
    /\ UNCHANGED <<heap, op, ptr, bases, errnum, errbuf, lost, misfreed>>

\* The callback's reactions are over: EIO_REQ_FREE.  (What the structure held
\* is gone with it: op and errnum go back to their first values.)
FreeReq(r) ==
    LET B == {ptr[r][0], ptr[r][1], errbuf[r]} \ {NULL} IN
    /\ stage[r] = "settled"
    /\ stage' = [stage EXCEPT ![r] = "none"]
    /\ heap' = Free(heap, B)
    /\ misfreed' = misfreed \union Misfreed(r, B)
    /\ ptr' = [ptr EXCEPT ![r] = Two(NULL, NULL)]
    /\ errbuf' = [errbuf EXCEPT ![r] = NULL]
    /\ bases' = [bases EXCEPT ![r] = {}]
    /\ lost' = IF op[r] \in VectorOps /\ ~errnum[r] THEN lost \union bases[r] ELSE lost
    /\ op' = [op EXCEPT ![r] = "close"]
    /\ errnum' = [errnum EXCEPT ![r] = FALSE]
-----------------------------------------------------------------------------
Next ==
    \E r \in Reqs :
        \/ FsOpen(r) \/ FsRead(r) \/ FsClose(r)
        \/ IssueFd(r) \/ IssueOne(r) \/ IssueTwo(r) \/ IssueVector(r)
        \/ Work(r)
        \/ Callback(r) \/ FreeReq(r)

Spec == Init /\ [][Next]_vars
-----------------------------------------------------------------------------
(* Properties. *)

\* Types of the requests and the heap.
TypeOK ==
    /\ heap \in [Blocks -> {"free", "data", "dir"}]
    /\ stage \in [Reqs -> {"none", "queued", "worked", "settled"}]
    /\ op \in [Reqs -> Ops]
    /\ ptr \in [Reqs -> [0 .. 1 -> Pointers]]
    /\ bases \in [Reqs -> SUBSET Blocks]
    /\ errnum \in [Reqs -> BOOLEAN]
    /\ errbuf \in [Reqs -> Pointers]
    /\ lost \subseteq Blocks
    /\ misfreed \subseteq Ops

\* What a request refers to: its two pointers, the blocks behind an array, and
\* the error text.
Held(r) == ({ptr[r][0], ptr[r][1], errbuf[r]} \ {NULL}) \union bases[r]

\* Every pointer that is left in a request is to a block that is allocated,
\* and to one that no other pointer refers to: whatever the operation freed,
\* moved or kept, EIO_REQ_FREE will not free a block twice, nor one that the
\* allocator has given to another request in the meantime.
NoDangling ==
    /\ \A r \in Reqs : \A b \in Held(r) : heap[b] # "free"
    /\ \A r, s \in Reqs : r # s => Held(r) \intersect Held(s) = {}
    /\ \A r \in Reqs :
          /\ ptr[r][0] = ptr[r][1] => ptr[r][0] = NULL
          /\ errbuf[r] \notin {ptr[r][0], ptr[r][1]} \ {NULL}
          /\ {ptr[r][0], ptr[r][1], errbuf[r]} \intersect bases[r] = {}

\* Nothing is left over by a request that is freed, on any path, but for the
\* blocks of an array that a vector operation has filled.
NothingLost == \A b \in Blocks :
    heap[b] # "free" => b \in lost \/ \E r \in Reqs : b \in Held(r)

\* free() is given blocks of malloc and nothing else, with the exception of
\* opendir, whose DIR is left for EIO_REQ_FREE.
FreesMatch == misfreed \subseteq {"opendir"}

\* What the callbacks read is there: the error text if there was an error, and
\* the buffer, which callback3 makes a string of, if a read succeeded.
CallbackReads ==
    \A r \in Reqs : stage[r] = "worked" =>
        /\ errnum[r] => errbuf[r] # NULL /\ heap[errbuf[r]] = "data"
        /\ op[r] = "read" /\ ~errnum[r] => ptr[r][0] # NULL /\ heap[ptr[r][0]] = "data"
=============================================================================
