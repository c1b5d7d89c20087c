# Ryze: a verification development

Ryze is a small JavaScript runtime on V8, in the making: the repository holds
the current runtime (`src/src`), an earlier complete one with an event loop and
an asynchronous file API (`src/xxx`), a first prototype in one file
(`src/main.cc`), a thread pool (`src/ev_thread_pool.cc`), an HTTP server under
construction (`src/server`, `src/src/http`) and trials. What is hard in it is
the same idea, tried several times: *one thread runs the script, other threads
do blocking work for it, and requests and results cross between them under
mutexes, condition variables and an eventfd.* This development models that
idea where it is complete, with the code around it that has a right and a wrong
answer (paths, HTTP messages, the memory of file requests), checks it with TLC
and proves it with TLAPS.

Paths below are relative to the repository; `xxx/ev/ev.c:16` is line 16 of
`src/xxx/ev/ev.c`.

Contents: 1 inventory, 2 the models, 3 abstractions, 4 runs, 5 fairness,
6 proofs, 7 findings, 8 what is not modelled, 9 plan, 10 how to run.

## 1. Inventory

### Event loop: `xxx/ev/ev.c`, `xxx/ev/ev.h`

*State.* `struct ev_loop`: two lists of requests (`head[0]` to do, `head[1]`
done), a mutex for each, a condition variable `cond`, an eventfd `efd`
registered edge-triggered with `epfd`, the counters `wait_threads`,
`alive_threads`, `nthreads`, and `stop`.
*Operations.* `ev_loop_init`, `EV_REQ_ADD` (main thread), `ev_work` (each
worker), `ev_loop_run`, `ev_loop_free`.
*Interaction.* The main thread and the workers share the lists and the
counters; requests carry a `work` function for the worker and a `callback` for
the main thread, which settles a promise and thereby runs more of the script,
with `lock[1]` held, and the script may call `EV_REQ_ADD` again.
*Hard.* A conditional signal that relies on a counter the waiters keep
themselves; an edge-triggered descriptor read before the list is drained;
re-entry from a callback; spurious wakeups.
*Correct if* no request waits while a worker sleeps, no completion waits while
the main thread sleeps, every request is in one place and freed once after its
callback, requests start in order and each promise is settled once.

### File API and file operations: `xxx/fs`, `xxx/eio`

*State.* A request (`eio_req_t`) with up to three pointers, a result, `errnum`,
and the promise's resolver. *Operations.* `fs.open`, `fs.read`, `fs.close`
allocate a request, start it with `EV_REQ_ADD` and return a promise; three
callbacks settle it by `errnum`; some thirty blocking `eio_*` operations fill in the
result. *Hard.* Which of the three pointers each operation allocates and who
frees it; partial failure inside an operation.
*Correct if* the promise is settled as the operation ended and nothing is freed
twice or lost.

### Main program of that runtime: `xxx/main.cc`

Evaluates the module, waits in a loop for its promise, then runs and frees the
event loop. *Hard.* The order of these: the wait for the promise comes before
the loop that could settle it.

### Thread pool: `ev_thread_pool.cc`

*State.* A list of threads; each has a mutex, a condition variable, a list of
tasks with a tail pointer, and a `status` (0 running, 1 pool destroy, 2 thread
exit). *Operations.* `ev_thread_pool_init`, `ev_task_info_add`,
`ev_task_info_func` (each thread), `ev_thread_pool_destroy`, and a `main` that
adds tasks round robin and destroys the pool.
*Hard.* Signals are sent after the unlock; a thread tests once and then sleeps;
both sides increment `status`; the destroyer polls and frees what the threads
still use; one path leaves the mutex locked.
*Correct if* tasks run in order and are freed once, the destruction ends, and
nothing is freed while it is used.

### First prototype: `main.cc` at the top

*State.* `pending_list`, `done_list`, a mutex and a condition variable each.
*Operations.* `ReadFileAsync`, `thread_func` (four workers, created after the
module has been evaluated), and the drain in `main`.
*Hard.* Both directions use condition variables signalled after the unlock; the
main thread runs scripts with `done_mutex` held; both lists are last in, first
out. *Correct if* no signal is lost, no request is left behind or used after it
is freed.

### Current runtime: `src/esm`, `src/main.cc`, `src/util`, `src/ev`, `src/console` (all under `src/src`)

`esm.cc` compiles the entry module, resolves imports relative to the importing
module through a map from V8's identity hash to a path, evaluates, and waits
for the promise; `esm_destroy` frees the paths. `util.c` has `dirname`,
`normalize_path`, `read_file`, `http_get`. `ev.c` is the event loop again, not
yet called by anything. *Hard.* Who frees a path when a load fails; one compile
per import rather than per file; pointer arithmetic on paths. *Correct if* the
referrer is always found, each path is freed once, an import resolves to the
file its specifier names.

### HTTP: `server`, `src/http` (under `src/src`)

`http_parser.c` parses a request line, headers with line folding, and chunked
bodies in place. The servers around the parsers are unfinished and do not
compile. *Hard.* Incomplete input; in-place compaction. *Correct if* a message
that arrives whole is parsed to its parts, and one that arrives in pieces is
parsed to the same.

### The rest

`xxx/main22.c`, `xxx/main-bak.c`, `epoll.cc`, `epoll2.cc`: earlier trials of
the loop with timeouts and atomic counters. `xxx/timer`, `xxx/thread`: empty
functions. `console`: prints. `test*.cc`, `shell.cc`: V8 samples.
`include`, `server/pico`: headers and vendored code.

## 2. The models

| Module | What it is |
|---|---|
| `Executor` | What the file API promises: ordered start, execution by one worker, settlement once in order of completion. No threads. |
| `EvLoop` | `xxx/ev` with the script's side (`xxx/fs`) and the main program (`xxx/main.cc`). Implements `Executor`. |
| `MCEvLoop` | Symmetry sets for TLC. |
| `EvLoopProofs` | Proofs about `EvLoop`. |
| `ThreadPool` | `ev_thread_pool.cc`, its `main` included. |
| `ThreadPoolProofs` | Proofs about `ThreadPool`. |
| `AsyncRead` | `main.cc`: workers, lists, drain. |
| `AsyncReadProofs` | Proofs about `AsyncRead`. |
| `Esm` | `src/esm/esm.cc` with `src/main.cc`: loading, linking, freeing. |
| `EsmProofs` | Proofs about `Esm`. |
| `Eio`, `MCEio` | `xxx/eio/eio.c` with the calls and callbacks of `xxx/fs`: the memory of the requests. |
| `EioProofs` | Proofs about `Eio`. |
| `UrlPath` | `src/util/util.c`, and `NormalizePath` of `main.cc` and `xxx/main.cc`: what an import resolves to. |
| `UrlPathProofs` | Proofs about `UrlPath`. |
| `HttpParser` | `server/http_parser.c` and `src/http/http_parser.c`. |
| `HttpParserProofs` | Proofs about `HttpParser`. |
| `ListLemmas` | Lists without repetition: adding at either end, removing the head, joining; induction over the positions of a list, and the recursive functions it gives. |

Every thread has a control point (`pc`, `mainpc`), and an action is the code
between two points at which another thread can see a difference. Names follow
the source.

### EvLoop

| State | Code |
|---|---|
| `head0`, `head1` | `loop->head[0]`, `loop->head[1]`, as sequences of requests |
| `lock0`, `lock1` | owner of `loop->lock[0]`, `loop->lock[1]` |
| `wait_threads`, `alive_threads`, `stop` | the fields of that name |
| `pc[w]` in `"sleep"`, `"woken"` | inside `pthread_cond_wait`: waiting, or released and asking for the mutex |
| `req[w]` | the local `req` of `ev_work` |
| `efd`, `epReady` | the eventfd's counter is positive; epoll holds an undelivered edge |
| `adding` | a request allocated by an fs function that is about to run `EV_REQ_ADD` |
| `cur` | the request whose callback runs (`"js"`), or that the module awaits (`"spin"`) |
| `errnum`, `promise`, `live` | outcome of the work; the script's view; allocated requests |

| Actions | Code |
|---|---|
| `Lock0`, `Sleep`, `SpuriousWakeup`, `Wake`, `Take`, `Work`, `Lock1`, `Push`, `Notify` | `ev_work` (`xxx/ev/ev.c:4-38`) |
| `FsCall`, `ReqAdd` | an fs function (`xxx/fs/fs.cc:93-169`), then `EV_REQ_ADD` (`xxx/ev/ev.h:29`) |
| `EvalDone`, `EvalAwait`, `SpinTest` | `xxx/main.cc:89-101` |
| `EpollWait`, `EpollFails`, `ReadEfd`, `MainLock1`, `Callback`, `FreeReq`, `Drained` | `ev_loop_run` (`xxx/ev/ev.c:88-115`) |
| `FreeTest` | `ev_loop_free` (`xxx/ev/ev.c:68-86`) |

A worker's critical sections are split so that a held mutex is seen by others.
`ReqAdd` is a single step that waits for `lock0`: inside the macro nothing
happens that is not under that lock.

### ThreadPool

`held[w]` says that thread *w* holds its own mutex; it is a variable because
one path of `ev_task_info_func` (`Continue`, line 139) goes back to the lock
without releasing it. The main thread's critical sections are single steps.
`list[w]` stands for `head`/`tail` and `tasks`, `infos` for what is allocated.
`status` is the field. The worker's actions are `Lock`, `Wait`,
`SpuriousWakeup`, `Wake`, `Continue`, `Exit`, `ExitSignal`, `Take`, `Work`; the
adder's `Add`, `AddSignal`; the destroyer's `Mark`, `MarkSignal` (first loop)
and `Reap`, `PollSignal` (second loop).

### AsyncRead

`pending`, `done` are the lists with the newest element first. `done_mutex` is
held exactly while the main thread is at `"drain"` or `"js"`, so there is no
variable for it; `pending_mutex` is never seen taken. Actions `Wait`,
`SpuriousWakeup`, `Take`, `PassOn`, `Work`, `Finish`, `SignalDone` are
`thread_func`; `ReadFileAsync` and `AsyncSignal` are the function called by the
script; `EvalDone`, `EvalAwait`, `SpinTest`, `CreateThread`, `TestDone`,
`MainSpuriousWakeup`, `Resolve`, `FreeTask`, `Drained` are `main`.

### Esm

One thread, but driven by callbacks from V8. A *load* is one path buffer, one
reading and one compilation; it is numbered, and the number stands for the
buffer and the module.

| State | Code |
|---|---|
| `imports` | the import statements of each file, chosen at the start |
| `loads`, `frees` | buffers allocated so far, with the file named and the module's identity hash; how often each was passed to `free` |
| `map` | `module_path_map` |
| `todo`, `kids` | V8's linking: the modules it has yet to link, and the imports it has resolved of the first |
| `phase`, `result` | where `main` is; what `esm_init` returned |

| Actions | Code |
|---|---|
| `NoArgument` | `main` without a file (`src/main.cc:27-37`) |
| `CompileEntry`, `RejectEntry`, `FreePath` | `esm_init` up to the link, and its way out |
| `CompileImport`, `RejectImport` | `resolve_module_callback` |
| `MissingFile` | a file that cannot be read: `NULL` becomes a V8 string |
| `Descend`, `StackOverflow`, `Linked` | V8 between two callbacks |
| `EvaluateDone`, `EvaluateFails`, `EvaluatePending` | the evaluation, which may return nothing, and the wait for its promise |
| `DestroyEntry`, `DestroyDone` | `esm_destroy` |

`Resolved` reads the referrer's path through the map, as the code does. If a
collision of hashes has put another module's path there, the file named is any
file. Nothing detects cycles, so a cyclic program loads until V8's stack is
full (`MaxLoads`).

### Eio

`EvLoop` says when a request is worked on, called back and freed; `Eio` says
what becomes of the memory it points to. The two meet in the stages of a
request: `stage` goes `"none"`, `"queued"`, `"worked"`, `"settled"` and back, as
a request of `EvLoop` is allocated, worked on, called back and freed.

| State | Code |
|---|---|
| `heap` | what each address holds: nothing, a block of `malloc`, a `DIR` |
| `op`, `ptr`, `errnum`, `errbuf` | `work`, `ptr[0..1]`, `errnum` (zero or not), `errbuf` of the request |
| `bases` | the `iov_base` blocks of the array that `ptr[0]` of `readv` or `writev` points to |
| `misfreed`, `lost` | what went wrong so far: operations that led to a `free` of something else than a block; blocks nobody points to any more |

`FsOpen`, `FsRead`, `FsClose` are the functions of `xxx/fs/fs.cc`; `Issue*`
start any other operation with the pointers its code reads, as no function
does yet. `Work` is one of the 32 `eio_*` operations, with or without an error;
most follow one of the patterns `TakesNothing`, `FreesOne`, `FreesBoth`,
`FillsOne`, `FillsSecond`, `FillsVector`. An operation touches only its own
request and the allocator, so it is one step. Any free address may be returned
by an allocation, also one freed a moment ago in favour of another request.

### UrlPath

A behaviour is a chain of imports: the entry module, then one module imported by
the other. `path` is what the code computes, `file` what the specifiers mean.
An error in one path is handed on, because the next import is resolved against
it; that is why a chain is modelled and not a single call.

| Operators, actions | Code |
|---|---|
| `dirname`, `normalize_path`, with `Scan` (the stack, and the total kept beside it; `Scans` after each segment) and `Written` (the length of the text) | `src/util/util.c:42-88`, `113-176` |
| `NormalizePath`, `Dir`, `Pops`, `Join` | `main.cc:234-283`; `xxx/main.cc:174-206` is the same code |
| `EntrySrc`, `EntryProto` | the entry module's path |
| `ImportAbsolute`, `ImportSrc`, `ImportProto` | the first lines of the module resolution callbacks |

`status` is `"garbled"` when the total does not fit the text. It is `"astray"` when
the total fits, but the stack index has been below zero: from the directory `/a`,
the specifier `../../bb/a` has the total of `/a`, which is what is returned, while
`bb` was written in front of the stack and the file meant is `/bb/a`. `regular` says
that every `..` so far followed the name it removes, `rooted` that no specifier went
up from the root, `kept` that the chain has not been at an edge of what the code can
express. The edges: in the current runtime, a module directly below a host
(`http://host/m.js`) whose import loses the host; in the prototypes, a `..` at
the root, and a file of the working directory itself, since a path of one
segment gets a slash in front (`../x.js` in `js/main.js` becomes `/x.js`).

### HttpParser

A behaviour is one parse of one prefix of one message: the request line, then
one header line for each step, or one carriage return of a chunked body for each
step. Spans point into the buffer, which line folding and the compaction of
chunks overwrite. `copy` says which of the two parsers runs; they differ in what
they return at the end of the input, in line folding, and in the treatment of
chunks.

| Actions | Code (`server/http_parser.c`) |
|---|---|
| `RequestLine` | `http_parse_request_line`, 37-77 |
| `NoHeader`, `HeaderLine` (with `Store`, `Fold`, `After`) | `http_parse_header`, 79-153 |
| `Chunk` (with `str_parse_hex`, `Compact`) | `http_parse_chunked`, 155-192 |
| `DecodeChunk` | `http_decode_chunked` of `src/http/http_parser.c`, 147-163 |

The outcome `"overrun"` stands for a scan that leaves the buffer: the scans for
the colon and the line feed of a header have no end test.

### Faulty variants

Each module but `Executor` has operators such as `WakeNoCount` or
`ReadFileAsyncSilent` that no specification uses. Each is a step with a slip a
change could introduce. Put in place of the step it varies, it breaks the
property listed with it under `mutants` in `PROJECT.json`, under the constants
of that property's run.

## 3. Abstractions, and what they assume

- *Requests* are the identities of request structures. File names, buffers and
  results are left out; the work succeeds or fails.
- In `EvLoop` a request is issued at most once per behaviour (`Reqs` bounds the
  calls). In `AsyncRead` a freed request may be issued again, so behaviours are
  unbounded and `Reqs` bounds the requests alive at a time.
- *Lists* are sequences. The macros and the head and tail pointers behind them are
  not modelled, so a slip in these assignments would not be seen (`ev_thread_pool.cc`
  keeps them by hand).
- *`pthread_cond_signal`* wakes any one sleeper, or nobody; a wakeup may be
  spurious; the woken thread competes for the mutex.
- *The eventfd* is zero or positive. Its maximum (2^64 - 2) is not modelled.
- *epoll* in edge-triggered mode: every write records an edge; `epoll_wait`
  returns an edge while the counter is positive. Reading leaves an edge
  recorded by an intermediate write. Several descriptors never occur.
- *`epoll_wait` fails* at any time (`EpollFails`), as after a signal; the loop
  ends and `ev_loop_free` polls `alive_threads`. Nothing in the repository sets
  `stop`, so the worker's exit branch, which `Wake` has, is never taken and the
  poll does not end.
- *Scripts* call the API any number of times while they run, and end. At top
  level a module may await one of its requests.
- *Thread creation* in the pool: `ThreadPool` begins when
  `ev_thread_pool_init` has returned, although line 49 creates each thread
  before its mutex is initialised (listed under `hazards`).
- *`AsyncRead`* assumes that the allocator overwrites only the list entry of a
  freed structure, so that the reads at `main.cc:208-209`, after `free(task)`,
  still see the pointers. A file that cannot be read ends the process (`NULL`
  is passed to V8).
- *Identity hashes* in `Esm`: a new module's hash is its own or that of any
  older one. *V8's linking order*: all imports of a module are resolved in
  order, then each is linked. Both are external.
- *Paths* in `Esm` are the files they name; what `normalize_path` and `dirname`
  compute is in `UrlPath`. That `resolve_module_callback` returns a handle out of
  a scope that has ended is not modelled.
- Memory is sequentially consistent: all shared accesses of the modelled code
  are under mutexes.
- *`Eio`*: what the system calls do to files is left out, and so is the memory
  of the request structure and of the resolver, which `EvLoop` has. `malloc`
  does not fail. The operations without a caller get the pointers their code
  reads; in `readv` and `writev` one array element stands for any number.
- *`UrlPath`*: names are short strings, since only their lengths matter;
  specifiers do not begin with a slash, end in a name, and have no empty
  segments. Queries in URLs and symbolic links are left out. Both URL schemes
  behave alike.
- *`HttpParser`*: letters stand for the characters of their kind, the digits are
  those the sizes need. The size of a chunk does not overflow. Bytes behind the
  end of the buffer are not modelled: a scan that gets there ends the behaviour.
  The parsers that call these, both unfinished, are left out; `http_parse_request`
  of `server/test.c` gives the order of the calls.

## 4. The runs

| Run | Instance | Checks | Shows |
|---|---|---|---|
| `evloop_safety` | 3 workers, 4 requests, symmetry; 92,961 states | `TypeOK`, `WaitCount`, `WorkConserving`, `CompletionAnnounced`, `OneOwner`, `LivePending`, `ImplementsExecutor` | no wakeup or completion is lost, one owner per request, the loop is an ordered executor |
| `evloop_live` | 2 workers, 2 requests; 15,433 states | `RequestsSettle`, `DrainEnds` | every request is called back; no drain gets stuck |
| `evloop_await` | 2 workers, 2 requests | `ModuleFinishes`: violated | finding 1 |
| `pool` | 2 threads, 3 rounds; 3,673 states | `TypeOK`, `StatusMeaning`, `OneOwner`, `InOrder`, `ReleaseLast`, `TasksLeave`, `EndsOrSelfLocked` | tasks in order, freed once and never stuck; data freed after the loop is left; only a self-locked thread stops `main` |
| `pool_release` | 2 threads, 1 round | `ReleasedUnused`: violated | finding 2 |
| `pool_destroy` | 2 threads, 1 round | `DestroyReturns`: violated | finding 3 |
| `async` | 3 workers, 3 requests; 132,630 states | `TypeOK`, `WorkConserving`, `CompletionAnnounced`, `OneOwner`, `AnsweredWhenQuiet` | no signal is lost in either direction, one owner per request, newest-first lists starve nobody once the script is quiet |
| `eio` | 2 requests, 5 addresses, symmetry; 85,774 states | `TypeOK`, `NoDangling`, `NothingLost`, `FreesMatch`, `CallbackReads` | every block is freed once, whichever operations run and however they end |
| `esm_load` | 3 files, at most 2 imports each, every graph, 5 loads; 1,927,420 states | `TypeOK`, `ReferrerFound`, `PathsFreed`, `OneLoadPerChain`, `CyclesFail` | referrers are found; how often each path is freed, and how often each file compiled; import cycles are never evaluated |
| `url_path` | 2 names of different length, specifiers with up to 3 segments before the last, 3 imports; 2,778 states | `TypeOK`, `LengthFits`, `FitsIsRight`, `ProtoResolves` | while no specifier goes up from the root, an import gets the file it names, or a path whose length is wrong |
| `http_parser` | up to 2 fields and 2 chunks, every prefix; 142,360 states | `TypeOK`, `RequestRight`, `CutNeverAnswered`, `NamesInOrder`, `ChunksRight` | whole requests with a field are parsed to their parts, one without is read past its end; cut ones are not taken for whole; chunks are delivered |
| `esm_fail` | 2 files, 3 loads | `FreedOnce`: violated | finding 4 |

*Why the bounds are enough.* A lost wakeup in `EvLoop` needs a sleeper, a
thread that has been woken but still counts as waiting, and one that works:
three workers; and more requests than workers, so that lists are longer than
the threads on their way. The refinement needs two requests in different
workers and one queued. The pool's threads share nothing but the main thread:
two give every interleaving of one thread with the destroyer's progress past
another, and three tasks per thread give lists of length 0, 1 and 2 behind a
task in hand. `AsyncRead` runs three of the source's four workers: one asleep,
one woken and one at work are all the roles there are, and the proofs are for
any number. Two requests of `Eio` suffice for a block of one to be freed by the
other; five addresses are what two requests with two pointers each, and one
error text, need at once, and the sixth would only add unused ones. In
`UrlPath` three segments are what it takes to have two `..` in a row, or a `..`
after a `.`, after a name; in the current runtime a garbled path, or one that went astray, ends the chain,
while a path that is only unusual (`//x`, a path of another depth) is the base of
two more imports. Names of length 1 and 2 make a wrong length differ from the
right one, or not. In `HttpParser` a second
field is needed for a continuation that goes to the wrong header, a second
chunk for one that is compacted behind another, and two names for headers that
could be exchanged; `max_header` of 1 leaves no room
for the second field. In `Esm` an
acyclic program of three files has at most four chains of imports, hence four
loads; the fifth lets cyclic ones, and those resolved against a wrong path, go
on to the full stack. The proofs remove the
bounds for the safety properties of section 6.

*Symmetry* is used in `evloop_safety` and `eio` only, which have no liveness
property. No step compares workers, requests or addresses in an order, and
the properties quantify over all of them.

*Deadlock* is checked in `EvLoop` (the main thread can always fail or poll).
The thread pool ends, a crash ends `AsyncRead`, and the loader ends, crashes or
spins, so their configurations switch it off. So do those of `UrlPath` and
`HttpParser`, where a chain reaches its bound and a parse ends, and of `Eio`,
where two requests may hold all five addresses when an operation asks for one
more: there `malloc` would return one.

### The less obvious properties

- `WorkConserving` (`EvLoop`): while some worker sleeps, at least as many
  workers are on their way to `head[0]` as there are requests on it. This is
  what the `if(wait_threads > 0)` before `pthread_cond_signal` and the signal
  that a taker passes on have to achieve together. It is stronger than "some
  worker will come": no request waits for a worker's file operation to end
  while another worker sleeps.
- `WaitCount`: `wait_threads` is exactly the number of threads between entering
  and returning from `pthread_cond_wait`. It lags behind the signals, and the
  conditional signal is right only because it lags in this direction.
- `CompletionAnnounced`: with `head[1]` not empty, an edge is undelivered, the
  main thread is between the edge and the end of its drain, or a worker has
  `lock[1]` and has yet to write. It fails if the eventfd is read after the
  drain, or the drain takes one request per event.
- `OneOwner`: every allocated request is at exactly one position of exactly one
  list, in exactly one worker's hands or in the callback; a freed one nowhere.
- `RequestsSettle`: excepts `"spin"` and `"free"`, in which the main thread is
  not in its loop. A request issued inside the last callback is included.
- `EndsOrSelfLocked`: the destroyer's signals come after its unlocks and may
  come before the thread sleeps; the one in the polling loop makes up for it.
  With that signal left out the property fails.
- `ReferrerFound` (`Esm`): `it->second` is used without a test for `end()`. The
  search succeeds because every compiled module is entered before V8 can ask for
  it, or another one has its hash already.
- `PathsFreed`: how often the path of each load has been freed when the program is
  at its end, whichever way it got there: a path that is in the map once, in
  whatever order `esm_destroy` meets it; the path of a module that found its hash
  taken, or of an import that did not compile, never; the entry module's once more
  by a load that failed. Finding 4 is the last clause, where the sum is two.
- `OneLoadPerChain`: a file that two modules import is compiled, and evaluated,
  twice: its module state is not shared. The property gives the exact number.
- `CyclesFail`: nothing in the loader looks for a cycle, and `import` cycles are
  legal; but since every import compiles its file anew, a program with one ends
  with a load that fails and is never evaluated. The property says nothing of
  modules with one hash, which are resolved against the wrong path.
- `NoDangling`, `NothingLost` (`Eio`): whatever an operation has freed, moved or
  kept, what is left in the request is exactly what `EIO_REQ_FREE` must still
  free. An operation that forgets to reset a pointer is caught even if the
  address belongs to another request by then, as the block is then in two hands.
  The exception is `readv` and `writev` that succeed: nobody frees the blocks
  behind their array.
- `FreesMatch`: `free` is given blocks of `malloc` only, but for the `DIR` that
  `eio_opendir` leaves.
- `LengthFits`, `FitsIsRight` (`UrlPath`): `normalize_path` subtracts the length
  of the segment before a `..` in the text, not of the one it removes. While each
  `..` follows the name it removes, that is the same; in `../../x` or `a/./../x`
  it is not, and no property asks for the right path there. `FitsIsRight` is about
  these specifiers where the errors of several `..` cancel: as long as none goes up
  from the root, a length that fits is that of the right file's path. Beyond the
  root that is false (`../../bb/a` above), and the property does not say it.
- `ProtoResolves`: a `..` that pops the root, and a file in the working directory
  itself, are excluded by `rooted` and `kept`; the prototypes resolve both to other
  files.
- `CutNeverAnswered` (`HttpParser`): however a request is cut, the server's parser
  does not take it for a whole one, and neither parser refuses it; and if it is
  cut between lines nothing is read behind the end. Cut within a header line, the
  scans do read on, and so does every scan behind a continuation line without a
  colon.
- `RequestRight` says what becomes of each whole request. One *without a header
  field*, such as `GET / HTTP/1.0` and an empty line, is read past its end, by both
  parsers: the scan for a colon has no end test (`server/http_parser.c:91`). One
  with a field, whose continuation lines have colons, is answered, and all of it is
  read. Its headers are its fields if also (`FieldsClear`) no value consists of
  blanks only, whose length would be below zero; in the runtime's copy no field is
  continued, since that parser leaves the line end in the value; all names are
  tokens, since a field with a blank in its name is left out; and no field beyond
  `max_header` is continued, since its continuation would go to the last header
  stored.
- `NamesInOrder` holds of every request and every cut: a continuation line is moved
  behind the last header's value over whatever is in the buffer there, and must not
  reach a name; and a field that is left out must not exchange names and values of
  the others. The requests have two names that are tokens, of different lengths,
  and one that is not.
- `ChunksRight`: the compaction of a chunk never touches what is not yet read, so
  a caller can call again behind `read_len`. `str_parse_hex` lets the first digit
  weigh least, so it reads a size of two different digits backwards, and the size
  of a chunk with two extensions ends at the wrong semicolon. Of such chunks
  nothing is claimed; the data of the chunks in front of them are delivered and
  stay what they are, whatever the parser makes of the rest.
- `AnsweredWhenQuiet`: last in, first out lists answer everything only if
  requests stop coming; `Quiet` says so, and the property fails without it.

## 5. Fairness

- A thread that can run does: weak fairness of each thread's steps that need no
  mutex. Blocking operations, tasks and scripts end, which is part of it.
- A thread that asks for a mutex which is free again and again gets it: strong
  fairness of the acquiring steps. POSIX does not promise it for a default
  mutex, but in this code nobody takes a mutex in a tight loop that others need,
  apart from the two polls (`ev_loop_free`, `ev_thread_pool_destroy`), whose
  mutex is free between two rounds. Weak fairness would let a free mutex that
  is taken by others in between be missed for ever.
- No fairness for spurious wakeups, for calls by the script, for a failing
  `epoll_wait`, or for an await at top level. `EvLoop`'s `FreeTest` needs none.
- `Esm`, `Eio`, `UrlPath` and `HttpParser` have no liveness property and no
  fairness: each step is a function that returns.
- In `AsyncRead` the signal on `done_cond`, and the worker's finish, are fair
  only as steps of a running worker; a crashed process has none.

## 6. Proofs

All theorems hold for any finite non-empty set of workers and any set of
requests (`WorkersAssumption`, `ThreadsAssumption`, `ReqsAssumption`), and for
any positive numbers of threads and rounds (`NThreadsAssumption`,
`RoundsAssumption`); those about `Esm` for any set of files, any program over
them, and any bounds on imports and loads (`EntryAssumption`,
`BoundsAssumption`), `OneLoadForEachChain` for any finite set of files
(`FilesAssumption`); those about `Eio` for any sets of requests and addresses
with a `NULL` outside (`NullAssumption`); those about `UrlPath` for any set of
names, of any lengths (`LengthAssumption`), none of which is empty or consists of
one or two dots (`UrlPathAssumption`), and any bounds on specifiers and chains;
those about `HttpParser` for any numbers of fields and chunks and any room for
headers (`HttpParserAssumption`: they are natural numbers).

| Theorem | Establishes |
|---|---|
| `EvLoopProofs!TypeCorrect`, `WaitersCounted`, `NoLostWakeup`, `NoLostCompletion` | `TypeOK`, `WaitCount`, `WorkConserving`, `CompletionAnnounced` |
| `EvLoopProofs!OneOwnerAlways`, `LiveIsPending` | `OneOwner`, `LivePending` |
| `EvLoopProofs!LoopImplementsExecutor` | `ImplementsExecutor`, i.e. `EX!Spec` |
| `ThreadPoolProofs!TypeCorrect`, `StatusMeansWhatItSays`, `TasksInOrder`, `TasksOwnedOnce`, `ReleasedLast` | `TypeOK`, `StatusMeaning`, `InOrder`, `OneOwner`, `ReleaseLast` |
| `AsyncReadProofs!TypeCorrect`, `NoLostWakeup`, `NoLostCompletion`, `OneOwnerAlways` | `TypeOK`, `WorkConserving`, `CompletionAnnounced`, `OneOwner` |
| `EioProofs!TypeCorrect`, `PointersLive`, `NoneLost`, `FreesRight`, `CallbacksRead` | `TypeOK`, `NoDangling`, `NothingLost`, `FreesMatch`, `CallbackReads` |
| `EsmProofs!TypeCorrect`, `ReferrersFound`, `FreedAtEnd`, `OneLoadForEachChain`, `CyclesNeverEnd` | `TypeOK`, `ReferrerFound`, `PathsFreed`, `OneLoadPerChain`, `CyclesFail` |
| `UrlPathProofs!Types`, `LengthsFit`, `FittingPathsAreRight`, `PrototypesResolve` | `TypeOK`, `LengthFits`, `FitsIsRight`, `ProtoResolves` |
| `HttpParserProofs!PlacesInBuffer`, `ChunkedBodies` | `TypeOK`, `ChunksRight` |
| `HttpParserProofs!HeadersKeepNames`, `CutRequests`, `WholeRequests` | `NamesInOrder`, `CutNeverAnswered`, `RequestRight` |

*EvLoop.* `Inv` is `Types` (the types without the counter's range, plus who has
a request at which point), `Locks` (each mutex is held exactly at its owner's
control points) and the three properties. `WorkConserving` is not inductive
without `WaitCount`: `EV_REQ_ADD` signals only if the counter is positive, so
one must know that a sleeper is counted. The step lemma `ConservingStep` counts
with `FS_AddElement` and `FS_RemoveElement`: a taker removes one request and at
most itself; an adder adds one request and, if anybody sleeps, one thread.
The range of `wait_threads` follows from `WaitCount`, not the other way round.

*Ownership and refinement.* `Own` says with sets what `OneOwner` says by
counting: the lists have no repetitions; lists, hands and the request about to
be queued are disjoint and together are the requests whose promise is pending.
`OwnImpliesOneOwner` turns this into cardinalities. `RefineStep` uses `Own` to
show that `Take`, `Push`, `ReqAdd` and `Callback` are the executor's `Start`,
`Finish`, `Submit` and `Deliver` and every other step stutters; a promise that
is pending in `EvLoop` but whose request is not queued yet is mapped to "none"
(`Promised`).

*ThreadPool.* `StatusInv` adds to `StatusMeaning` that a thread leaves only
after the destroyer has come to it, which bounds `status` by 2 and so gives
`TypeOK`. `OrderInv` bounds the numbers of queued and running tasks by `added`.
`OwnInv` (tasks are the disjoint union of the queues and the hands) rests on
`OrderInv`, since a new task's number is on no list.

*AsyncRead.* `Inv` is the types with what is at hand and the two properties.
Here a thread that takes a request still has its signal to send (`PassOn`) and
so stays on the way; when it leaves it has put another in its place. `Own` is
the partition of the live requests into both lists, the workers' hands and the
one being resolved, by sets as in `EvLoopProofs`; `PrependLemma` of
`ListLemmas` takes the place of the lemma on adding at the end.

*Eio.* `Inv` adds to the properties what they rest on: `Apart` (the pointers of a
request are to different blocks), `Shape` (a request whose operation is still to
come has exactly the pointers that operation expects, so that each `free` in it
has a block), `Kind` (which blocks may be a `DIR`) and `Separate` (no block is in
two requests). A step of one request is shown not to disturb the others by what
it may touch: blocks it held, and blocks that were free. The 32 operations come
down to the six patterns and two of their own, `eio_lstat` and `eio_opendir`.

*Esm.* `MapInv` says that an entry is the path of the oldest module with its
hash. It is what makes `FreeInv` inductive: when an entry is erased, the path
freed is the only one with that hash that is not shadowed, so no other load
that should still be freed loses its entry. `LoadInv` says that until the load
is over every module's hash is a key and nothing is freed. `FreeInv` counts the
second free of a failed load with the first (`FreesDue`), so it holds of every way
to the end.

*Esm, chains.* `OneLoadPerChain` compares two numbers, and what connects them is an
assignment `c` of a chain of imports to every load (`Chained`, a history of the
load that the code does not keep). It has four parts: each load's chain leads to
its file and no two loads share one (`Separate`); each is another load's and one
import more (`Rooted`); of the modules that V8 has not finished, only the first
has made imports, and those in the order of its list (`Pending`); a finished one
has made all of them (`Complete`). `ChainInv` says that such an assignment exists
while V8 links, and `ListInv` that its two lists share no module. `CompileImport`
extends `c` by one chain, which is new because `Pending` says which imports of the
referrer are made; `Descend` moves the first module to the finished ones.

When nothing waits any more, every chain is some load's (`AllChains`, by induction
along the chain). `NoRepeats` then shows that no chain meets a file twice: it could
go round once more, behind the longest of the finitely many chains for which that
file was loaded, and that would be a longer one. In the same way `CyclesNeverEnd` has
a file of a cycle imported behind the longest chain that leads to one of its files,
so an import cycle excludes the phase of evaluation, whatever `MaxLoads` is. The chains are those of at most as many
files as there are, which is the set `Chains` of the property; and `c` is a
bijection between the loads of a file and the chains that end in it
(`CountChains`).

*UrlPath.* The walks of a path (`Walks`, `Scans`, `Lengths`, `Pops`) are recursive
functions of the number of segments taken, and each has a lemma with its equations,
proved by `Recursion` of `ListLemmas`. Then they are compared position by position:
the stack of `normalize_path` is the walk that the specifier means unless its index
has been below zero (`ScanFollowsWalk`), behind an empty segment if the referrer lies
in the root, since `dirname` leaves `/` of it; the total is the length of the text on
that stack while every `..` follows the name it removes, because that name is then
both on top of the stack and the one whose length is taken off (`RegularScan`); the
prototypes' vector is the walk, behind the empty segment that stands for the root
(`PopsFollowWalk`). `PathInv` adds to the properties how the computed path and the
file meant hang together (`SrcInv`, `ProtoInv`) and which kinds of file a runtime can
reach (`FileInv`). `FitsIsRight` rests on what the index does: it goes below zero only
where the specifier goes up from the root (`Leaves`, in `ScanFollowsWalk`), and while
it does not, what is on the stack is the right file, whether the total is right or
wrong. So what fits is right while `rooted` (`RootedInv`); without `rooted` a total
that fits shows nothing.

*HttpParser, places.* `Shape` holds of every parse, whatever the message: while it
goes on, all that has been read, and the values of all headers, end before the
line or chunk to come (`Under`). That the values lie in the buffer rests on what
stops each scan: the colon and the carriage return are not blank, so both scans of
`Value` meet one of them (`ValueShape`), and a line feed that `LineFeed` finds is
behind a carriage return (`LineFeedLemma`, by induction backwards from the end).
A continuation line adds at most its own length to a value that ends before it
(`FoldShape`), which is why `Under` must be kept with the bound and not only that
values end in the buffer.

*HttpParser, chunks.* The text of a body is a concatenation, and `EndOf(seqs, n)`
is where its first n parts end; `ConcatsAt` says which character of which part is at
a place. `BodyInv` says of the server's copy that k chunks are done: their data,
joined, are in front of the buffer, all behind the k chunks is as it came, and the
next scan starts there (`Between`); or that it has stopped, and the next chunk is not
there as a whole (`Stopped`); or that it has met a chunk whose size it reads wrong,
and whatever it does from there on, the data of the k chunks stay in front (`Kept`,
since no step changes what lies in front of `body_len`: `KeptStep`). The step from k to k + 1 has three parts: the first
carriage return is the one behind the next size line, since neither sizes nor
extensions have any (`SizeFound`); `str_parse_hex` gives the length of the data
(`SizesLemma`, `ReadableFits`); and the move of the data to the front touches nothing
behind the chunk, because the data in front are shorter than the text they came
from (`Deliver`).

*HttpParser, requests.* `Laid` says where each part of a request is in its text:
the k-th field begins behind `End(k - 1)`, its first line ends at `Half(k)` and its
continuation, if it has one, at `End(k)` (`RequestLaid`). A scan from the beginning of a
line is settled by `NextLine`: it finds this line's colon and end, or, from a
continuation without a colon, those of the line after it, or no colon any more.
Between two lines, `Reading(k)` holds: the next scan begins behind `End(k)` or
`Half(k)`, the buffer from there on and up to the end of the request line is as it
came, and each header is spelled in the buffer as the name of a field among the first
k, increasing (`Named`). This is inductive only because all names end in front of the
end of the last value (`Reach`): that is where a continuation line is moved to, over
whatever is there. `HeadersKeepNames` follows at the end of the parse. For
`CutRequests`, an answer is given where `After` stops (`AfterLine`), and a scan that
leaves the buffer starts in a line that is not there as a whole; if all continuations
have a colon, no line ends within another (`NoStop`, `NotWithin`). For
`WholeRequests`, `Going(k)` adds, for readable fields (`Clear`), that the headers are
exactly the first k fields, as far as there is room, each value with its continuation
unless that is the next line (`Exact`, `Counted`); a request without a field comes to
its empty line with nothing but the line end left, where `NoLine` finds no colon
(`BareInv`). `ValueRead` shows that the blanks around a value are all that
`Value` leaves out, and `ExactFold` that the moved line lands behind it.

*Induction* is stated in `ListLemmas` over sets of numbers: `LeastNat` follows from
the library's fact that strict inclusion of finite subsets is well founded, and
`SetInduction`, `UpTo`, `StaysIn` and `Recursion` from it. They take a set or a
function where the library's theorems take an operator.

*Only model-checked.* The liveness properties, which rest on fairness
(`RequestsSettle`, `DrainEnds`, `TasksLeave`, `EndsOrSelfLocked`,
`AnsweredWhenQuiet`), since TLAPS has no support for liveness under fairness or for
`ENABLED`. Every invariant that a passing run checks is also a theorem.

## 7. Findings

1. `evloop_await`: `xxx/main.cc:95` spins while the module's promise is
   pending, and only afterwards enters `ev_loop_run`, which alone settles
   promises. The comment says "Loop until module execution finish". A module
   with a top-level `await` on the file API never finishes.
2. `pool_release`: a leaving thread sets `status` to 2 and unlocks before its
   last `pthread_cond_signal` (`ev_thread_pool.cc:142-144`); the destroyer may
   free the condition variable in between. `ReleaseLast` shows that this signal
   is the only thing the thread may still do.
3. `pool_destroy`: a thread that is woken with an empty list and status 0 goes
   back to `pthread_mutex_lock` with the mutex held (`ev_thread_pool.cc:138`).
   No spurious wakeup is needed: the thread takes the task after the adder's
   unlock, runs it, sleeps again, and then receives the adder's signal. The
   destroyer then waits for that mutex for ever.
4. `esm_fail`: if an import does not compile, `esm_init` frees the entry
   module's path (`src/esm/esm.cc:133`) although it is in `module_path_map`,
   and `esm_destroy`, which `main` calls next, frees it again.

`main.cc:174` and `src/esm/esm.cc:126` wait for the module's promise in the
same way as finding 1: the first before the workers exist, the second in a
program that has no loop to settle it (`EvaluatePending`).

## 8. Not modelled, and why

- `src/http/http_server.c`, `src/http/main.c`, `server/main.c`: unfinished;
  two of them do not compile, there is no behaviour to model.
- `src/ev/ev.c`: the protocol of `xxx/ev/ev.c` with the drain in a callback that
  the repository does not have, and no caller. The main thread's half would be
  invented; the workers' half is `EvLoop`'s.
- `xxx/main22.c`, `xxx/main-bak.c`, `epoll.cc`, `epoll2.cc`: trials on fixed inputs
  that state no expectation. Two of them tear their loop down after a silence with
  workers still running, one lets threads walk a list while another unlinks from
  it; what holds of them is what `EvLoop` shows of the version they led to.
- `http_get`, `read_file`, `src/util/test.c`: blocking I/O of one thread, and a
  trial of a URL parser.
- V8, `console`, the empty `timer` and `thread`, samples, vendored code: no
  state of this program. Most of the repository's lines are the headers of V8
  under `include/v8`, which declare a library and have no behaviour here.
- Buffer contents, and the individual results of the fs functions.

## 9. Plan

Done, in this order: `Executor` and `EvLoop` (the runtime's core, and the
richest protocol) with runs and proofs; `ThreadPool`, `AsyncRead` and `Esm` with
runs and proofs; `Eio` with run and proofs; `UrlPath` and `HttpParser` with
runs; the proofs of `OneOwner` of `AsyncRead`, of `UrlPath`, of `OneLoadPerChain` of
`Esm`, and of `HttpParser`: its places, chunked bodies, and requests.

What could follow, as the code does:

1. `src/ev/ev.c`, once something calls it: shown to implement `Executor`, with
   `ev_loop_destroy` under live workers.
2. The HTTP server, once it compiles: the buffers of a connection that are parsed
   again as they grow, composed with `HttpParser`.

## 10. Running

    tlc -config EvLoopSafety.cfg MCEvLoop.tla
    tlapm EvLoopProofs.tla

`PROJECT.json` lists every run with its module and configuration, the lines
each definition models, the hazards with the properties that cover them, and
the theorems.
