# TLA+ verification of MT-HVAC

MT-HVAC is a read cache for training jobs. A preloaded client library sends the
reads of files under `HVAC_DATA_DIR` to server processes over Mercury RPC; a
server opens the file, or a copy of it in a burst buffer (`BBPATH`), and a data
mover thread makes those copies after files have been closed.

The question behind everything here: **can an application tell that the library
is there**, by wrong data, by a call that does not return, or by a process that
dies?

## 1. Inventory

Paths are relative to `src/src/`.

### Components

| component | state | operations | talks to |
|---|---|---|---|
| RPC handlers, `mthvac_comm.cpp` | descriptor table, `fd_to_path` | open, read (+ bulk callback), seek, close, statistics | callers by RPC; mover through `data_queue`/`data_cond` and `path_cache_map` |
| Data mover, `mthvac_data_mover.cpp` | `local_list`, cache files, `path_cache_map` | wait, drain, copy, publish | handlers, as above |
| Server main, `mthvac_server.cpp` | none | start threads, post address, register RPCs, signals | all of the above |
| Wrappers, `wrappers.c` | call statistics | `open`, `read`, `pread`, `close` (others commented out) | tracking |
| Tracking, `mthvac_client.cpp` | `fd_map`, `g_mercury_init` | `hvac_track_file`, `hvac_remote_*`, `hvac_remove_fd` | RPC layer |
| Client RPC layer, `mthvac_comm_client.cpp` | `fd_redir_map`, sync contexts, `fd_state_map` with 64 shard locks, address cache | `gen_*_rpc`, `*_cb`, `hvac_wait_for_operation`, address lookup | server; callbacks run on the progress thread |
| Start-up, `mthvac_comm.cpp`, `mthvac_comm_client.cpp` | `hg_class`, `hg_context`, the ports file | `hvac_init_comm`, `hvac_comm_list_addr`, `lookup_addr` | file system |
| Timing, `mthvac_timer.h` | counters and history under a mutex | record, print, export | statistics RPC |
| Logging, `hvac_logging.c` | log4c handles | output only | |

### What is hard

* The mover publishes in `path_cache_map` while handlers search it; there is no
  lock.
* A read is answered in two steps: the handler reads and starts a bulk push, a
  callback responds when the push is done. Anything runs in between.
* Callbacks run on another thread and signal a sync context that lives on the
  stack of the thread that made the call. No wait has a timeout.
* A descriptor exists three times (local number, `fd_map`/`fd_redir_map`,
  remote number) with two offsets. The kernel reuses local numbers as soon as
  `__real_close` returns, remote ones as soon as the close handler has run.
* Opens, copies, forwards and server reads can fail; servers stop and come back
  with another address; processes come before the servers are ready.
* 64 locks guard one hash table, and are initialised on first use by whoever
  comes first.
* A reader's timed wait races the callback that would end it, on an object that
  may belong to an earlier owner of the descriptor number.
* 64-bit sizes travel through 32-bit fields.

`PROJECT.json` lists these hazards at their lines, with the properties that
would catch them going wrong.

### What makes each component correct

* Handlers: a read delivers the file that was opened, at the caller's offset,
  cached or not; every open descriptor has one owner; no assert fails on a
  descriptor that is not open; every call is answered.
* Mover: an entry names only a whole copy of the right file; no path is lost
  between the queues; what was drained is dealt with, failures included; what
  was queued is taken up.
* Client: `read`/`pread` return what the kernel would have returned; a closed
  descriptor leaves nothing behind; callbacks find their caller still waiting;
  every call returns; the server is only ever sent descriptors the client holds.
* Descriptor state table: a wait reports success only for an open that
  succeeded, misses no broadcast and ends; a waiter never holds up the progress
  thread; threads of a shard exclude each other.
* Start-up: a remote descriptor goes back to the process that opened it; all
  processes of a job agree on a rank's server; a process that comes when the
  servers are ready is not killed by the library.
* Read sizes: what is returned was transferred and fits the buffer; 0 means end
  of file; the whole file can be read.
* Timing: a summary is a snapshot; a history lists the counted calls.

## 2. Modules

| module | what it is |
|---|---|
| `HvacRpc` | messages of `mthvac_comm.h` and the callers as the server sees them |
| `FileService` | abstract server: each RPC atomic, on the original files |
| `HvacServer` | the server process: handlers and mover thread |
| `HvacServerProofs` | inductive invariant, safety theorems, and the proof that `HvacServer` implements `FileService` |
| `HvacClient` | the client library in one application process, with `FileService` as its server |
| `HvacClientProofs` | layered inductive invariant and safety theorems of `HvacClient` |
| `HvacClientRefinement` | proof that `HvacClient` is a legal caller of `FileService` |
| `HvacSystem` | the client library and the server together, without `FileService` |
| `HvacSystemProofs` | proof that each side may be replaced by the other's specification, and the safety of the whole |
| `FdState` | the descriptor state table: shard locks, map, status objects, timed wait |
| `FdStateProofs` | the exact deadline, inductive invariant and safety theorems of `FdState` |
| `Startup` | servers that start, post, register, stop; processes that look them up |
| `StartupProofs` | inductive invariant and safety theorems of `Startup` |
| `ReadSize` | the sizes of one application's reads through the `int32_t` fields |
| `ReadSizeProofs` | arithmetic lemmas, inductive invariant and theorems of `ReadSize` |
| `Timer` | the timing tables and their users |
| `TimerProofs` | mutex discipline, histories and summaries |
| `MC...` | model values, definitions of constants and symmetry for TLC |

`FileService` is the joint between the two halves: `HvacServer` implements it
(`ImplementsFileService`, checked and proved) and `HvacClient` runs against it
and is shown to be one of its legal callers (`IsFileServiceCaller`, checked and
proved for a client whose forwards succeed). `HvacSystem` puts the two halves
together and shows that nothing is lost at the joint.

### `HvacServer`: state and actions

Mercury's progress thread runs handlers one at a time, so a handler is one step,
with one exception: the close handler is split between its search of
`path_cache_map` and its push, because the mover can publish in between
(`handler` holds the descriptor and path meanwhile, and no other handler runs).
The mover is split where another thread can see a difference: wait, drain under
`data_mutex`, start of the copy, start of the map assignment, its end.

| action | code |
|---|---|
| `hvac_open_rpc_handler` | search of the cache, `open`, `fd_to_path`, respond |
| `hvac_rpc_handler` = `ReadOk` or `ReadFails` | `read`/`pread` and bulk push; `ReadFails` is an assert that fails: on the buffer (`mthvac_comm.cpp:194`), on `HG_Bulk_create` (206), or on `HG_Bulk_transfer` (226), which refuses the size a -1 of `read` becomes |
| `hvac_rpc_handler_bulk_cb`, `PushFails` | push done, respond; or the push or the response fails, and with it an assert (163, 166) |
| `hvac_seek_rpc_handler` | `lseek64` with `SEEK_SET` |
| `hvac_close_rpc_handler`, `CloseQueuesPath` | `close`, assert, search; push, signal, erase |
| `MoverWaits`, `SpuriousWakeup`, `MoverDrains` | the condition wait, which tests nothing, and the drain |
| `MoverCopies`, `MoverFails`, `MoverAssigns`, `MoverPublishes` | `mkdtemp`, `fs::copy`, its exception, the map assignment and `pop` |

A failed assert ends the process. `crashed` says on what it failed: on a
`"descriptor"` that is not open, which is the callers' doing, or on `"io"`, which
is everything else (`ReadFaults` allows it): an I/O error, a directory, a size
`calloc` refuses, a negative offset, a caller that has died.

`Lookup(p)` is the unlocked search. While the mover assigns, a reader of the
same key may get the old name, the new one or a mixture (`Torn`); while a new
key is linked in, any search may miss.

Data: a file is `FileLen` blocks, a read asks for one block, so results are 0
or 1; a block is a pair of file and number, which is what the properties must
tell apart.

### `HvacClient`: state and actions

`thr[t]` is the program counter, descriptor, `done` flag and result of a thread
inside a wrapper. `lfile` is the kernel's table, `fd_map`, `fd_redir_map` and
`fd_state_map` the library's maps, `handle[f]` the RPC in flight for `f`, `cb[f]`
a callback between its map updates and its signal. `app` (descriptors the
application may use) and `pos` (where a plain read would read) describe the
application.

| action | code |
|---|---|
| `open`, `hvac_track_file`, `FdMapInserted`, `CheckMercury` | `__real_open`, the tracking decision, the map insertion, the test of `g_mercury_init` |
| `hvac_init_comm`, `hvac_client_comm_register_rpc` | lazy initialisation, not atomic with the test |
| `hvac_client_comm_gen_open_rpc`, `..._read_rpc`, `..._close_rpc` | the RPCs, with a failing `HG_Forward` |
| `hvac_open_cb`, `hvac_read_cb`, `Signal` | the callbacks, on the progress thread |
| `hvac_wait_for_operation` | the predicate loop on `done` |
| `read`, `LocalRead`, `Return` | both read wrappers and their fallback |
| `close`, `hvac_remove_fd`, `RealClose` | the close wrapper, in the code's order |
| `AssertFails` | `HG_Create` on a class without the RPC |
| `lseek`, `fclose` | calls that are not wrapped and go to the kernel |

`Faults` and `Bypass` select which faults happen and which unwrapped calls the
application makes, so that each question gets a run of its own.

### `HvacSystem`: state and actions

The variables of `HvacClient` and `HvacServer`, which share the RPCs in flight
(`req`, `rsp`, `closeq`) and nothing else: the library's `remote` and the
server's `held` are not variables but expressions. `remoteBar` is the server's
descriptor table without the column that says which copy a descriptor is on;
`heldBar` (of `HvacClient`) is the library seen as callers. A step of the system
is a step of the library (`Application`, `Continue`, `Callback`) that leaves the
server process alone, or a step of the server (`ServerNext`: handlers, bulk
callback, mover) that leaves the client process alone.

The library is instantiated twice. `Lib` is the one that runs: it sees an answer
when its bulk push has ended (`rsp`). `C` sees it when the push starts
(`rspBar`), as `FileService` does, and states the correspondence with
`HvacClient`. `Sv` is the server, with the local descriptors as callers.

### `FdState`: state and actions

`thr[t]` is a thread inside the table: its operation (`opening`, `ready`,
`error`, `refused`, `wait`, `cleanup`), descriptor, the status object it has
found and its deadline. `readers`/`writers` are the holders of the shard locks,
`mutex` that of each `state_mutex`. `phase`, `cur`, `outcome` and `fdOf` follow
the opens that drive the table, so that the properties can say what a wait
should have reported.

| action | code |
|---|---|
| `init_fd_state_rwlocks`, `LockShard`, `UnlockShard` | `get_fd_rwlock` and the two lock modes |
| `hvac_set_fd_opening`, `hvac_get_fd_status`, `hvac_cleanup_fd_state` | the three critical sections of the map |
| `hvac_set_fd_state` | `hvac_set_fd_ready` and `hvac_set_fd_error`: set, broadcast |
| `CheckState`, `FallsAsleep`, `WaitLoop`, `TimesOut` | `hvac_wait_fd_ready` |
| `BeginOpen`, `Forward`, `RunCallback`, `Return`, `OpenReturns` | the open RPC around it |
| `BeginWait`, `BeginCleanup` | the read and close RPCs |

A thread that shares the map with another while one of them modifies it is
`raced`, and its lookup may miss, its insertion or deletion may be lost: the
outcomes of the data race that leave the process alive. A lock initialised
under its holder is undefined behaviour without such a list; `undefined` is set
and the behaviour ends.

### `Startup`: state and actions

`proc[r]` numbers the process that is or was the server of rank `r`, so that an
address (rank and number) of a predecessor differs from that of its successor.

| action | code |
|---|---|
| `hvac_init_comm`, `hvac_comm_list_addr`, `RegisterRpc`, `Stop` | `hvac_start_comm_server` in its order, and `signal_exit` or an assert |
| `hvac_client_comm_lookup_addr` (= cache, `Scan`, or a crash) | the lookup; the scanned stream is never closed |
| `open`, `read`, `close` | the calls, up to `HG_Forward` |
| `OpenAnswered`, `ReadAnswered`, `Refused`, `CallbackAsserts`, `CloseSent` | what becomes of them |
| `request_stats` | a statistics request for a rank of the job; only its lookup matters, nobody looks at what becomes of it |
| `request_stats_too_soon` | the same before Mercury is initialised |
| `request_stats_unknown` | the same for a rank that no server has: it is not found, not cached, and leaks a stream |

`early[c]`, `stopped` and `unknown[c]` (how often `c` asked for a rank that does
not exist) record the excuses of `ReadyServersKeepClientsAlive`.

### `ReadSize` and `Timer`

`ReadSize` follows one read: `gen_read_rpc` narrows the size, `hvac_rpc_handler`
allocates (`AllocFails` for a negative size) and reads at most that much,
`hvac_rpc_handler_bulk_cb` narrows the result, `hvac_read_cb` and the wrapper
return it. Sizes are in bytes, unlike the blocks of the other modules.

`Timer` splits `~TimerGuard` into its three updates and a report into its rows,
all under `mutex`; `log` is what was recorded since the last reset.

## 3. Runs

| run | result | what it shows |
|---|---|---|
| `server_safety` | passes | `TypeOK`, `CacheSound`, `ReadsAreTransparent`, `DescriptorsAccounted`, `NoDescriptorAbort`, `NoFileForgotten` and the refinement `ImplementsFileService`, failing copies, opens, reads and pushes included |
| `server_lost_wakeup` | violated | a queued path can wait for ever |
| `server_read_error` | violated | one failing `read()` aborts the server |
| `client_safety` | passes | `TypeOK`, `ReadsReturnTheFile`, `CallbackTargetsLive`, `NoStaleTracking`, `IsFileServiceCaller`, from a cold start, with failing remote opens |
| `client_live` | passes | after initialisation every call returns, no callback outlives its call, and the remote descriptor of a local one is open, not shared and not being closed (`RemoteDescriptorsOwned`), with all faults and bypassing calls on |
| `system` | passes | library and server together, with no read that fails: `ReadsReturnTheFile`, `DescriptorsAccounted`, `NoDescriptorAbort`; the library behaves as `HvacClient` says (`LibrarySeesFileService`) and the server as `HvacServer` says (`ServerSeesCallers`); every call returns, with nothing assumed of the server but that its threads run; the mover deals with all it has drained; no deadlock |
| `client_double_init` | violated | overlapping first opens initialise Mercury twice |
| `fdstate` | passes | from a cold start, with races on the map: `WaitReportsTheOpen`, `NoMissedBroadcast`, `ShardExclusion`; every wait and every callback ends (`WaitsAndCallbacksEnd`) |
| `fdstate_shards` | violated | two shards' threads are in the one map together |
| `startup` | passes | `OwnerServes`, `ClientsAgree`, `ReadyServersKeepClientsAlive`, with restarts, early processes and statistics requests, for ranks that exist and ranks that do not |
| `timer` | passes | `SummaryIsSnapshot`, `HistoryMatchesCalls`; no deadlock |
| `wire` | passes | `SizesSurvive`, `PositionsAgree`, `WholeFileRead`, for sizes around 2^31 and 2^32 |

The violated runs are the project's findings; `PROJECT.json` quotes for each
the comment, document or assertion that says otherwise.

### Known limits of the code

Met while modelling, and visible in the model when a constant is changed or a
condition of a property is dropped:

* `client_safety` with `Bypass = {"lseek"}` or `{"fclose"}`, or with
  `Faults = {"forward"}` or `{"race"}`, violates `ReadsReturnTheFile`: `lseek`
  and `fclose` are not wrapped (`wrappers.c:403`), and the local fallback
  (`wrappers.c:291`) reads at an offset that remote reads do not move.
* A failed remote open leaves its path in `fd_map` (`mthvac_client.cpp:163`, whose
  comment says otherwise); reads of it are still right.
* The first open before any server has posted reads a null `FILE`
  (`mthvac_comm_client.cpp:595`); between a server's posting
  (`mthvac_server.cpp:70`) and its registration (`:74`) it fails an assert of
  `hvac_open_cb`. The comment at `mthvac_comm.cpp:119` expects the servers to be
  started first; the repository's README starts the server with `&` and then the
  client. After a server was restarted, processes go on using the first
  line of its rank, a dead address.
* Every statistics request for a rank that does not exist opens the ports file
  and never closes it (`mthvac_comm_client.cpp:595`): after enough of them `fopen`
  fails and `fscanf` reads a null `FILE`, with every server ready.
* The server aborts on much that is not its own doing: a `pread` at a negative
  offset other than -1, a `read` of a directory, an I/O error
  (`mthvac_comm.cpp:226`), a caller that dies while a block is pushed to it (`:163`).
* A read of 2^31 bytes or more (modulo 2^32) fails the server's assert on
  `calloc` (`mthvac_comm.cpp:194`); a multiple of 2^32 is answered 0, a false end of file.
* Disabling a tag, resetting and enabling it again brings back calls from before
  the reset (`mthvac_timer.h:159`). The tag enabled at start-up,
  `CLIENT_hvac_open_rpc_wait_data`, is used by no timed section.

### Bounds

* Server: 2 callers, 2 files of 2 blocks, 2 descriptors, 2 cache directories,
  3 opens. Two callers suffice for a close racing another caller's open or read
  of the same file; three opens let a descriptor be reused and a file be opened
  from the original, queued twice, and opened again from the cache; two
  directories let a second copy replace the first and then let space run out;
  two blocks tell offsets 0, 1 and end of file apart. The safety results are
  proved without bounds.
* Client: 2 threads, 2 local and 2 remote descriptors, one tracked and one
  untracked file, 3 opens: a local number is reused for the other kind of file
  while the second thread is inside any other call. `client_live` has 2 opens of
  one tracked file and one remote descriptor: the second remote open fails, or gets
  the number the first has given back. The safety results are proved
  without bounds.
* System: 2 threads, 2 local and 2 remote descriptors, one tracked file of one
  block, 2 opens, one cache directory, no faults: both threads have the file open
  at once, or one opens it, from the original or the copy, while or after the
  other has closed it; the second copy finds no space and fails. The run has one
  file because liveness allows no symmetry; the safety results are proved
  without bounds.
* `fdstate`: 2 application threads and the progress thread, 2 descriptors in
  different shards, 2 opens. Both opens may be of one descriptor, so that a
  waiter still holds the object of its last owner; or of both, so that they race
  in the map. The clock reading is the last nanosecond of a second and the
  timeout 1500 ms, so that the carry happens; the code's only caller uses 5000,
  for which it never does. The safety results are proved without bounds.
* `startup`: 2 ranks, 2 starts (both servers, or one server and its successor), 2
  processes, 2 files on different servers, and one stream more than servers: one
  request for a rank that does not exist may not kill a process, the second may.
  Proved without bounds.
* `timer`: 2 threads, 2 tags, durations 1 and 3, 2 calls per tag. Proved without
  bounds.
* `wire`: `Word` = 16 stands for 2^32 (the code's conversions are modular and
  nothing else depends on it), file length 20 and sizes on both sides of 8, 16
  and 24. Safety is proved for every even `Word`.
* Callers, files and directories (server), and threads and local descriptors
  (client), client processes, and threads and tags (timer) are interchangeable;
  `SYMMETRY` is used in safety runs only.
* Deadlock is checked in `system` and `server_lost_wakeup`, where the server goes
  on waiting and a spurious wakeup is always possible, and in `timer`, where a
  thread that never got the mutex would show. In the others the system may stop:
  a failed assert ends the server, and an application that has used up
  `MaxOpens` is done.

### Fairness

* Server: weak fairness of handlers, bulk callbacks, the rest of the close
  handler and the mover: the progress loop triggers every completion in its
  queue, and the threads are ordinary threads. None for spurious wakeups, which
  nothing guarantees, nor for callers.
* Client: weak fairness of threads inside the library and of the server (which
  `EveryCallReturns` of the system justifies); strong fairness of callbacks, because Mercury's
  completion queue is first in, first out and a callback is not passed over for
  ever by others. None for the application.
* System: that of both sides, without the library's assumption about the server:
  weak fairness of threads inside the library, of the handlers and bulk callback
  of each descriptor, of the rest of the close handler and of the mover, strong
  fairness of the library's callbacks. None for the first part of a close, which
  is one-way and which no call waits for, or for the application.
* `FdState`: strong fairness of each thread inside the table, because a lock that
  becomes free again and again is obtained in the end (glibc's locks do not
  promise more than that in practice), and of time-outs, because time passes. No
  fairness for callers and callbacks: a callback may never come.
* `ReadSize`: weak fairness of the library, strong fairness of `read`, so that an
  application that also calls `pread` goes on reading.

## 4. Proofs

### The server

All theorems hold for any number of callers, files, descriptors and directories,
any file length and any `MaxOpens`. The assumptions are `RpcConstants` and
`ServerConstants`: descriptors are positive, and the markers `NoPath`, `Absent`
and `Torn` differ from what they stand beside.

| theorem | statement |
|---|---|
| `Invariance` | `Spec => []IInv` |
| `TypeCorrect` | `Spec => []TypeOK` |
| `CacheIsSound` | `Spec => []CacheSound` |
| `Transparency` | `Spec => []ReadsAreTransparent` |
| `Accounting` | `Spec => []DescriptorsAccounted` |
| `DescriptorAsserts` | `Spec => []NoDescriptorAbort` |
| `NothingForgotten` | `Spec => NoFileForgotten` |
| `Refinement` | `Spec => ImplementsFileService` |

**The invariant.** `ReadsAreTransparent` is not inductive: it says nothing of a
request on its way, of the descriptor it names, or of the copy behind that
descriptor. `IInv` adds, part by part:

* `MoverInv`: the copy in progress belongs to the head of `local_list`, is
  partial while copying and complete while being published. With `CacheSound`
  it gives `LookupSound`: whatever the unlocked search returns, a hit that can
  be opened is a whole copy of the right file.
* `FdInv`: an open descriptor is on the file `fd_to_path` names, or on a whole
  copy of it; the descriptor of a close handler in progress is closed.
* `CallInv(c)`: a caller's call is a request, or a push, or a response, never
  two of them, and push and response already carry the right answer.
* `OwnInv(c)`: the descriptor a caller holds is open on its file, at the offset
  the caller will have once the answer under way arrives.
* `DescriptorsAccounted`: owners and pending closes partition the open
  descriptors. This keeps a close from pulling a descriptor out from under a
  read of another caller, and keeps `read()` and `close()` from answering `EBADF`
  (`DescriptorAsserts`).

One lemma per action (`OpenIInv`, `ReadIInv`, `BulkIInv`, `SeekIInv`,
`CloseIInv`, ...) shows that it is preserved; `NextIInv` joins them.

**The refinement.** `remoteBar` is the descriptor table without the column that
says which copy a descriptor is on; `rspBar` shows a block as delivered once its
push has started. A read handler is then one `ServeRead`, the bulk callback and
all steps of the mover are stutters, and a read that kills the server is a
stutter too. The proof uses `IInv` for what the copy contains and for the fact
that the descriptor a request names is open.

### The client

`HvacClientProofs` and `HvacClientRefinement`, from `ClientConstants` (markers
differ from what they stand beside, descriptors are positive), for any threads,
descriptors, files and number of opens, cold or warm start:

| theorem | hypothesis | statement |
|---|---|---|
| `CallsInvariance` | none | `Spec => [](BaseTypes /\ CallsInv)` |
| `RemoteInvariance` | none | `Spec => []RemoteInv` |
| `TypeCorrect` | none | `Spec => []TypeOK` |
| `CallbacksTargetLive` | none | `Spec => []CallbackTargetsLive` |
| `RemoteOwned` | none | `Spec => []RemoteDescriptorsOwned` |
| `NoStale` | `Tidy` | `Spec => []NoStaleTracking` |
| `ReadsAreRight` | `Exact` | `Spec => []ReadsReturnTheFile` |
| `ClientIsCaller` | `Faithful` | `Spec => IsFileServiceCaller` |

**The hypotheses** say what the environment does not do. `Tidy`: lookups in the
unlocked maps do not race and the application does not close a tracked
descriptor with `fclose`. `Faithful`: `Tidy`, and `HG_Forward` does not fail.
`Exact`: `Faithful`, and no `lseek`. They are as weak as the code allows. With
one fault or one bypassing call at a time in the instance of `client_safety`
(warm start), TLC gives:

| allowed | `NoStaleTracking` | `IsFileServiceCaller` | `ReadsReturnTheFile` |
|---|---|---|---|
| failing forwards | holds | violated | violated |
| races | violated | violated | violated |
| `fclose` | violated | violated | violated |
| `lseek` | holds | holds | violated |

so that each theorem excludes exactly what breaks it. The reasons are those of
"Known limits": a forward of a close that fails leaves the server's descriptor
open, a failed forward of a read falls back to an offset nobody moved, a lookup
that races misses an entry, `fclose` never reaches `hvac_remove_fd`, and `lseek`
moves the kernel's offset only. Failing remote opens are allowed everywhere.

**The invariant** comes in layers, each inductive given the earlier ones, so
that a result carries no hypothesis it does not need:

* `CallsInv`: a descriptor is in one call at a time, and the message of that
  call is in one place: a request, a response, or a callback between its map
  updates and its signal. `CallbackTargetsLive` is not inductive without this:
  it says that the callback's thread waits, not why the thread cannot have left,
  which is that `done` is set by this callback and by nothing else.
* `RemoteInv`: the descriptors in `fd_redir_map`, and those in answers nobody
  has taken yet, are open at the server, distinct, and in no close under way.
  Types need it too: `heldBar`, the client seen as callers, subtracts from a
  server offset what its caller has not seen, and that is a natural number only
  for a live descriptor.
* `OpensInv`: the bound on opens, which limits the model and not the code.
* `TidyInv`: an entry of `fd_map` names the file the kernel has the descriptor
  on, a redirected descriptor is on that same file and `ready`, and a thread
  about to close or about to insert finds no entry. It depends on `close`
  removing the entry before `__real_close`, and on `open` returning only
  numbers the kernel had free.
* `ReadsInv`: the offset the next `read` will use (the server's if the
  descriptor is redirected, else the kernel's) is the application's position,
  plus what a read under way has taken and not returned, wherever its answer
  is; and that answer is the right one.

**The refinement.** A descriptor of the application is a caller. The open, read
and close RPCs are `ClientOpen`, `ClientRead`, `ClientClose`; a callback's map
update is `ClientRecv`, its signal a stutter; the server's steps are those of
`FileService`; everything else, including local reads and the start of Mercury,
is a stutter. A sequential read moves the server's offset before its caller has
the answer, so `heldBar` takes `Unseen` from it.

### The whole system

The two refinements are not yet a result about the program that runs: the
server's assumes callers that behave, the library's assumes a server that is a
`FileService`, and each is what the other proves. `HvacSystemProofs` breaks the
circle, from `SystemConstants` (those of both sides) and for any threads,
descriptors, files, directories and number of opens, cold or warm start:

| theorem | hypothesis | statement |
|---|---|---|
| `LibraryMeetsServer` | `Faithful` | `Spec => LibrarySeesFileService` |
| `ServerMeetsLibrary` | `Faithful` | `Spec => ServerSeesCallers` |
| `SystemAccounting` | `Faithful` | `Spec => []DescriptorsAccounted` |
| `SystemDescriptorAsserts` | `Faithful` | `Spec => []NoDescriptorAbort` |
| `EndToEnd` | no faults, no bypassing calls | `Spec => []ReadsReturnTheFile` |

`Faithful` is that of the client (no failing forwards, no races, no `fclose`).
Failing opens, copies, server reads and pushes are allowed. That no handler
aborts at all is not claimed: a failing read ends the server (`server_read_error`).
`EndToEnd` is the answer to the question at the top of this document as far as
data goes: whatever the mover, the other threads and their RPCs are doing, a
read returns what the plain file holds.

**The argument.** `SystemInv` is the server's `IInv` and the client's `TidyIInv`,
over the shared state. Neither is preserved without the other: a server step
needs the library's half to be a step of its `FileService`, a library step needs
the server's half to be a call the server expects. `SystemStep` shows from both
that every step of the system is at once a step of `HvacClient` (through
`rspBar`, `remoteBar`) and of `HvacServer` (through `heldBar`), or a stutter of
it; then the invariance lemmas of either side carry their half on
(`NextSystemInv`), and so do their results.

* `LibraryStep`: the library reads `rsp`, `HvacClient` reads `rspBar`. They
  differ for a descriptor whose push is under way, and such a descriptor has no
  response to take (`Apart`, from `IInv`), so a callback takes the same answer
  from both.
* `AskedServer`: what the library's step does to `heldBar` and the messages is
  `ClientOpen`, `ClientRead`, `ClientClose`, `ClientRecv` or nothing
  (`LibraryRefines` of `HvacClientRefinement`).
* `ServerStepServes`: what the server's step does to `remoteBar` and `rspBar` is
  `ServeOpen`, `ServeRead`, `ServeClose` or nothing (`ServerRefines` of
  `HvacServerProofs`).
* The lemmas named `Same...` identify definitions that reach the module through
  different instances.

### The descriptor state table

`FdStateProofs`, from `FdStateConstants` (finitely many application threads,
distinct from the progress threads; any descriptors, any positive number of
shards, any clock and timeouts):

| theorem | statement |
|---|---|
| `DeadlineExact` | the deadline is normalised and exactly `timeout_ms` after the reading |
| `Invariance` | `Spec => []IInv` |
| `TypeCorrect`, `Exclusion`, `NoBroadcastMissed`, `WaitsAreRight` | `Spec => []` of `TypeOK`, `ShardExclusion`, `NoMissedBroadcast`, `WaitReportsTheOpen` |

`ShardExclusion` needs to know which lock a thread inside the map holds
(`LockInv`). `NoMissedBroadcast` needs the step before: a thread about to sleep
holds the mutex of an undecided object (`WaiterInv`), so nobody can decide it.
`WaitReportsTheOpen` goes back to the open: an object becomes ready only through
a thread in `hvac_set_fd_ready`, whose open has succeeded and is the latest of
its descriptor (`OutcomeInv`); that this stays so while the thread looks the
object up rests on `phase` (`PhaseInv`) and on there being one opening, one
completing and one closing thread per descriptor (`Unique`). `FdInv` bounds what
a lookup can find, whatever the races have lost. `BoundInv` is about the model's
own bound. `OneThread`, `WaiterStep` and `UserStep` are the lemmas that do the
work for most actions.

### Start-up and lookup

`StartupProofs`, from `StartupConstants` (in particular as many streams as
servers): `Invariance`, `TypeCorrect`, `OwnersServe`, `Agreement`,
`ClientsStayAlive` for `TypeOK`, `OwnerServes`, `ClientsAgree` and
`ReadyServersKeepClientsAlive`.

`ClientsAgree` holds because the file only grows at its end: a cached address is
that of the first line of its rank (`CacheInv`), and `AppendKeepsFirst` shows
that a new line never becomes the first. `OwnerServes` holds because the owner
of a file is what the cache says for the file's rank (`CallInv`) and an entry of
the cache never changes. `ReadyServersKeepClientsAlive` counts: such a process
has leaked one stream per address it knows and one per request for a rank that
does not exist (`PromptInv`), so a lookup that has to scan finds one left until
the latter are more than `MaxStreams - ServerCount`.

### Sizes

`ReadSizeProofs`, from `ReadSizeConstants`: `TypeCorrect`, `SizesAreKept`,
`Positions`. `SmallSizes` and `AllSizes` say what the conversion to `int32_t`
does to sizes below and above 2^31; the invariant follows a transfer from the
handler to the callback (`Transferred`).

### Timing

`TimerProofs`, from `TimerConstants`:

| theorem | statement |
|---|---|
| `TypeCorrect` | `Spec => []TypeOK` |
| `HistoriesMatch` | `Spec => []HistoryMatchesCalls` |
| `SummariesAreSnapshots` | `Spec => []SummaryIsSnapshot` |

Whoever is inside a critical section holds the mutex (`MutexInv`), so the parts
of `~TimerGuard` that are done and those that are not belong to one thread:
`Counted` and `Added` are what it has put into the table for a call that is not
in `log` yet, and `CallsInv` and `TotalsInv` say that the columns are the log
plus that. A report holds the mutex, so for it both are zero and the rows it has
written are still those of the table (`RowsInv`). `HistoryInv` says that the
history of a tag that was never disabled is the part of the log since it was
enabled, and that a tag not enabled so far has none.

The columns are sums by recursion on the end of the log (`Adds`); the property
uses the library's `FoldSeq`, which takes indices out of a set in an order that
`CHOOSE` fixes and nobody knows. That the two agree is induction over data. It is
done here without an induction theorem, by the least-number principle: a set of
numbers that holds 0 and is closed under successor is all of them, or the least
number outside (`WFMin`) would give a contradiction (`Induction`). From that,
the recursion behind the fold has a solution (`PartialExists`), the sum does not
depend on which index is taken out first (`PartialSplits`), and so the fold
adds one summand for one more element (`TotalAdds`, `SumOfAdds`).

### Only model-checked

Liveness: `EveryCallReturns` (of the client and of the system), `MoverSettles`,
`WaitsAndCallbacksEnd`, `WholeFileRead`. It needs fairness and `ENABLED`, which
the prover does not have. The system run makes the calls the library makes; the
seek RPC, which no wrapper calls, is in `server_safety` and in the proofs of
safety, and that it is answered is not checked. The violated runs are
counterexamples, which TLC finds and nothing else has to show.

## 5. Modelling assumptions

* Asserts are compiled in: the documented build has `-O3` but no `-DNDEBUG`.
* Mercury is external: requests are delivered in any order and answered once; a
  transfer of zero bytes at end of file completes; a transfer longer than the
  registered buffer is refused. A request to a process that is gone is refused
  by `HG_Forward` or completes with an error (`Startup`). A caller that dies
  during a push ends the server (`PushFails`); otherwise peers live. Requests
  decode: the assert on `HG_Get_info` (`mthvac_comm.cpp:202`) is about Mercury and
  does not fail.
* Files of the parallel file system do not change while the job runs, and the
  application only reads. Files opened for update, and stale copies, are outside
  the model.
* A half-written cache name names no existing file. The undefined behaviour of
  the mover's error message (it passes path objects to `fprintf`) is not
  modelled: the exception handler is taken to end.
* Of the outcomes of an unsynchronised search of a client map the model takes
  the mildest, a miss, and one search per call (the wrappers search two or
  three times); it under-approximates the undefined behaviour.
* The application uses a descriptor between `open` and `close`, in one call at
  a time. `open` may return any free number. Offsets of `pread` are not
  negative (the server takes -1 for a sequential read).
* `HvacClient` has one server; which of several servers a path goes to depends
  on the path alone. `fork` is not modelled.
* `hvac_wait_fd_ready`'s timed wait does not start in `HvacClient`, because an
  application reads after `open` has returned. `FdState` lets a read come at any
  time, as it does for a descriptor that two threads share.
* `Startup` has one call at a time per process, and all processes share the
  ports file of one job. `fork`ed processes that inherit a cache are not
  modelled.
* In `ReadSize` a `calloc` of a size beyond 2^63 fails, one below 2^31 succeeds,
  and a `pread` at a negative offset (-1 is served as a sequential read) is not
  made.

## 6. Not modelled

* The library's destructor, `hvac_shutdown_comm` and what `std::exit` does to
  threads that still run: they act when the process ends, and what a library
  user could observe then is up to Mercury and the order of static destructors.
* `hvac_remote_lseek` and the client side of the seek RPC: no wrapper calls them.
* The environment checks of the constructor and `g_disable_redirect`, which is
  set once.
* Wrapper statistics, logging and the test programs: output only, or not part of
  the system.
* The Storage Hierarchy Monitor of the repository's README, for which there is no
  code.

## 7. Plan

Done: the server and the client, each with its safety proofs, joined at
`FileService` by two proved refinements and composed in `HvacSystem`, where the
refinements are shown to support each other; the descriptor state table, start-up
and lookup, read sizes and the timing tables, each with its proofs. Every
invariant and every safety property of a passing run is proved.

Next:

1. `address_cache` (`mthvac_comm_client.cpp:579`) under several threads of one
   process: `Startup` has one call at a time per process.
2. Action properties of the client that follow from its invariant, such as: an
   entry of `fd_redir_map` only changes through the callback of an open or
   through `hvac_remove_fd` of its own descriptor.
3. Shorter proofs: `HvacClientProofs` repeats the frame argument of each RPC for
   each layer.
