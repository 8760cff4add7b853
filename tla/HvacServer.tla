----------------------------- MODULE HvacServer -----------------------------
(***************************************************************************)
(* The hvac_server process: the RPC handlers of mthvac_comm.cpp, which the *)
(* Mercury progress thread runs one at a time, and the data mover thread   *)
(* of mthvac_data_mover.cpp, which copies files into the burst buffer.     *)
(*                                                                         *)
(* The two threads share data_queue (guarded by data_mutex, announced with *)
(* data_cond) and path_cache_map (guarded by nothing).                     *)
(***************************************************************************)
EXTENDS HvacRpc, Sequences, Functions

CONSTANTS
  Dir,        \* directories mkdtemp() can create under BBPATH
  Absent,     \* path_cache_map has no entry
  Torn,       \* a path_cache_map string read in the middle of an assignment
  ReadFaults  \* may the allocation, the read() or the push of a read RPC fail?

ASSUME ServerConstants ==
  /\ Absent \notin Dir /\ Torn \notin Dir /\ Absent # Torn
  /\ ReadFaults \in BOOLEAN

VARIABLES
  kfile,          \* the kernel's descriptor table of the server process
  fd_to_path,     \* map<int,string> fd_to_path
  path_cache_map, \* map<string,string>: file -> directory holding its copy
  burst,          \* the cache files under BBPATH, one per mkdtemp directory
  data_queue,     \* queue<string> data_queue
  local_list,     \* the mover's local queue
  mover_pc,       \* where the data mover thread is
  mover_dir,      \* the mover's local variable filename (its directory)
  handler,        \* the close handler between its lookup and its push
  bulk,           \* bulk[c]: the buffer being pushed to c
  crashed         \* has an assert() of the server failed, and on what

fdVars     == <<kfile, fd_to_path>>
moverVars  == <<path_cache_map, burst, local_list, mover_dir>>
queueVars  == <<data_queue, mover_pc>>
handlerVars == <<handler, bulk, crashed>>
serverVars == <<fdVars, moverVars, queueVars, handlerVars>>
vars == <<rpcVars, serverVars>>

-----------------------------------------------------------------------------
NoHandler == [path |-> NoPath, fd |-> 0]
Closed == [path |-> NoPath, dir |-> Absent, off |-> 0]
Unused == [path |-> NoPath, state |-> "unused"]

TypeOK ==
  /\ RpcTypeOK
  /\ kfile \in [Fd -> [path : Paths0, dir : Dir \cup {Absent}, off : Offset]]
  /\ fd_to_path \in [Fd \cup {Failed} -> Paths0]
  /\ path_cache_map \in [Path -> Dir \cup {Absent}]
  /\ burst \in [Dir -> [path : Paths0,
                        state : {"unused", "partial", "complete"}]]
  /\ data_queue \in Seq(Path)
  /\ local_list \in Seq(Path)
  /\ mover_pc \in {"next", "waiting", "signalled", "copying", "assigning"}
  /\ mover_dir \in Dir \cup {Absent}
  /\ handler \in [path : Paths0, fd : Fd \cup {0}]
  /\ bulk \in [Caller -> RpcOut]
  /\ crashed \in {"no", "descriptor", "io"}

Init ==
  /\ RpcInit
  /\ kfile = [f \in Fd |-> Closed]
  /\ fd_to_path = [f \in Fd \cup {Failed} |-> NoPath]
  /\ path_cache_map = [p \in Path |-> Absent]
  /\ burst = [d \in Dir |-> Unused]
  /\ data_queue = <<>>
  /\ local_list = <<>>
  /\ mover_pc = "next"
  /\ mover_dir = Absent
  /\ handler = NoHandler
  /\ bulk = [c \in Caller |-> NoRsp]
  /\ crashed = "no"

-----------------------------------------------------------------------------
(* The RPC handlers.  HG_Trigger runs a handler to its end before the next *)
(* one starts, so handlers interleave only with the mover thread.          *)

Up == crashed = "no"
HandlerIdle == Up /\ handler = NoHandler

\* The kernel answers EBADF.
BadFd(f) == f \notin Fd \/ kfile[f].path = NoPath

FreeFd == {f \in Fd : kfile[f].path = NoPath}

\* What path_cache_map.find(p) and, on a hit, operator[] may yield.  There
\* is no lock.  While the mover assigns the string of one key a reader of
\* that key sees the old value, the new one or a mixture (Torn); while it
\* links a new key into the tree a lookup of any key may miss.
Lookup(p) ==
  {path_cache_map[p]} \cup
  (IF mover_pc # "assigning" THEN {}
   ELSE (IF p = Head(local_list) THEN {Torn, mover_dir} ELSE {}) \cup
        (IF path_cache_map[Head(local_list)] = Absent THEN {Absent} ELSE {}))

\* open(redir_path, O_RDONLY): a Torn name names no file; any open may fail.
OpenResults(hit) == {Failed} \cup (IF hit = Torn THEN {} ELSE FreeFd)

hvac_open_rpc_handler(c) ==
  /\ HandlerIdle
  /\ req[c].op = "open"
  /\ \E hit \in Lookup(req[c].path) : \E ret \in OpenResults(hit) :
       /\ kfile' = IF ret = Failed THEN kfile
                   ELSE [kfile EXCEPT ![ret] =
                           [path |-> req[c].path, dir |-> hit, off |-> 0]]
       /\ fd_to_path' = [fd_to_path EXCEPT ![ret] = req[c].path]
       /\ Respond(c, Rsp("open", ret, NoData))
  /\ UNCHANGED <<closeq, moverVars, queueVars, handlerVars>>

\* The file behind descriptor f: the original, or a copy under BBPATH.
Source(f) == IF kfile[f].dir = Absent THEN kfile[f].path
             ELSE burst[kfile[f].dir].path
Whole(f) == kfile[f].dir = Absent \/ burst[kfile[f].dir].state = "complete"

\* What read()/pread() deliver at offset o: one block, or end of file.
BytesAt(f, o) == IF o < FileLen /\ Whole(f) THEN 1 ELSE 0
BlockAt(f, o) == IF BytesAt(f, o) = 0 THEN NoData
                 ELSE [src |-> Source(f), blk |-> o]

\* Mutant: every read uses the descriptor's own offset.
IgnoreOffset(c) == kfile[req[c].fd].off

ReadOffset(c) == IF req[c].off = Sequential THEN kfile[req[c].fd].off
                 ELSE req[c].off

\* Mutant: a positioned read moves the descriptor's offset.
PreadMovesOffset(c) ==
  LET f == req[c].fd
      n == BytesAt(f, ReadOffset(c))
  IN  /\ f \in Fd /\ kfile[f].path # NoPath
      /\ bulk' = [bulk EXCEPT ![c] =
                    Rsp("read", n, BlockAt(f, ReadOffset(c)))]
      /\ kfile' = [kfile EXCEPT ![f].off = ReadOffset(c) + n]
      /\ req' = [req EXCEPT ![c] = NoReq]
      /\ UNCHANGED crashed

ReadOk(c) ==
  LET f == req[c].fd
      n == BytesAt(f, ReadOffset(c))
  IN  /\ f \in Fd /\ kfile[f].path # NoPath
      /\ bulk' = [bulk EXCEPT ![c] =
                    Rsp("read", n, BlockAt(f, ReadOffset(c)))]
      /\ kfile' = IF req[c].off = Sequential
                  THEN [kfile EXCEPT ![f].off = @ + n] ELSE kfile
      /\ req' = [req EXCEPT ![c] = NoReq]
      /\ UNCHANGED crashed

\* An assert of the read handler fails: on the buffer, when calloc refuses a
\* size (a negative input_val, that is a read of 2^31 bytes or more); on
\* HG_Bulk_create; or on HG_Bulk_transfer, which refuses the transfer size
\* 2^64 - 1 that readbytes = -1 becomes (an I/O error, a directory, a
\* negative offset, or a descriptor that is not open).
ReadFails(c) ==
  /\ \/ ReadFaults /\ crashed' = "io"
     \/ BadFd(req[c].fd) /\ crashed' = "descriptor"
  /\ UNCHANGED <<req, kfile, bulk>>

hvac_rpc_handler(c) ==
  /\ HandlerIdle
  /\ req[c].op = "read"
  /\ ReadOk(c) \/ ReadFails(c)
  /\ UNCHANGED <<rsp, closeq, fd_to_path, moverVars, queueVars, handler>>

\* Mutant: nothing is answered when nothing was read.
RespondOnlyWithData(c) ==
  /\ HandlerIdle
  /\ bulk[c] # NoRsp
  /\ rsp' = IF bulk[c].ret = 0 THEN rsp ELSE [rsp EXCEPT ![c] = bulk[c]]
  /\ bulk' = [bulk EXCEPT ![c] = NoRsp]
  /\ UNCHANGED <<req, closeq, fdVars, moverVars, queueVars, handler, crashed>>

\* The push has completed: answer, then free the buffer.
hvac_rpc_handler_bulk_cb(c) ==
  /\ HandlerIdle
  /\ bulk[c] # NoRsp
  /\ rsp' = [rsp EXCEPT ![c] = bulk[c]]
  /\ bulk' = [bulk EXCEPT ![c] = NoRsp]
  /\ UNCHANGED <<req, closeq, fdVars, moverVars, queueVars, handler, crashed>>

\* The push or the response fails, say because the caller has died: an
\* assert of the callback fails.
PushFails(c) ==
  /\ ReadFaults
  /\ HandlerIdle
  /\ bulk[c] # NoRsp
  /\ crashed' = "io"
  /\ UNCHANGED <<ifVars, fdVars, moverVars, queueVars, handler, bulk>>

\* lseek64(fd, offset, SEEK_SET)
hvac_seek_rpc_handler(c) ==
  LET f == req[c].fd
      open == f \in Fd /\ kfile[f].path # NoPath
  IN  /\ HandlerIdle
      /\ req[c].op = "seek"
      /\ kfile' = IF open THEN [kfile EXCEPT ![f].off = req[c].off] ELSE kfile
      /\ Respond(c, Rsp("seek", IF open THEN req[c].off ELSE Failed, NoData))
      /\ UNCHANGED <<closeq, fd_to_path, moverVars, queueVars, handlerVars>>

\* Mutant: a cached file is not closed.
CloseOnlyOnMiss(f) ==
  \E hit \in Lookup(fd_to_path[f]) :
    \/ /\ hit = Absent
       /\ kfile' = [kfile EXCEPT ![f] = Closed]
       /\ handler' = [path |-> fd_to_path[f], fd |-> f]
       /\ UNCHANGED fd_to_path
    \/ /\ hit # Absent
       /\ fd_to_path' = [fd_to_path EXCEPT ![f] = NoPath]
       /\ UNCHANGED <<kfile, handler>>

\* After close(in.fd): a hit in path_cache_map ends the handler with
\* fd_to_path.erase(in.fd), a miss goes on to CloseQueuesPath.
CloseAndLookup(f) ==
  /\ kfile' = [kfile EXCEPT ![f] = Closed]
  /\ \E hit \in Lookup(fd_to_path[f]) :
       \/ /\ hit = Absent
          /\ handler' = [path |-> fd_to_path[f], fd |-> f]
          /\ UNCHANGED fd_to_path
       \/ /\ hit # Absent
          /\ fd_to_path' = [fd_to_path EXCEPT ![f] = NoPath]
          /\ UNCHANGED handler

\* close() of a descriptor that is not open fails: assert(ret == 0).
hvac_close_rpc_handler(f) ==
  /\ HandlerIdle
  /\ f \in closeq
  /\ closeq' = closeq \ {f}
  /\ crashed' = IF BadFd(f) THEN "descriptor" ELSE crashed
  /\ IF BadFd(f) THEN UNCHANGED <<fdVars, handler>> ELSE CloseAndLookup(f)
  /\ UNCHANGED <<req, rsp, moverVars, queueVars, bulk>>

\* pthread_cond_signal wakes the mover only if it is inside the wait.
pthread_cond_signal ==
  mover_pc' = IF mover_pc = "waiting" THEN "signalled" ELSE mover_pc

\* Mutant: fd_to_path.erase(in.fd) runs before the push that reads it.
EraseBeforePush ==
  /\ Up
  /\ handler # NoHandler
  /\ fd_to_path' = [fd_to_path EXCEPT ![handler.fd] = NoPath]
  /\ data_queue' = Append(data_queue, fd_to_path'[handler.fd])
  /\ pthread_cond_signal
  /\ handler' = NoHandler
  /\ UNCHANGED <<ifVars, kfile, moverVars, bulk, crashed>>

\* The rest of the close handler, after a miss: push and signal under
\* data_mutex, then fd_to_path.erase(in.fd).
CloseQueuesPath ==
  /\ Up
  /\ handler # NoHandler
  /\ data_queue' = Append(data_queue, handler.path)
  /\ pthread_cond_signal
  /\ fd_to_path' = [fd_to_path EXCEPT ![handler.fd] = NoPath]
  /\ handler' = NoHandler
  /\ UNCHANGED <<ifVars, kfile, moverVars, bulk, crashed>>

-----------------------------------------------------------------------------
(* hvac_data_mover_fn.  Nothing happens between pthread_mutex_lock and     *)
(* pthread_cond_wait, nor outside data_mutex while the queue is drained,   *)
(* so each of the two critical sections is one step.                       *)

\* The top of the loop: lock data_mutex and wait on data_cond, whatever
\* data_queue holds.
MoverWaits ==
  /\ Up
  /\ mover_pc = "next" /\ local_list = <<>>
  /\ mover_pc' = "waiting"
  /\ UNCHANGED <<ifVars, fdVars, moverVars, data_queue, handlerVars>>

\* pthread_cond_wait may return without a signal.
SpuriousWakeup ==
  /\ Up
  /\ mover_pc = "waiting"
  /\ mover_pc' = "signalled"
  /\ UNCHANGED <<ifVars, fdVars, moverVars, data_queue, handlerVars>>

\* Mutant: one path is taken, and the queue emptied.
DrainsOne ==
  /\ Up
  /\ mover_pc = "signalled"
  /\ local_list' = IF data_queue = <<>> THEN <<>> ELSE <<Head(data_queue)>>
  /\ data_queue' = <<>>
  /\ mover_pc' = "next"
  /\ UNCHANGED <<ifVars, fdVars, path_cache_map, burst, mover_dir, handlerVars>>

\* Awake with data_mutex held again: move data_queue to local_list.
MoverDrains ==
  /\ Up
  /\ mover_pc = "signalled"
  /\ local_list' = local_list \o data_queue
  /\ data_queue' = <<>>
  /\ mover_pc' = "next"
  /\ UNCHANGED <<ifVars, fdVars, path_cache_map, burst, mover_dir, handlerVars>>

\* Mutant: the entry is published before the copy is made.
PublishBeforeCopy ==
  /\ Up
  /\ mover_pc = "next" /\ local_list # <<>>
  /\ \E d \in Dir :
       /\ burst[d] = Unused
       /\ burst' = [burst EXCEPT ![d] = [path |-> Head(local_list),
                                         state |-> "partial"]]
       /\ mover_dir' = d
       /\ path_cache_map' = [path_cache_map EXCEPT ![Head(local_list)] = d]
  /\ mover_pc' = "copying"
  /\ UNCHANGED <<ifVars, fdVars, data_queue, local_list, handlerVars>>

\* mkdtemp() succeeds and fs::copy starts writing.
MoverCopies ==
  /\ Up
  /\ mover_pc = "next" /\ local_list # <<>>
  /\ \E d \in Dir :
       /\ burst[d] = Unused
       /\ burst' = [burst EXCEPT ![d] = [path |-> Head(local_list),
                                         state |-> "partial"]]
       /\ mover_dir' = d
  /\ mover_pc' = "copying"
  /\ UNCHANGED <<ifVars, fdVars, path_cache_map, data_queue, local_list,
                 handlerVars>>

\* Mutant: a failed copy skips local_list.pop().
FailWithoutPop ==
  /\ Up
  /\ \/ mover_pc = "next" /\ local_list # <<>>
     \/ mover_pc = "copying"
  /\ mover_dir' = Absent
  /\ mover_pc' = "next"
  /\ UNCHANGED <<ifVars, fdVars, path_cache_map, burst, data_queue, local_list,
                 handlerVars>>

\* mkdtemp() failed, or fs::copy threw: the path is dropped, a partial file
\* stays behind.
MoverFails ==
  /\ Up
  /\ \/ mover_pc = "next" /\ local_list # <<>>
     \/ mover_pc = "copying"
  /\ local_list' = Tail(local_list)
  /\ mover_dir' = Absent
  /\ mover_pc' = "next"
  /\ UNCHANGED <<ifVars, fdVars, path_cache_map, burst, data_queue, handlerVars>>

\* fs::copy returned; path_cache_map[local_list.front()] = filename begins.
MoverAssigns ==
  /\ Up
  /\ mover_pc = "copying"
  /\ burst' = [burst EXCEPT ![mover_dir].state = "complete"]
  /\ mover_pc' = "assigning"
  /\ UNCHANGED <<ifVars, fdVars, path_cache_map, data_queue, local_list,
                 mover_dir, handlerVars>>

\* The assignment is complete; local_list.pop().
MoverPublishes ==
  /\ Up
  /\ mover_pc = "assigning"
  /\ path_cache_map' = [path_cache_map EXCEPT ![Head(local_list)] = mover_dir]
  /\ local_list' = Tail(local_list)
  /\ mover_dir' = Absent
  /\ mover_pc' = "next"
  /\ UNCHANGED <<ifVars, fdVars, burst, data_queue, handlerVars>>

MoverStep ==
  \/ MoverWaits \/ MoverDrains \/ MoverCopies \/ MoverFails
  \/ MoverAssigns \/ MoverPublishes

Handler(c) ==
  \/ hvac_open_rpc_handler(c)
  \/ hvac_rpc_handler(c)
  \/ hvac_rpc_handler_bulk_cb(c)
  \/ PushFails(c)
  \/ hvac_seek_rpc_handler(c)

ServerNext ==
  \/ \E c \in Caller : Handler(c)
  \/ \E f \in Fd : hvac_close_rpc_handler(f)
  \/ CloseQueuesPath
  \/ MoverStep
  \/ SpuriousWakeup

-----------------------------------------------------------------------------
Next == \/ ServerNext /\ UNCHANGED callerVars
        \/ CallerNext /\ UNCHANGED serverVars

Spec == Init /\ [][Next]_vars

\* The progress loop triggers every queued completion and the mover is an
\* ordinary thread.  Nothing makes callers go on, and nothing makes
\* pthread_cond_wait return without a signal.
Fairness ==
  /\ \A c \in Caller : WF_vars(Handler(c) /\ UNCHANGED callerVars)
  /\ \A f \in Fd : WF_vars(hvac_close_rpc_handler(f) /\ UNCHANGED callerVars)
  /\ WF_vars(CloseQueuesPath /\ UNCHANGED callerVars)
  /\ WF_vars(MoverStep /\ UNCHANGED callerVars)

FairSpec == Spec /\ Fairness

-----------------------------------------------------------------------------
(* Properties.                                                             *)

\* A path_cache_map entry names a copy of that very file whose fs::copy has
\* returned: the unlocked map is published after the copy, never before.
CacheSound ==
  \A p \in Path :
    path_cache_map[p] # Absent
      => burst[path_cache_map[p]] = [path |-> p, state |-> "complete"]

\* The descriptor that an open response is carrying to c.
Arriving(c) == IF rsp[c].op = "open" /\ rsp[c].ret # Failed
               THEN {rsp[c].ret} ELSE {}
Owned(c) == Arriving(c) \cup ({held[c].fd} \ {0})

\* A descriptor open in the server belongs to one caller, or is named by one
\* close RPC: none leaks, none is shared, none is closed under its owner.
DescriptorsAccounted ==
  /\ \A f \in Fd : kfile[f].path # NoPath
       <=> f \in closeq \/ \E c \in Caller : f \in Owned(c)
  /\ \A c \in Caller : Owned(c) \cap closeq = {}
  /\ \A c, d \in Caller : c # d => Owned(c) \cap Owned(d) = {}

\* The server does not abort: neither the asserts of the read handler and of
\* its bulk callback nor that of the close handler fail.
NoAbort == crashed = "no"

\* No assert fails because an RPC names a descriptor that is not open: not
\* assert(ret == 0) after close(in.fd), nor the one after HG_Bulk_transfer
\* when read() has answered EBADF.
NoDescriptorAbort == crashed # "descriptor"

Pending == (Range(data_queue) \cup Range(local_list) \cup {handler.path})
             \ {NoPath}
Tracked == Pending \cup ({kfile[f].path : f \in Fd} \ {NoPath})

\* A file that was opened stays open, or on its way through the close
\* handler, data_queue and local_list, until it is cached or the mover has
\* tried to copy it: neither thread drops a path between the two queues.
NoFileForgotten ==
  [][\A p \in Tracked \ Tracked' :
       \/ path_cache_map'[p] # Absent
       \/ local_list # <<>> /\ p = Head(local_list)]_vars

(* The server as a file service: the mover, the cache and the bulk push are *)
(* hidden.  A block counts as delivered once its push has started.         *)

remoteBar == [f \in Fd |-> [path |-> kfile[f].path, off |-> kfile[f].off]]
rspBar == [c \in Caller |-> IF bulk[c] # NoRsp THEN bulk[c] ELSE rsp[c]]

FS == INSTANCE FileService WITH remote <- remoteBar, rsp <- rspBar

\* Whatever the mover copies, publishes or fails to copy in the meantime,
\* and however reads overlap with their bulk transfers, callers see a server
\* that performs each RPC atomically on the original files.
ImplementsFileService == FS!Spec

\* What the mover has drained it deals with, copies that fail included.
MoverSettles ==
  \A p \in Path : p \in Range(local_list) ~> p \notin Range(local_list)

\* "Signal to the data mover to copy the file": a queued path is taken up.
SignalReachesMover ==
  \A p \in Path : p \in Range(data_queue) ~> p \notin Range(data_queue)
=============================================================================
