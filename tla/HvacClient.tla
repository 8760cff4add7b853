----------------------------- MODULE HvacClient -----------------------------
(***************************************************************************)
(* The client library (libhvac_client.so) inside one application process:  *)
(* the open, read, pread and close wrappers of wrappers.c, the tracking    *)
(* maps of mthvac_client.cpp, and the RPC layer of mthvac_comm_client.cpp, *)
(* whose callbacks run on the Mercury progress thread.  The server is      *)
(* FileService.                                                            *)
(*                                                                         *)
(* The application is well behaved: it uses a descriptor from the return   *)
(* of open() to the call of close(), in one call at a time.  It may run    *)
(* any number of threads on different descriptors.                         *)
(***************************************************************************)
EXTENDS Integers, FiniteSets

CONSTANTS
  Thread,     \* application threads
  Lfd,        \* descriptors open() can return in the client process
  Path,       \* files the application opens
  NoPath,     \* "no file"
  DataDir,    \* the files under HVAC_DATA_DIR
  Fd,         \* descriptors of the server process
  FileLen,    \* blocks per file
  MaxOpens,   \* bound: open RPCs
  None,       \* "no descriptor", "no thread"
  WarmStart,  \* has an earlier open() already initialised Mercury?
  Faults,     \* "forward": HG_Forward may fail; "race": map lookups may race
  Bypass      \* unwrapped calls the application makes: "lseek", "fclose"

ASSUME ClientConstants ==
  /\ DataDir \subseteq Path /\ NoPath \notin Path /\ None \notin Lfd \cup Thread
  /\ Fd \subseteq Nat \ {0} /\ FileLen \in Nat /\ MaxOpens \in Nat
  /\ WarmStart \in BOOLEAN
  /\ Faults \subseteq {"forward", "race"}
  /\ Bypass \subseteq {"lseek", "fclose"}

VARIABLES
  lfile,          \* the kernel's descriptor table of the client process
  fd_map,         \* unordered_map<int,string>: the tracked descriptors
  fd_redir_map,   \* unordered_map<int,int>: local -> remote descriptor
  fd_state_map,   \* fd_state_map[f]: the state of f's hvac_fd_status
  g_mercury_init, \* bool g_mercury_init
  hg_class,       \* how many times Mercury was initialised; 0: never
  registered,     \* the last hg_class the RPCs were registered with
  aborted,        \* an assert() of the library has failed
  thr,            \* where each application thread is
  handle,         \* handle[f]: the hg_handle_t of the two-way RPC on f
  cb,             \* cb[f]: the response f's callback is working on
  app,            \* descriptors the application may use
  pos,            \* pos[f]: where a plain read() of f would read (auxiliary)
  req, rsp, closeq, opens,   \* the RPC interface, see HvacRpc
  remote                     \* the server's descriptor table

mapVars     == <<fd_map, fd_redir_map, fd_state_map>>
mercuryVars == <<g_mercury_init, hg_class, registered>>
rpcVars     == <<req, rsp, closeq>>
callVars    == <<handle, cb, opens>>
appVars     == <<app, pos>>
clientVars  == <<lfile, mapVars, mercuryVars, aborted, thr, callVars, appVars>>
vars        == <<clientVars, rpcVars, remote>>

-----------------------------------------------------------------------------
(* The server, and this process as its callers: a tracked descriptor f is  *)
(* a caller that holds the remote descriptor fd_redir_map names.           *)

\* A sequential answer not yet taken has already moved the remote offset.
Unseen(f) == IF rsp[f].op = "read" /\ handle[f].call.off = -1
             THEN rsp[f].ret ELSE 0

heldBar ==
  [f \in Lfd |->
    [fd   |-> fd_redir_map[f],
     path |-> IF fd_redir_map[f] = 0 THEN NoPath ELSE fd_map[f],
     off  |-> IF fd_redir_map[f] = 0 THEN 0
              ELSE remote[fd_redir_map[f]].off - Unseen(f),
     call |-> handle[f].call]]

S == INSTANCE FileService WITH Caller <- Lfd, held <- heldBar

NoCall  == S!NoReq
NoRsp   == S!NoRsp
Unlinked == [path |-> NoPath, off |-> 0]

Idle == [pc |-> "idle", op |-> "none", fd |-> None, off |-> 0, done |-> FALSE,
         out |-> NoRsp]
NoHandle == [call |-> NoCall, thread |-> None, class |-> 0]

Pc == {"idle", "track", "inserting", "tracked", "init", "register",
       "forward_open", "forward_read", "wait", "local", "untrack", "close",
       "return"}

TypeOK ==
  /\ lfile \in [Lfd -> [path : Path \cup {NoPath}, off : 0 .. FileLen]]
  /\ fd_map \in [Lfd -> Path \cup {NoPath}]
  /\ fd_redir_map \in [Lfd -> Fd \cup {0}]
  /\ fd_state_map \in [Lfd -> {"none", "opening", "ready", "error"}]
  /\ g_mercury_init \in BOOLEAN
  /\ hg_class \in Nat /\ registered \in 0 .. hg_class
  /\ aborted \in BOOLEAN
  /\ thr \in [Thread -> [pc : Pc, op : {"none", "open", "read", "close"},
                         fd : Lfd \cup {None}, off : -1 .. FileLen,
                         done : BOOLEAN, out : S!RpcOut]]
  /\ handle \in [Lfd -> [call : S!RpcIn, thread : Thread \cup {None},
                     class : Nat]]
  /\ cb \in [Lfd -> S!RpcOut]
  /\ app \in SUBSET Lfd
  /\ pos \in [Lfd -> 0 .. FileLen]
  /\ S!TypeOK

Init ==
  /\ lfile = [f \in Lfd |-> Unlinked]
  /\ fd_map = [f \in Lfd |-> NoPath]
  /\ fd_redir_map = [f \in Lfd |-> 0]
  /\ fd_state_map = [f \in Lfd |-> "none"]
  /\ g_mercury_init = WarmStart
  /\ hg_class = IF WarmStart THEN 1 ELSE 0
  /\ registered = hg_class
  /\ aborted = FALSE
  /\ thr = [t \in Thread |-> Idle]
  /\ handle = [f \in Lfd |-> NoHandle]
  /\ cb = [f \in Lfd |-> NoRsp]
  /\ app = {}
  /\ pos = [f \in Lfd |-> 0]
  /\ req = [f \in Lfd |-> NoCall]
  /\ rsp = [f \in Lfd |-> NoRsp]
  /\ closeq = {}
  /\ opens = 0
  /\ remote = [f \in Fd |-> S!NotOpen]

-----------------------------------------------------------------------------
At(t, pc) == ~aborted /\ thr[t].pc = pc
Goto(t, pc) == thr' = [thr EXCEPT ![t].pc = pc]

\* Thread t starts a call on f, which no other call uses.
Begin(t, pc, op, f, o) ==
  /\ At(t, "idle")
  /\ \A u \in Thread : thr[u].fd # f
  /\ thr' = [thr EXCEPT ![t] = [Idle EXCEPT !.pc = pc, !.op = op, !.fd = f,
                                            !.off = o]]

\* A call is over with result r.
Finish(t, r) == thr' = [thr EXCEPT ![t].pc = "return", ![t].out = r]

-----------------------------------------------------------------------------
(* open()                                                                  *)

\* Opens not yet counted in opens.
Opening == {t \in Thread : thr[t].pc \in {"track", "inserting", "tracked",
                                         "init", "register", "forward_open"}}

\* __real_open; hvac_track_file follows.
open(t, p) ==
  /\ opens + Cardinality(Opening) < MaxOpens
  /\ \E f \in Lfd :
       /\ lfile[f].path = NoPath
       /\ Begin(t, "track", "open", f, 0)
       /\ lfile' = [lfile EXCEPT ![f] = [path |-> p, off |-> 0]]
       /\ pos' = [pos EXCEPT ![f] = 0]
  /\ UNCHANGED <<mapVars, mercuryVars, aborted, callVars, app, rpcVars, remote>>

\* hvac_track_file: a file outside HVAC_DATA_DIR (or opened for writing) is
\* not tracked; otherwise fd_map[fd] = path begins.
hvac_track_file(t) ==
  /\ At(t, "track")
  /\ IF lfile[thr[t].fd].path \in DataDir THEN Goto(t, "inserting")
     ELSE Finish(t, NoRsp)
  /\ UNCHANGED <<lfile, mapVars, mercuryVars, aborted, callVars, appVars,
                 rpcVars, remote>>

FdMapInserted(t) ==
  /\ At(t, "inserting")
  /\ fd_map' = [fd_map EXCEPT ![thr[t].fd] = lfile[thr[t].fd].path]
  /\ Goto(t, "tracked")
  /\ UNCHANGED <<lfile, fd_redir_map, fd_state_map, mercuryVars, aborted,
                 callVars, appVars, rpcVars, remote>>

\* if (!g_mercury_init): no lock is held.
CheckMercury(t) ==
  /\ At(t, "tracked")
  /\ Goto(t, IF g_mercury_init THEN "forward_open" ELSE "init")
  /\ UNCHANGED <<lfile, mapVars, mercuryVars, aborted, callVars, appVars,
                 rpcVars, remote>>

\* A new class, a new context and one more progress thread.
hvac_init_comm(t) ==
  /\ At(t, "init")
  /\ hg_class' = hg_class + 1
  /\ Goto(t, "register")
  /\ UNCHANGED <<lfile, mapVars, g_mercury_init, registered, aborted, callVars,
                 appVars, rpcVars, remote>>

hvac_client_comm_register_rpc(t) ==
  /\ At(t, "register")
  /\ registered' = hg_class
  /\ g_mercury_init' = TRUE
  /\ Goto(t, "forward_open")
  /\ UNCHANGED <<lfile, mapVars, hg_class, aborted, callVars, appVars, rpcVars,
                 remote>>

\* HG_Forward of a two-way RPC: t will wait for the callback.
Forward(t, r) ==
  LET f == thr[t].fd
  IN  /\ hg_class = registered
      /\ req' = [req EXCEPT ![f] = r]
      /\ handle' = [handle EXCEPT ![f] = [call |-> r, thread |-> t,
                                          class |-> hg_class]]
      /\ Goto(t, "wait")
      /\ UNCHANGED <<rsp, closeq, cb>>

\* HG_Forward refuses: the caller goes to pc.
ForwardFails(t, pc) ==
  /\ "forward" \in Faults
  /\ hg_class = registered
  /\ thr' = [thr EXCEPT ![t].pc = pc, ![t].out = S!Rsp("open", -1, S!NoData)]
  /\ UNCHANGED <<rpcVars, handle, cb>>

\* hvac_set_fd_opening, then the RPC; set_fd_error when it is not sent.
hvac_client_comm_gen_open_rpc(t) ==
  LET f == thr[t].fd
  IN  /\ At(t, "forward_open")
      /\ \/ /\ Forward(t, S!OpenReq(fd_map[f]))
            /\ fd_state_map' = [fd_state_map EXCEPT ![f] = "opening"]
            /\ opens' = opens + 1
         \/ /\ ForwardFails(t, "return")
            /\ fd_state_map' = [fd_state_map EXCEPT ![f] = "error"]
            /\ UNCHANGED opens
      /\ UNCHANGED <<lfile, fd_map, fd_redir_map, mercuryVars, aborted, appVars,
                     remote>>

-----------------------------------------------------------------------------
(* The callbacks.  hvac_progress_fn, one thread per hvac_init_comm, always *)
(* triggers the context created last: the others make no progress.         *)

CallbackRuns(f) ==
  /\ ~aborted
  /\ rsp[f] # NoRsp /\ handle[f].class = hg_class
  /\ Cardinality({g \in Lfd : cb[g] # NoRsp}) < hg_class
  /\ cb' = [cb EXCEPT ![f] = rsp[f]]
  /\ rsp' = [rsp EXCEPT ![f] = NoRsp]
  /\ handle' = [handle EXCEPT ![f].call = NoCall]
  /\ UNCHANGED <<lfile, fd_map, mercuryVars, aborted, thr, opens, appVars, req,
                 closeq, remote>>

\* Mutant: the returned status is recorded without looking at its sign.
OpenCbTrustsStatus(f) ==
  /\ rsp[f].op = "open"
  /\ CallbackRuns(f)
  /\ fd_redir_map' = [fd_redir_map EXCEPT ![f] = rsp[f].ret]
  /\ fd_state_map' = [fd_state_map EXCEPT ![f] = "ready"]

\* Up to the signal.  A status of 0 or less is an error.
hvac_open_cb(f) ==
  /\ rsp[f].op = "open"
  /\ CallbackRuns(f)
  /\ IF rsp[f].ret > 0
     THEN /\ fd_redir_map' = [fd_redir_map EXCEPT ![f] = rsp[f].ret]
          /\ fd_state_map' = [fd_state_map EXCEPT ![f] = "ready"]
     ELSE /\ fd_state_map' = [fd_state_map EXCEPT ![f] = "error"]
          /\ UNCHANGED fd_redir_map

hvac_read_cb(f) ==
  /\ rsp[f].op = "read"
  /\ CallbackRuns(f)
  /\ UNCHANGED <<fd_redir_map, fd_state_map>>

\* Mutant: a callback signals only when there is something to report.
SignalsSuccess(f) ==
  /\ ~aborted
  /\ cb[f] # NoRsp
  /\ thr' = IF cb[f].ret <= 0 THEN thr
            ELSE [thr EXCEPT ![handle[f].thread].done = TRUE,
                             ![handle[f].thread].out = cb[f]]
  /\ cb' = [cb EXCEPT ![f] = NoRsp]
  /\ handle' = [handle EXCEPT ![f] = NoHandle]
  /\ UNCHANGED <<lfile, mapVars, mercuryVars, aborted, opens, appVars, rpcVars,
                 remote>>

\* done = TRUE, result and broadcast, under done_mutex of the sync context on
\* the stack of the thread that made the call.
Signal(f) ==
  /\ ~aborted
  /\ cb[f] # NoRsp
  /\ thr' = [thr EXCEPT ![handle[f].thread].done = TRUE,
                        ![handle[f].thread].out = cb[f]]
  /\ cb' = [cb EXCEPT ![f] = NoRsp]
  /\ handle' = [handle EXCEPT ![f] = NoHandle]
  /\ UNCHANGED <<lfile, mapVars, mercuryVars, aborted, opens, appVars, rpcVars,
                 remote>>

\* Mutant: any wakeup ends the wait.
WaitsOnce(t) ==
  /\ At(t, "wait")
  /\ Goto(t, IF thr[t].op = "read" /\ thr[t].out.ret = -1 THEN "local"
             ELSE "return")
  /\ UNCHANGED <<lfile, mapVars, mercuryVars, aborted, callVars, appVars,
                 rpcVars, remote>>

\* while (done != TRUE) wait: a wakeup without done waits again.
hvac_wait_for_operation(t) ==
  /\ At(t, "wait")
  /\ thr[t].done
  /\ Goto(t, IF thr[t].op = "read" /\ thr[t].out.ret = -1 THEN "local"
             ELSE "return")
  /\ UNCHANGED <<lfile, mapVars, mercuryVars, aborted, callVars, appVars,
                 rpcVars, remote>>

-----------------------------------------------------------------------------
(* read() and pread()                                                      *)

\* What fd_map.find(fd) may return.  Another thread that is linking a new
\* key, and perhaps rehashing, can make it miss a key that is there.
Find(f) ==
  {fd_map[f]} \cup
  (IF /\ "race" \in Faults
      /\ \E u \in Thread : /\ thr[u].pc = "inserting"
                            /\ fd_map[thr[u].fd] = NoPath
   THEN {NoPath} ELSE {})

\* hvac_remote_read asks whether fd is tracked; hvac_remote_pread also wants
\* a remote descriptor.  What is not tracked is read locally.
read(t, f, o) ==
  /\ f \in app
  /\ \E path \in Find(f) :
       Begin(t, IF path # NoPath /\ (o = -1 \/ fd_redir_map[f] # 0)
                THEN "forward_read" ELSE "local", "read", f, o)
  /\ UNCHANGED <<lfile, mapVars, mercuryVars, aborted, callVars, appVars,
                 rpcVars, remote>>

\* hvac_wait_fd_ready, and the check that follows it.  The application reads
\* after open() has returned, so the state is never "opening" here and the
\* timed wait does not begin.
Redirected(f) == fd_state_map[f] = "ready" /\ fd_redir_map[f] # 0

\* Mutant: in.offset is not set from offset.
ReadsSequentially(t) ==
  LET f == thr[t].fd
  IN  /\ At(t, "forward_read")
      /\ \/ ~Redirected(f) /\ Goto(t, "local") /\ UNCHANGED <<rpcVars, handle, cb>>
         \/ Redirected(f) /\ Forward(t, S!ReadReq(fd_redir_map[f], -1))
         \/ Redirected(f) /\ ForwardFails(t, "local")
      /\ UNCHANGED <<lfile, mapVars, mercuryVars, aborted, opens, appVars, remote>>

hvac_client_comm_gen_read_rpc(t) ==
  LET f == thr[t].fd
  IN  /\ At(t, "forward_read")
      /\ \/ ~Redirected(f) /\ Goto(t, "local") /\ UNCHANGED <<rpcVars, handle, cb>>
         \/ Redirected(f) /\ Forward(t, S!ReadReq(fd_redir_map[f], thr[t].off))
         \/ Redirected(f) /\ ForwardFails(t, "local")
      /\ UNCHANGED <<lfile, mapVars, mercuryVars, aborted, opens, appVars, remote>>

\* __real_read and __real_pread: the kernel's own offset.
LocalRead(t) ==
  LET f == thr[t].fd
      o == IF thr[t].off = -1 THEN lfile[f].off ELSE thr[t].off
      r == S!BlockOf(lfile[f].path, o)
  IN  /\ At(t, "local")
      /\ Finish(t, r)
      /\ lfile' = IF thr[t].off = -1
                  THEN [lfile EXCEPT ![f].off = @ + r.ret] ELSE lfile
      /\ UNCHANGED <<mapVars, mercuryVars, aborted, callVars, appVars, rpcVars,
                     remote>>

\* open() or read() returns to the application.
Return(t) ==
  LET f == thr[t].fd
  IN  /\ At(t, "return")
      /\ thr' = [thr EXCEPT ![t] = Idle]
      /\ app' = app \cup {f}
      /\ pos' = IF thr[t].op = "read" /\ thr[t].off = -1 /\ pos[f] < FileLen
                THEN [pos EXCEPT ![f] = @ + 1] ELSE pos
      /\ UNCHANGED <<lfile, mapVars, mercuryVars, aborted, callVars, rpcVars,
                     remote>>

-----------------------------------------------------------------------------
(* close()                                                                 *)

close(t, f) ==
  /\ f \in app
  /\ \E path \in Find(f) :
       Begin(t, IF path # NoPath THEN "untrack" ELSE "close", "close", f, 0)
  /\ app' = app \ {f}
  /\ UNCHANGED <<lfile, mapVars, mercuryVars, aborted, callVars, pos, rpcVars,
                 remote>>

\* Mutant: the mapping is erased before in.fd is read from it.
EraseBeforeForward(f) ==
  /\ UNCHANGED closeq
  /\ fd_redir_map' = [fd_redir_map EXCEPT ![f] = 0]
  /\ fd_state_map' = [fd_state_map EXCEPT ![f] = "none"]

\* Mutant: the mapping outlives the close.
CloseKeepsMapping(f) ==
  /\ closeq' = closeq \cup ({fd_redir_map[f]} \ {0})
  /\ fd_state_map' = [fd_state_map EXCEPT ![f] = "none"]
  /\ UNCHANGED fd_redir_map

\* hvac_client_comm_gen_close_rpc: tell the server, once, without waiting;
\* the mapping goes even if the RPC does not.
hvac_client_comm_gen_close_rpc(f) ==
  /\ \/ fd_redir_map[f] = 0 /\ UNCHANGED closeq
     \/ fd_redir_map[f] # 0 /\ closeq' = closeq \cup {fd_redir_map[f]}
     \/ fd_redir_map[f] # 0 /\ "forward" \in Faults /\ UNCHANGED closeq
  /\ fd_redir_map' = [fd_redir_map EXCEPT ![f] = 0]
  /\ fd_state_map' = [fd_state_map EXCEPT ![f] = "none"]

\* Mutant: fd_map keeps the descriptor.
RemoteCloseOnly(t) ==
  LET f == thr[t].fd
  IN  /\ At(t, "untrack")
      /\ hg_class = registered
      /\ hvac_client_comm_gen_close_rpc(f)
      /\ Goto(t, "close")
      /\ UNCHANGED <<lfile, fd_map, mercuryVars, aborted, callVars, appVars, req,
                     rsp, remote>>

\* hvac_remote_close, then fd_map.erase(fd).
hvac_remove_fd(t) ==
  LET f == thr[t].fd
  IN  /\ At(t, "untrack")
      /\ hg_class = registered
      /\ hvac_client_comm_gen_close_rpc(f)
      /\ fd_map' = [fd_map EXCEPT ![f] = NoPath]
      /\ Goto(t, "close")
      /\ UNCHANGED <<lfile, mercuryVars, aborted, callVars, appVars, req, rsp,
                     remote>>

\* __real_close, and close() returns.
RealClose(t) ==
  /\ At(t, "close")
  /\ lfile' = [lfile EXCEPT ![thr[t].fd] = Unlinked]
  /\ thr' = [thr EXCEPT ![t] = Idle]
  /\ UNCHANGED <<mapVars, mercuryVars, aborted, callVars, appVars, rpcVars,
                 remote>>

\* assert(ret==HG_SUCCESS) in hvac_comm_create_handle: HG_Create does not
\* find the RPC in a class on which it is not (yet) registered.
AssertFails(t) ==
  /\ ~aborted
  /\ \/ thr[t].pc \in {"forward_open", "untrack"}
     \/ thr[t].pc = "forward_read" /\ Redirected(thr[t].fd)
  /\ hg_class # registered
  /\ aborted' = TRUE
  /\ UNCHANGED <<lfile, mapVars, mercuryVars, thr, callVars, appVars, rpcVars,
                 remote>>

-----------------------------------------------------------------------------
(* Calls that are not wrapped go straight to the kernel.                   *)

Unused(f) == f \in app /\ \A t \in Thread : thr[t].fd # f

lseek(f, o) ==
  /\ "lseek" \in Bypass
  /\ ~aborted /\ Unused(f)
  /\ lfile' = [lfile EXCEPT ![f].off = o]
  /\ pos' = [pos EXCEPT ![f] = o]
  /\ UNCHANGED <<mapVars, mercuryVars, aborted, thr, callVars, app, rpcVars,
                 remote>>

fclose(f) ==
  /\ "fclose" \in Bypass
  /\ ~aborted /\ Unused(f)
  /\ lfile' = [lfile EXCEPT ![f] = Unlinked]
  /\ app' = app \ {f}
  /\ UNCHANGED <<mapVars, mercuryVars, aborted, thr, callVars, pos, rpcVars,
                 remote>>

-----------------------------------------------------------------------------
Continue(t) ==
  \/ hvac_track_file(t) \/ FdMapInserted(t) \/ CheckMercury(t)
  \/ hvac_init_comm(t) \/ hvac_client_comm_register_rpc(t)
  \/ hvac_client_comm_gen_open_rpc(t) \/ hvac_client_comm_gen_read_rpc(t)
  \/ hvac_wait_for_operation(t) \/ LocalRead(t) \/ Return(t)
  \/ hvac_remove_fd(t) \/ RealClose(t) \/ AssertFails(t)

Callback(f) == hvac_open_cb(f) \/ hvac_read_cb(f) \/ Signal(f)

Application ==
  \/ \E t \in Thread : \/ \E p \in Path : open(t, p)
                        \/ \E f \in Lfd :
                             \/ \E o \in -1 .. FileLen : read(t, f, o)
                             \/ close(t, f)
  \/ \E f \in Lfd : fclose(f) \/ \E o \in 0 .. FileLen : lseek(f, o)

Server(f) == S!Serve(f) /\ UNCHANGED clientVars
ServerCloses(f) == S!ServeClose(f) /\ UNCHANGED clientVars

Next ==
  \/ Application
  \/ \E t \in Thread : Continue(t)
  \/ \E f \in Lfd : Callback(f) \/ Server(f)
  \/ \E f \in Fd : ServerCloses(f)

Spec == Init /\ [][Next]_vars

\* Threads that are inside the library run, and the server answers (that it
\* does is checked in HvacSystem).  The progress thread takes completions
\* from a first-in first-out queue, so one callback cannot be passed over
\* for ever while others run.  The application need not make another call.
Fairness ==
  /\ \A t \in Thread : WF_vars(Continue(t))
  /\ \A f \in Lfd : SF_vars(Callback(f)) /\ WF_vars(Server(f))

FairSpec == Spec /\ Fairness

-----------------------------------------------------------------------------
(* Properties.                                                             *)

\* Where the call of thread t would read from the plain file.
Expected(t) ==
  LET f == thr[t].fd
  IN  S!BlockOf(lfile[f].path, IF thr[t].off = -1 THEN pos[f] ELSE thr[t].off)

\* read() and pread() return what they would return without the library,
\* whether the descriptor is tracked or not, whichever file it was opened on
\* before, and whether or not the remote open succeeded.
ReadsReturnTheFile ==
  \A t \in Thread :
    thr[t].pc = "return" /\ thr[t].op = "read" => thr[t].out = Expected(t)

\* The sync context a callback will signal lives on the stack of a thread
\* that is still inside hvac_wait_for_operation, for that very call.
CallbackTargetsLive ==
  \A f \in Lfd :
    handle[f] # NoHandle =>
      /\ thr[handle[f].thread].pc = "wait"
      /\ thr[handle[f].thread].fd = f
      /\ ~thr[handle[f].thread].done

\* A descriptor the kernel may hand out again is not tracked, nor redirected:
\* close() forgets it before __real_close, so open() finds no stale entry.
NoStaleTracking ==
  \A f \in Lfd :
    /\ fd_map[f] # NoPath => lfile[f].path = fd_map[f]
    /\ lfile[f].path = NoPath => fd_redir_map[f] = 0 /\ fd_state_map[f] = "none"

\* With calls that fail, lookups that race and calls behind the library's
\* back: the remote descriptor of a local one is open at the server, no close
\* for it is under way, and no other local descriptor reads from it.  What
\* goes wrong then may leak remote descriptors; it never shares or closes one.
RemoteDescriptorsOwned ==
  /\ \A f \in Lfd : fd_redir_map[f] # 0 =>
       /\ remote[fd_redir_map[f]].path # NoPath
       /\ fd_redir_map[f] \notin closeq
       /\ \A g \in Lfd \ {f} : fd_redir_map[g] # fd_redir_map[f]
  /\ \A d \in closeq : remote[d].path # NoPath

\* Towards the server the library is a caller FileService (and HvacServer)
\* can serve: it reads and closes only descriptors it holds, closes each of
\* them once and forgets none.
IsFileServiceCaller == S!Spec

\* Every call of the application returns, though no RPC has a timeout.
EveryCallReturns ==
  \A t \in Thread : thr[t].pc # "idle" ~> thr[t].pc = "idle"

\* "I think I only need to do this once".
MercuryInitialisedOnce == hg_class <= 1
=============================================================================
