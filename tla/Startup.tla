------------------------------ MODULE Startup ------------------------------
(***************************************************************************)
(* How clients find their servers.  Every hvac_server appends a line with  *)
(* its rank and address to the ports file of the job, and registers its    *)
(* RPCs; a client process hashes a path to a rank, looks the rank up in    *)
(* the file, keeps the address in address_cache, and sends every RPC on    *)
(* that path to it.  Servers may stop at any time and be started again;    *)
(* they then have a new address.                                           *)
(*                                                                         *)
(* A client process has one file open at a time; HvacClient models what    *)
(* several of its threads do.                                              *)
(***************************************************************************)
EXTENDS Integers, Sequences

CONSTANTS
  Client,       \* client processes
  ServerCount,  \* HVAC_SERVER_COUNT of the clients
  Started,      \* the ranks for which a server is started
  Path,         \* tracked files
  Hash,         \* std::hash<std::string>
  None,         \* "no address", "no file"
  MaxStreams,   \* streams a process may have open (1024 or so)
  MaxStarts     \* bound: starts of server processes

Rank  == 0 .. ServerCount - 1
Addr  == [rank : Started, start : 1 .. MaxStarts]
Addr0 == Addr \cup {None}
Line  == [rank : Started, addr : Addr]

ASSUME StartupConstants ==
  /\ ServerCount \in Nat \ {0} /\ MaxStreams \in Nat /\ MaxStarts \in Nat
  /\ ServerCount <= MaxStreams
  /\ Started \subseteq Rank
  /\ Hash \in [Path -> Nat]
  /\ None \notin Addr /\ None \notin Path

VARIABLES
  starts,         \* how many server processes were started
  proc,           \* proc[r]: which of them is, or was, the server of rank r
  stage,          \* stage[r]: how far hvac_start_comm_server has come
  registered,     \* registered[r]: how many RPCs it has registered
  ports,          \* the lines of .ports.cfg.$SLURM_JOBID
  address_cache,  \* address_cache[c][r] of client c
  streams,        \* streams[c]: ports-file streams left open by c
  g_mercury_init, \* g_mercury_init[c]
  call,           \* call[c]: the RPC c is about to send, or waits for
  file,           \* file[c]: the open file, and the server that opened it
  dead,           \* dead[c]: c crashed or failed an assert
  stopped,        \* has a server stopped? (auxiliary)
  early,          \* early[c]: c used a server that was not ready, or asked
                  \* for statistics before it opened a file (auxiliary)
  unknown         \* unknown[c]: requests for the statistics of ranks that
                  \* do not exist (auxiliary)

serverVars == <<starts, proc, stage, registered, ports, stopped>>
lookupVars == <<address_cache, streams, dead>>
clientVars == <<lookupVars, g_mercury_init, call, file, early, unknown>>
vars       == <<serverVars, clientVars>>

NoCall == [op |-> "none", rank |-> 0, to |-> None]
NoFile == [path |-> None, owner |-> None]

\* The order of registration in hvac_start_comm_server; nobody looks at the
\* fate of a close or statistics request, and no client seeks.
RpcOrder == <<"read", "open", "other">>

TypeOK ==
  /\ starts \in 0 .. MaxStarts
  /\ proc \in [Started -> 0 .. MaxStarts]
  /\ stage \in [Started -> {"down", "listening", "posted"}]
  /\ registered \in [Started -> 0 .. Len(RpcOrder)]
  /\ ports \in Seq(Line)
  /\ address_cache \in [Client -> [Rank -> Addr0]]
  /\ streams \in [Client -> 0 .. MaxStreams]
  /\ g_mercury_init \in [Client -> BOOLEAN]
  /\ call \in [Client -> [op : {"none", "open", "read", "close"},
                          rank : Rank, to : Addr0]]
  /\ file \in [Client -> [path : Path \cup {None}, owner : Addr0]]
  /\ dead \in [Client -> BOOLEAN]
  /\ stopped \in BOOLEAN
  /\ early \in [Client -> BOOLEAN]
  /\ unknown \in [Client -> Nat]

Init ==
  /\ starts = 0
  /\ proc = [r \in Started |-> 0]
  /\ stage = [r \in Started |-> "down"]
  /\ registered = [r \in Started |-> 0]
  /\ ports = <<>>
  /\ address_cache = [c \in Client |-> [r \in Rank |-> None]]
  /\ streams = [c \in Client |-> 0]
  /\ g_mercury_init = [c \in Client |-> FALSE]
  /\ call = [c \in Client |-> NoCall]
  /\ file = [c \in Client |-> NoFile]
  /\ dead = [c \in Client |-> FALSE]
  /\ stopped = FALSE
  /\ early = [c \in Client |-> FALSE]
  /\ unknown = [c \in Client |-> 0]

-----------------------------------------------------------------------------
(* The servers: hvac_start_comm_server.                                    *)

AddrOf(r) == [rank |-> r, start |-> proc[r]]

\* main, up to the end of hvac_init_comm(true): the PID file is written, the
\* mover and the progress thread run, the server listens at a new address.
hvac_init_comm(r) ==
  /\ stage[r] = "down" /\ starts < MaxStarts
  /\ starts' = starts + 1
  /\ proc' = [proc EXCEPT ![r] = starts + 1]
  /\ stage' = [stage EXCEPT ![r] = "listening"]
  /\ UNCHANGED <<registered, ports, stopped, clientVars>>

\* Mutant: the file is opened with "w".
ListAddrTruncates(r) ==
  /\ stage[r] = "listening"
  /\ stage' = [stage EXCEPT ![r] = "posted"]
  /\ ports' = <<[rank |-> r, addr |-> AddrOf(r)]>>
  /\ UNCHANGED <<starts, proc, registered, stopped, clientVars>>

\* fopen(filename, "a+"): the line goes to the end of the file.
hvac_comm_list_addr(r) ==
  /\ stage[r] = "listening"
  /\ stage' = [stage EXCEPT ![r] = "posted"]
  /\ ports' = Append(ports, [rank |-> r, addr |-> AddrOf(r)])
  /\ UNCHANGED <<starts, proc, registered, stopped, clientVars>>

\* The RPCs are registered one after the other, after the address is posted.
RegisterRpc(r) ==
  /\ stage[r] = "posted" /\ registered[r] < Len(RpcOrder)
  /\ registered' = [registered EXCEPT ![r] = @ + 1]
  /\ UNCHANGED <<starts, proc, stage, ports, stopped, clientVars>>

\* signal_exit, a failed assert, or exit(0) when the file cannot be opened.
Stop(r) ==
  /\ stage[r] # "down"
  /\ stage' = [stage EXCEPT ![r] = "down"]
  /\ registered' = [registered EXCEPT ![r] = 0]
  /\ stopped' = TRUE
  /\ UNCHANGED <<starts, proc, ports, clientVars>>

\* A request for op sent to a gets an answer.
Running(a) ==
  a # None /\ stage[a.rank] # "down" /\ proc[a.rank] = a.start
Serves(a, op) ==
  Running(a) /\ \E i \in 1 .. registered[a.rank] : RpcOrder[i] = op

Ready(r) == r \in Started /\ stage[r] = "posted" /\ registered[r] = Len(RpcOrder)

-----------------------------------------------------------------------------
(* The lookup: hvac_client_comm_lookup_addr.                               *)

\* The server of a path: std::hash modulo HVAC_SERVER_COUNT.
Host(p) == Hash[p] % ServerCount

LinesOf(r) == {i \in 1 .. Len(ports) : ports[i].rank = r}

\* The newest line of the rank (for a mutant below).
LastMatch(r) ==
  IF LinesOf(r) = {} THEN None
  ELSE ports[CHOOSE i \in LinesOf(r) : \A j \in LinesOf(r) : j <= i].addr

\* The loop over the lines stops at the first one of the rank.
FirstMatch(r) ==
  IF LinesOf(r) = {} THEN None
  ELSE ports[CHOOSE i \in LinesOf(r) : \A j \in LinesOf(r) : i <= j].addr

\* Mutant: only a missing file is expected.
UnreadableIfMissing(c) == ports = <<>>

\* fopen returns NULL before the first server has posted, and when no
\* descriptor is left: fscanf then crashes.
Unreadable(c) == ports = <<>> \/ streams[c] = MaxStreams

\* Mutant: the address is not put in address_cache.
ScanOnly(c, r) ==
  /\ ~Unreadable(c)
  /\ streams' = [streams EXCEPT ![c] = @ + 1]
  /\ UNCHANGED <<address_cache, dead>>

\* "The hardway".  The stream is never closed; a rank that is not in the
\* file is not remembered.
Scan(c, r) ==
  /\ ~Unreadable(c)
  /\ streams' = [streams EXCEPT ![c] = @ + 1]
  /\ address_cache' = [address_cache EXCEPT ![c][r] = FirstMatch(r)]
  /\ UNCHANGED dead

Crash(c) ==
  /\ dead' = [dead EXCEPT ![c] = TRUE]
  /\ UNCHANGED <<address_cache, streams>>

\* Mutant: the cache is not consulted, and the newest line of the rank wins.
LookupAlwaysScans(c, op, r) ==
  \/ /\ Scan(c, r)
     /\ call' = [call EXCEPT ![c] = [op |-> op, rank |-> r,
                                      to |-> LastMatch(r)]]
  \/ Unreadable(c) /\ Crash(c) /\ UNCHANGED call

\* The rest of call op of client c goes to the address found, if any.
hvac_client_comm_lookup_addr(c, op, r) ==
  \/ /\ address_cache[c][r] # None
     /\ call' = [call EXCEPT ![c] = [op |-> op, rank |-> r,
                                      to |-> address_cache[c][r]]]
     /\ UNCHANGED lookupVars
  \/ /\ address_cache[c][r] = None /\ Scan(c, r)
     /\ call' = [call EXCEPT ![c] = [op |-> op, rank |-> r,
                                      to |-> FirstMatch(r)]]
  \/ /\ address_cache[c][r] = None /\ Unreadable(c)
     /\ Crash(c) /\ UNCHANGED call

-----------------------------------------------------------------------------
(* The client processes.                                                   *)

Free(c) == ~dead[c] /\ call[c] = NoCall

\* hvac_track_file, up to the HG_Forward of the open RPC.
open(c, p) ==
  /\ Free(c) /\ file[c] = NoFile
  /\ g_mercury_init' = [g_mercury_init EXCEPT ![c] = TRUE]
  /\ early' = [early EXCEPT ![c] = @ \/ \E r \in Rank : ~Ready(r)]
  /\ file' = [file EXCEPT ![c].path = p]
  /\ hvac_client_comm_lookup_addr(c, "open", Host(p))
  /\ UNCHANGED <<serverVars, unknown>>

\* gen_read_rpc of a descriptor that was opened remotely.
read(c) ==
  /\ Free(c) /\ file[c].owner # None
  /\ hvac_client_comm_lookup_addr(c, "read", Host(file[c].path))
  /\ UNCHANGED <<serverVars, g_mercury_init, file, early, unknown>>

\* gen_close_rpc looks the server up even if there is nothing to close there.
close(c) ==
  /\ Free(c) /\ file[c] # NoFile
  /\ hvac_client_comm_lookup_addr(c, "close", Host(file[c].path))
  /\ UNCHANGED <<serverVars, g_mercury_init, file, early, unknown>>

\* hvac_client_request_server_to_print_stats, for a rank of the job.  Only
\* its lookup is seen: without an address nothing is sent (-4), and what
\* becomes of a request that is sent nobody looks at.
request_stats(c, r) ==
  /\ Free(c) /\ g_mercury_init[c]
  /\ \/ address_cache[c][r] # None /\ UNCHANGED lookupVars
     \/ address_cache[c][r] = None /\ Scan(c, r)
     \/ address_cache[c][r] = None /\ Unreadable(c) /\ Crash(c)
  /\ UNCHANGED <<serverVars, g_mercury_init, call, file, early, unknown>>

\* The same before Mercury is initialised: HG_Addr_lookup2 fails and the
\* server counts as not found; the second time, the address is in the cache
\* and the value tested is an uninitialised variable, which may let the call
\* go on to an assert.
request_stats_too_soon(c, r) ==
  /\ Free(c) /\ ~g_mercury_init[c]
  /\ early' = [early EXCEPT ![c] = TRUE]
  /\ \/ address_cache[c][r] # None /\ (Crash(c) \/ UNCHANGED lookupVars)
     \/ address_cache[c][r] = None /\ Scan(c, r)
     \/ address_cache[c][r] = None /\ Unreadable(c) /\ Crash(c)
  /\ UNCHANGED <<serverVars, g_mercury_init, call, file, unknown>>

\* The same for a rank outside Rank, which no line of the file names ("Could
\* not find address"): nothing is cached, so every request leaks a stream.
request_stats_unknown(c) ==
  /\ Free(c)
  /\ early' = [early EXCEPT ![c] = @ \/ \E r \in Rank : ~Ready(r)]
  /\ unknown' = [unknown EXCEPT ![c] = @ + 1]
  /\ \/ /\ ~Unreadable(c)
        /\ streams' = [streams EXCEPT ![c] = @ + 1]
        /\ UNCHANGED <<address_cache, dead>>
     \/ Unreadable(c) /\ Crash(c)
  /\ UNCHANGED <<serverVars, g_mercury_init, call, file>>

Waits(c, ops) == ~dead[c] /\ call[c].op \in ops
Done(c) == call' = [call EXCEPT ![c] = NoCall]

\* The open RPC is answered with a descriptor of that server, or an error.
OpenAnswered(c) ==
  /\ Waits(c, {"open"}) /\ Serves(call[c].to, "open")
  /\ \E o \in {call[c].to, None} : file' = [file EXCEPT ![c].owner = o]
  /\ Done(c)
  /\ UNCHANGED <<serverVars, lookupVars, g_mercury_init, early, unknown>>

ReadAnswered(c) ==
  /\ Waits(c, {"read"}) /\ Serves(call[c].to, "read")
  /\ Done(c)
  /\ UNCHANGED <<serverVars, lookupVars, g_mercury_init, file, early, unknown>>

\* HG_Forward refuses a null address, and may refuse that of a server that
\* is gone: the call is served locally.
Refused(c) ==
  /\ Waits(c, {"open", "read"}) /\ ~Running(call[c].to)
  /\ Done(c)
  /\ UNCHANGED <<serverVars, lookupVars, g_mercury_init, file, early, unknown>>

\* The forward completes with an error: the server is gone or does not know
\* the RPC (yet).  assert(info->ret == HG_SUCCESS) ends the application.
CallbackAsserts(c) ==
  /\ Waits(c, {"open", "read"})
  /\ call[c].to # None /\ ~Serves(call[c].to, call[c].op)
  /\ Crash(c)
  /\ UNCHANGED <<serverVars, g_mercury_init, call, file, early, unknown>>

\* A close request is sent without a callback: what becomes of it is not
\* looked at.
CloseSent(c) ==
  /\ Waits(c, {"close"})
  /\ file' = [file EXCEPT ![c] = NoFile]
  /\ Done(c)
  /\ UNCHANGED <<serverVars, lookupVars, g_mercury_init, early, unknown>>

-----------------------------------------------------------------------------
Server(r) ==
  \/ hvac_init_comm(r) \/ hvac_comm_list_addr(r) \/ RegisterRpc(r) \/ Stop(r)

Process(c) ==
  \/ \E p \in Path : open(c, p)
  \/ read(c) \/ close(c)
  \/ \E r \in Rank : request_stats(c, r) \/ request_stats_too_soon(c, r)
  \/ request_stats_unknown(c)
  \/ OpenAnswered(c) \/ ReadAnswered(c) \/ Refused(c)
  \/ CallbackAsserts(c) \/ CloseSent(c)

Next == (\E r \in Started : Server(r)) \/ (\E c \in Client : Process(c))

Spec == Init /\ [][Next]_vars

-----------------------------------------------------------------------------
(* Properties.                                                             *)

\* A remote descriptor is used only with the server process that opened it:
\* descriptor numbers mean nothing to another, nor to its successor.  The
\* code computes the server anew for every call.
OwnerServes ==
  \A c \in Client :
    call[c].op \in {"read", "close"} /\ file[c].owner # None
      => call[c].to = file[c].owner

\* All processes of a job send a file's RPCs to the same server, whenever
\* they looked it up and however often servers were started: a file is
\* cached once.
ClientsAgree ==
  \A c, d \in Client, r \in Rank :
    address_cache[c][r] # None /\ address_cache[d][r] # None
      => address_cache[c][r] = address_cache[d][r]

\* If every server of the job is ready before a process uses the library,
\* none stops, and the process asks for no statistics before it has opened a
\* file, no error completion reaches an assert and no lookup finds the file
\* missing.  What may still kill it is the stream every request for a rank
\* that does not exist leaks, and then only once there were more of them
\* than the streams that are left when every rank has been looked up.
ReadyServersKeepClientsAlive ==
  \A c \in Client :
    dead[c] => early[c] \/ stopped \/ unknown[c] > MaxStreams - ServerCount
=============================================================================
