------------------------------ MODULE HvacRpc ------------------------------
(***************************************************************************)
(* The RPC interface between the client library and hvac_server: the       *)
(* messages of mthvac_comm.h, and the callers, as the server sees them.    *)
(*                                                                         *)
(* A file is FileLen blocks; every read asks for one block, so a "number   *)
(* of bytes" is 0 or 1.  A caller is a tracked descriptor of a client: the *)
(* thread that uses it blocks on each two-way RPC, so a caller has at most *)
(* one in flight.  Mercury delivers requests in any order; the one-way     *)
(* close RPCs are an unordered set.                                        *)
(***************************************************************************)
EXTENDS Integers

CONSTANTS
  Caller,     \* tracked descriptors of client processes
  Path,       \* files of the parallel file system
  NoPath,     \* "no file"
  Fd,         \* descriptors open() can return in the server process
  FileLen,    \* blocks per file
  MaxOpens    \* bound: open RPCs issued by all callers together

ASSUME RpcConstants ==
  /\ NoPath \notin Path
  /\ Fd \subseteq Nat \ {0}
  /\ FileLen \in Nat
  /\ MaxOpens \in Nat

VARIABLES
  req,      \* req[c]: the two-way RPC of c not yet taken by a handler
  rsp,      \* rsp[c]: the response on its way to c
  closeq,   \* descriptors named by one-way close RPCs in flight
  held,     \* what each caller has open remotely, and the call it waits for
  opens     \* open RPCs issued so far

ifVars     == <<req, rsp, closeq>>
callerVars == <<held, opens>>
rpcVars    == <<ifVars, callerVars>>

-----------------------------------------------------------------------------
(* Messages.                                                               *)

Failed == -1           \* what open(), read() and lseek64() return on error
Sequential == -1       \* the offset that asks for read() instead of pread()

NoReq  == [op |-> "none", path |-> NoPath, fd |-> 0, off |-> 0]
NoData == [src |-> NoPath, blk |-> 0]
NoRsp  == [op |-> "none", ret |-> 0, data |-> NoData]
NothingHeld == [fd |-> 0, path |-> NoPath, off |-> 0, call |-> NoReq]

OpenReq(p)    == [op |-> "open", path |-> p, fd |-> 0, off |-> 0]
ReadReq(f, o) == [op |-> "read", path |-> NoPath, fd |-> f, off |-> o]
SeekReq(f, o) == [op |-> "seek", path |-> NoPath, fd |-> f, off |-> o]

\* hvac_open_out_t, hvac_rpc_out_t, hvac_seek_out_t, with the pushed block.
Rsp(op, ret, data) == [op |-> op, ret |-> ret, data |-> data]

Paths0 == Path \cup {NoPath}
Offset == 0 .. FileLen
Data == [src : Paths0, blk : Offset]
RpcOp == {"none", "open", "read", "seek"}
RpcIn == [op : RpcOp, path : Paths0, fd : Fd \cup {0},
          off : Offset \cup {Sequential}]
RpcOut == [op : RpcOp, ret : Int, data : Data]
Holding == [fd : Fd \cup {0}, path : Paths0, off : Offset, call : RpcIn]

RpcTypeOK ==
  /\ req \in [Caller -> RpcIn]
  /\ rsp \in [Caller -> RpcOut]
  /\ closeq \in SUBSET Fd
  /\ held \in [Caller -> Holding]
  /\ opens \in Nat

RpcInit ==
  /\ req = [c \in Caller |-> NoReq]
  /\ rsp = [c \in Caller |-> NoRsp]
  /\ closeq = {}
  /\ held = [c \in Caller |-> NothingHeld]
  /\ opens = 0

\* The server never checks a response's fate: HG_Respond is the last step.
Respond(c, r) ==
  /\ req' = [req EXCEPT ![c] = NoReq]
  /\ rsp' = [rsp EXCEPT ![c] = r]

-----------------------------------------------------------------------------
(* The callers, as the server sees them: hvac_client opens a remote        *)
(* descriptor, reads and seeks on it while it is tracked, and names it in  *)
(* one close RPC, for which it does not wait.                              *)

Calls(c, r) ==
  /\ held[c].call = NoReq
  /\ req' = [req EXCEPT ![c] = r]
  /\ UNCHANGED <<rsp, closeq>>

\* gen_open_rpc, from hvac_track_file.
ClientOpen(c, p) ==
  /\ held[c].fd = 0 /\ opens < MaxOpens
  /\ Calls(c, OpenReq(p))
  /\ held' = [held EXCEPT ![c].call = OpenReq(p)]
  /\ opens' = opens + 1

\* gen_read_rpc: hvac_remote_read passes Sequential, hvac_remote_pread o.
ClientRead(c, o) ==
  /\ held[c].fd # 0
  /\ Calls(c, ReadReq(held[c].fd, o))
  /\ held' = [held EXCEPT ![c].call = ReadReq(held[c].fd, o)]
  /\ UNCHANGED opens

\* gen_seek_rpc, from hvac_remote_lseek with SEEK_SET.
ClientSeek(c, o) ==
  /\ held[c].fd # 0
  /\ Calls(c, SeekReq(held[c].fd, o))
  /\ held' = [held EXCEPT ![c].call = SeekReq(held[c].fd, o)]
  /\ UNCHANGED opens

\* Mutant: the caller still tracks the descriptor it has closed.
CloseKeepsTracking(c) ==
  /\ held[c].fd # 0 /\ held[c].call = NoReq
  /\ closeq' = closeq \cup {held[c].fd}
  /\ UNCHANGED <<req, rsp, callerVars>>

\* gen_close_rpc, from hvac_remote_close.
ClientClose(c) ==
  /\ held[c].fd # 0 /\ held[c].call = NoReq
  /\ closeq' = closeq \cup {held[c].fd}
  /\ held' = [held EXCEPT ![c] = NothingHeld]
  /\ UNCHANGED <<req, rsp, opens>>

\* Where the descriptor of c stands once r answers its call.
OffsetAfter(c, r) ==
  IF held[c].call.op = "seek" THEN held[c].call.off
  ELSE IF held[c].call.op = "read" /\ held[c].call.off = Sequential
  THEN held[c].off + r.ret
  ELSE held[c].off

\* The RPC callbacks: the caller takes the answer.
ClientRecv(c) ==
  /\ rsp[c] # NoRsp
  /\ rsp' = [rsp EXCEPT ![c] = NoRsp]
  /\ held' = [held EXCEPT ![c] =
       IF rsp[c].op # "open"
         THEN [@ EXCEPT !.off = OffsetAfter(c, rsp[c]), !.call = NoReq]
       ELSE IF rsp[c].ret = Failed THEN NothingHeld
       ELSE [fd |-> rsp[c].ret, path |-> @.call.path, off |-> 0,
             call |-> NoReq]]
  /\ UNCHANGED <<req, closeq, opens>>

CallerNext ==
  \E c \in Caller :
    \/ \E p \in Path : ClientOpen(c, p)
    \/ \E o \in Offset \cup {Sequential} : ClientRead(c, o)
    \/ \E o \in Offset : ClientSeek(c, o)
    \/ ClientClose(c)
    \/ ClientRecv(c)

-----------------------------------------------------------------------------
(* What callers may rely on.                                               *)

\* Where the read that c has in flight must read.
Wanted(c) == IF held[c].call.off = Sequential THEN held[c].off
             ELSE held[c].call.off

\* The response it must get: a block of the file it opened, or end of file.
Answer(c) ==
  IF Wanted(c) < FileLen
  THEN Rsp("read", 1, [src |-> held[c].path, blk |-> Wanted(c)])
  ELSE Rsp("read", 0, NoData)

\* Every read response carries what a local read()/pread() of the file the
\* caller opened would deliver at that offset, end of file included, whether
\* the server opened the original or a copy, and whatever the mover did
\* between open, read, bulk transfer and response.
ReadsAreTransparent ==
  \A c \in Caller : rsp[c].op = "read" => rsp[c] = Answer(c)
=============================================================================
