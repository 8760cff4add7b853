---------------------------- MODULE FileService ----------------------------
(***************************************************************************)
(* What hvac_server promises its callers: each RPC takes effect at once,   *)
(* on the files of the parallel file system themselves.  There is no       *)
(* cache, no data mover, no bulk transfer and no crash.  HvacServer is     *)
(* shown to implement this specification, and HvacClient is checked        *)
(* against it as its server.                                               *)
(***************************************************************************)
EXTENDS HvacRpc

VARIABLE remote   \* remote[f]: the file open at f, and the offset of f

vars == <<rpcVars, remote>>

NotOpen == [path |-> NoPath, off |-> 0]

TypeOK == RpcTypeOK /\ remote \in [Fd -> [path : Paths0, off : Offset]]

Init == RpcInit /\ remote = [f \in Fd |-> NotOpen]

\* An open yields a descriptor nobody else has, or fails.
ServeOpen(c) ==
  /\ req[c].op = "open"
  /\ \/ /\ Respond(c, Rsp("open", Failed, NoData))
        /\ UNCHANGED remote
     \/ \E f \in Fd :
          /\ remote[f].path = NoPath
          /\ remote' = [remote EXCEPT ![f] = [path |-> req[c].path, off |-> 0]]
          /\ Respond(c, Rsp("open", f, NoData))
  /\ UNCHANGED closeq

\* The block of file p at offset o, or end of file.
BlockOf(p, o) == IF o < FileLen THEN Rsp("read", 1, [src |-> p, blk |-> o])
                 ELSE Rsp("read", 0, NoData)

\* A sequential read advances the offset by what it returns, a positioned
\* read leaves it alone.
ServeRead(c) ==
  LET f == req[c].fd
  IN  /\ req[c].op = "read"
      /\ f \in Fd /\ remote[f].path # NoPath
      /\ IF req[c].off = Sequential
         THEN LET r == BlockOf(remote[f].path, remote[f].off)
              IN  /\ Respond(c, r)
                  /\ remote' = [remote EXCEPT ![f] =
                                  [path |-> remote[f].path,
                                   off |-> remote[f].off + r.ret]]
         ELSE /\ Respond(c, BlockOf(remote[f].path, req[c].off))
              /\ UNCHANGED remote
      /\ UNCHANGED closeq

ServeSeek(c) ==
  LET f == req[c].fd
  IN  /\ req[c].op = "seek"
      /\ f \in Fd /\ remote[f].path # NoPath
      /\ remote' = [remote EXCEPT ![f] = [path |-> remote[f].path,
                                          off |-> req[c].off]]
      /\ Respond(c, Rsp("seek", req[c].off, NoData))
      /\ UNCHANGED closeq

ServeClose(f) ==
  /\ f \in closeq /\ remote[f].path # NoPath
  /\ closeq' = closeq \ {f}
  /\ remote' = [remote EXCEPT ![f] = NotOpen]
  /\ UNCHANGED <<req, rsp>>

Serve(c) == ServeOpen(c) \/ ServeRead(c) \/ ServeSeek(c)

ServiceNext == \/ \E c \in Caller : Serve(c)
               \/ \E f \in Fd : ServeClose(f)

Next == \/ ServiceNext /\ UNCHANGED callerVars
        \/ CallerNext /\ UNCHANGED remote

Spec == Init /\ [][Next]_vars
=============================================================================
