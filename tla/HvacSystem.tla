----------------------------- MODULE HvacSystem -----------------------------
(***************************************************************************)
(* The client library of HvacClient and the server of HvacServer together: *)
(* a tracked descriptor of the application process is a caller of the      *)
(* server, the two sides share nothing but the RPCs in flight, and there   *)
(* is no FileService in between.                                           *)
(***************************************************************************)
EXTENDS Integers

CONSTANTS
  Thread, Lfd, DataDir, None, WarmStart, Faults, Bypass,  \* see HvacClient
  Dir, Absent, Torn, ReadFaults,                          \* see HvacServer
  Path, NoPath, Fd, FileLen, MaxOpens                     \* see both

ASSUME SystemConstants ==
  /\ DataDir \subseteq Path /\ NoPath \notin Path /\ None \notin Lfd \cup Thread
  /\ Fd \subseteq Nat \ {0} /\ FileLen \in Nat /\ MaxOpens \in Nat
  /\ WarmStart \in BOOLEAN /\ ReadFaults \in BOOLEAN
  /\ Faults \subseteq {"forward", "race"}
  /\ Bypass \subseteq {"lseek", "fclose"}
  /\ Absent \notin Dir /\ Torn \notin Dir /\ Absent # Torn

VARIABLES
  \* the application process
  lfile, fd_map, fd_redir_map, fd_state_map, g_mercury_init, hg_class,
  registered, aborted, thr, handle, cb, app, pos, opens,
  \* RPCs in flight
  req, rsp, closeq,
  \* the server process
  kfile, fd_to_path, path_cache_map, burst, data_queue, local_list, mover_pc,
  mover_dir, handler, bulk, crashed

clientVars == <<lfile, fd_map, fd_redir_map, fd_state_map, g_mercury_init,
                hg_class, registered, aborted, thr, handle, cb, app, pos, opens>>
rpcVars    == <<req, rsp, closeq>>
serverVars == <<kfile, fd_to_path, path_cache_map, burst, data_queue, local_list,
                mover_pc, mover_dir, handler, bulk, crashed>>
vars       == <<clientVars, rpcVars, serverVars>>

-----------------------------------------------------------------------------
(* The server's descriptors, which the library knows by number only, and   *)
(* the answers: the library sees a block when its push has ended (rsp),    *)
(* FileService counts it as delivered when its push starts.                *)

NotSent == [op |-> "none", ret |-> 0, data |-> [src |-> NoPath, blk |-> 0]]

remoteBar == [d \in Fd |-> [path |-> kfile[d].path, off |-> kfile[d].off]]
rspBar == [f \in Lfd |-> IF bulk[f] # NotSent THEN bulk[f] ELSE rsp[f]]

\* The library, on the RPCs as they are.
Lib == INSTANCE HvacClient WITH remote <- remoteBar

\* The library and a file service: what HvacClient describes.
C == INSTANCE HvacClient WITH remote <- remoteBar, rsp <- rspBar

\* The server, with the tracked descriptors as its callers.
Sv == INSTANCE HvacServer WITH Caller <- Lfd, held <- C!heldBar

-----------------------------------------------------------------------------
Init ==
  /\ kfile = [d \in Fd |-> Sv!Closed] /\ bulk = [f \in Lfd |-> NotSent]
  /\ Lib!Init
  /\ Sv!Init

Continue(t) == UNCHANGED serverVars /\ Lib!Continue(t)
Callback(f) == UNCHANGED serverVars /\ Lib!Callback(f)

ClientStep ==
  \/ UNCHANGED serverVars /\ Lib!Application
  \/ \E t \in Thread : Continue(t)
  \/ \E f \in Lfd : Callback(f)

ServerStep == UNCHANGED clientVars /\ Sv!ServerNext

Next == ClientStep \/ ServerStep

Spec == Init /\ [][Next]_vars

\* The fairness of both sides, with no promise from one to the other.
Fairness ==
  /\ \A t \in Thread : WF_vars(Continue(t))
  /\ \A f \in Lfd : /\ SF_vars(Callback(f))
                    /\ WF_vars(UNCHANGED clientVars /\ Sv!Handler(f))
  /\ WF_vars(UNCHANGED clientVars /\ Sv!CloseQueuesPath)
  /\ WF_vars(UNCHANGED clientVars /\ Sv!MoverStep)

FairSpec == Spec /\ Fairness

-----------------------------------------------------------------------------
(* Properties.                                                             *)

\* read() and pread() of the application return what the plain file holds,
\* when the bytes come out of the burst buffer, when the mover is replacing
\* or failing to make the copy, and when open() fell back to the kernel.
ReadsReturnTheFile == Lib!ReadsReturnTheFile

\* A descriptor open in the server is the remote descriptor of one tracked
\* file, or on its way to one, or named by a close RPC on its way back.
DescriptorsAccounted == Sv!DescriptorsAccounted

\* No RPC of the library makes the server abort by naming a descriptor that
\* is not open there.  (Reads may still make it abort in other ways: see
\* ReadFails and PushFails of HvacServer.)
NoDescriptorAbort == Sv!NoDescriptorAbort

\* The library cannot tell the server, with its cache and its mover, from
\* the file service that HvacClient is written against.
LibrarySeesFileService == C!Spec

\* The server meets only callers that HvacServer provides for.
ServerSeesCallers == Sv!Spec

\* Every call of the application returns: a thread that waits for a callback
\* never waits for a server that has died or that waits for something else.
EveryCallReturns == Lib!EveryCallReturns

\* What the mover has drained it deals with, copies that fail included, while
\* the handlers go on queueing.
MoverSettles == Sv!MoverSettles
=============================================================================
