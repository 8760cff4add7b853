------------------------ MODULE HvacClientRefinement ------------------------
(***************************************************************************)
(* Towards the server, the client library is the callers of FileService:   *)
(* the tracked descriptors open, read and close what they hold, whatever   *)
(* the threads of the application do.                                      *)
(***************************************************************************)
EXTENDS HvacClientProofs

\* HG_Forward does not fail, lookups do not race, and descriptors are closed
\* through the library.  lseek() may go around it.
Faithful == Faults = {} /\ "fclose" \notin Bypass

\* A step as the server sees it: of its callers, or of its own.
Asks   == S!CallerNext /\ UNCHANGED remote
Serves == S!ServiceNext /\ UNCHANGED S!callerVars

\* What descriptor f is as a caller.
Bar(f) ==
  [fd   |-> fd_redir_map[f],
   path |-> IF fd_redir_map[f] = 0 THEN NoPath ELSE fd_map[f],
   off  |-> IF fd_redir_map[f] = 0 THEN 0
            ELSE remote[fd_redir_map[f]].off - Unseen(f),
   call |-> handle[f].call]

LEMMA BarIs == heldBar = [f \in Lfd |-> Bar(f)] /\ heldBar' = [f \in Lfd |-> Bar(f)']
BY DEF heldBar, Bar

\* A step in which every descriptor stays what it is, as a caller.
LEMMA HeldKept ==
  ASSUME \A f \in Lfd : Bar(f)' = Bar(f)
  PROVE  heldBar' = heldBar
BY BarIs

\* A step that changes one of them.
LEMMA HeldStep ==
  ASSUME NEW f \in Lfd, NEW r, Bar(f)' = r,
         \A g \in Lfd \ {f} : Bar(g)' = Bar(g)
  PROVE  heldBar' = [heldBar EXCEPT ![f] = r]
BY BarIs

\* What concerns one descriptor leaves the other ones alone.
LEMMA OtherBars ==
  ASSUME NEW f \in Lfd,
         \A g \in Lfd \ {f} : /\ fd_redir_map'[g] = fd_redir_map[g]
                              /\ fd_map'[g] = fd_map[g]
                              /\ handle'[g] = handle[g] /\ rsp'[g] = rsp[g]
                              /\ fd_redir_map[g] # 0
                                   => remote'[fd_redir_map[g]]
                                        = remote[fd_redir_map[g]]
  PROVE  \A g \in Lfd \ {f} : Bar(g)' = Bar(g)
<1> SUFFICES ASSUME NEW g \in Lfd \ {f} PROVE Bar(g)' = Bar(g)
  OBVIOUS
<1>1. Unseen(g)' = Unseen(g)
  BY DEF Unseen
<1> QED
  BY <1>1 DEF Bar

\* A step that leaves the RPC interface, the two maps and the calls alone is
\* not seen by the server.
LEMMA Stutters ==
  ASSUME UNCHANGED <<fd_map, fd_redir_map, handle, req, rsp, closeq, opens, remote>>
  PROVE  UNCHANGED S!vars
<1>1. \A f \in Lfd : Bar(f)' = Bar(f)
  BY DEF Bar, Unseen
<1>2. heldBar' = heldBar
  BY <1>1, HeldKept
<1> QED
  BY <1>2 DEF S!vars, S!rpcVars, S!ifVars, S!callerVars

LEMMA InitRefines == Init => S!Init
<1> SUFFICES ASSUME Init PROVE S!Init
  OBVIOUS
<1>1. \A f \in Lfd : Bar(f) = S!NothingHeld
  BY DEF Init, Bar, NoHandle, NoCall, S!NothingHeld
<1>2. heldBar = [f \in Lfd |-> S!NothingHeld]
  BY <1>1, BarIs
<1> QED
  BY <1>2 DEF Init, S!Init, S!RpcInit, NoCall, NoRsp

\* fd_map[fd] = path: the descriptor has no remote one yet.
LEMMA FdMapInsertedRefines ==
  ASSUME BaseTypes, CallsInv, TidyInv, NEW t \in Thread, FdMapInserted(t)
  PROVE  UNCHANGED S!vars
<1>1. thr[t].pc = "inserting"
  BY DEF FdMapInserted, At
<1>2. PICK f \in Lfd : f = thr[t].fd
  BY <1>1, InCall
<1>3. fd_redir_map[f] = 0
  BY <1>1, <1>2 DEF TidyInv, TidyThread, OpeningPc
<1>4. /\ fd_map' = [fd_map EXCEPT ![f] = lfile[f].path]
      /\ UNCHANGED <<fd_redir_map, handle, opens, req, rsp, closeq, remote>>
  BY <1>2 DEF FdMapInserted, callVars, rpcVars
<1>5. \A g \in Lfd \ {f} : Bar(g)' = Bar(g)
  <2>1. \A g \in Lfd \ {f} : fd_map'[g] = fd_map[g]
    BY <1>4 DEF BaseTypes, MapTypes
  <2> QED
    BY <1>4, <2>1, OtherBars
<1>6. Bar(f)' = Bar(f)
  BY <1>3, <1>4 DEF Bar
<1>7. heldBar' = heldBar
  BY <1>5, <1>6, HeldKept
<1> QED
  BY <1>4, <1>7 DEF S!vars, S!rpcVars, S!ifVars, S!callerVars

\* An open RPC is a ClientOpen of a descriptor that holds nothing.
LEMMA OpenRefines ==
  ASSUME Faithful, TidyIInv, NEW t \in Thread, hvac_client_comm_gen_open_rpc(t)
  PROVE  Asks
<1>1. thr[t].pc = "forward_open" /\ BaseTypes /\ CallsInv
  BY DEF hvac_client_comm_gen_open_rpc, At, TidyIInv
<1>2. PICK f \in Lfd : f = thr[t].fd
  BY <1>1, InCall
<1>3. PICK p \in Path : p = fd_map[f]
  BY <1>1, <1>2, InCall DEF ThreadInv
<1>4. fd_redir_map[f] = 0
  BY <1>1, <1>2 DEF TidyIInv, TidyInv, TidyThread, OpeningPc
<1>5. handle[f].call = NoCall
  BY <1>1, <1>2, NotWaiting DEF NoCallOn, NoHandle
<1>6. opens < MaxOpens
  <2>1. t \in Opening /\ IsFiniteSet(Opening)
        /\ opens + Cardinality(Opening) <= MaxOpens
    BY <1>1 DEF Opening, TidyIInv, OpensInv
  <2>2. Cardinality(Opening) \in Nat /\ Cardinality(Opening) # 0
    BY <2>1, FS_CardinalityType, FS_EmptySet
  <2>3. opens \in Nat /\ MaxOpens \in Nat
    BY <1>1, ClientConstants DEF BaseTypes, RpcTypes
  <2> QED
    BY <2>1, <2>2, <2>3
<1>7. /\ req' = [req EXCEPT ![f] = S!OpenReq(p)]
      /\ handle' = [handle EXCEPT ![f] = [call |-> S!OpenReq(p), thread |-> t,
                                          class |-> hg_class]]
      /\ opens' = opens + 1
      /\ UNCHANGED <<rsp, closeq, fd_map, fd_redir_map, remote>>
  BY <1>2, <1>3 DEF hvac_client_comm_gen_open_rpc, Forward, ForwardFails, Faithful
<1>8. /\ handle'[f].call = S!OpenReq(p)
      /\ \A g \in Lfd \ {f} : handle'[g] = handle[g]
  BY <1>1, <1>7 DEF BaseTypes, CallTypes
<1>9. Bar(f)' = [Bar(f) EXCEPT !.call = S!OpenReq(p)]
  BY <1>4, <1>7, <1>8 DEF Bar
<1>10. heldBar' = [heldBar EXCEPT ![f].call = S!OpenReq(p)]
  <2>1. \A g \in Lfd \ {f} : Bar(g)' = Bar(g)
    BY <1>7, <1>8, OtherBars
  <2> QED
    BY <1>9, <2>1, BarIs
<1>11. heldBar[f].fd = 0 /\ heldBar[f].call = NoCall
  BY <1>4, <1>5, BarIs DEF Bar
<1>12. S!ClientOpen(f, p)
  BY <1>6, <1>7, <1>10, <1>11 DEF S!ClientOpen, S!Calls, NoCall
<1> QED
  BY <1>7, <1>12 DEF Asks, S!CallerNext

\* A read RPC is a ClientRead of what the descriptor holds; a read that is
\* not redirected is the kernel's alone.
LEMMA ReadRefines ==
  ASSUME Faithful, TidyIInv, NEW t \in Thread, hvac_client_comm_gen_read_rpc(t)
  PROVE  Asks \/ UNCHANGED S!vars
<1>1. thr[t].pc = "forward_read" /\ BaseTypes /\ CallsInv
  BY DEF hvac_client_comm_gen_read_rpc, At, TidyIInv
<1>2. PICK f \in Lfd : f = thr[t].fd
  BY <1>1, InCall
<1>3. PICK o \in -1 .. FileLen : o = thr[t].off
  BY <1>1, InCall
<1>4. UNCHANGED <<fd_map, fd_redir_map, remote, opens>>
  BY DEF hvac_client_comm_gen_read_rpc, mapVars
<1>5. CASE ~Redirected(f)
  BY <1>2, <1>4, <1>5, Stutters DEF hvac_client_comm_gen_read_rpc, rpcVars
<1>6. CASE Redirected(f)
  <2>1. PICK d \in Fd : d = fd_redir_map[f] /\ d # 0
    BY <1>1, <1>6 DEF Redirected, BaseTypes, MapTypes
  <2>2. /\ req' = [req EXCEPT ![f] = S!ReadReq(d, o)]
        /\ handle' = [handle EXCEPT ![f] = [call |-> S!ReadReq(d, o),
                                            thread |-> t, class |-> hg_class]]
        /\ UNCHANGED <<rsp, closeq>>
    BY <1>2, <1>3, <1>6, <2>1 DEF hvac_client_comm_gen_read_rpc, Forward,
       ForwardFails, Faithful
  <2>3. handle[f].call = NoCall /\ rsp[f] = NoRsp
    BY <1>1, <1>2, NotWaiting DEF NoCallOn, NoHandle
  <2>4. Unseen(f) = 0 /\ Unseen(f)' = 0
    BY <2>2, <2>3, Messages DEF Unseen
  <2>5. /\ handle'[f].call = S!ReadReq(d, o)
        /\ \A g \in Lfd \ {f} : handle'[g] = handle[g]
    BY <1>1, <2>2 DEF BaseTypes, CallTypes
  <2>6. Bar(f)' = [Bar(f) EXCEPT !.call = S!ReadReq(d, o)]
    BY <1>4, <2>4, <2>5 DEF Bar
  <2>7. heldBar' = [heldBar EXCEPT ![f].call = S!ReadReq(d, o)]
    <3>1. \A g \in Lfd \ {f} : Bar(g)' = Bar(g)
      BY <1>4, <2>2, <2>5, OtherBars
    <3> QED
      BY <2>6, <3>1, BarIs
  <2>8. heldBar[f].fd = d /\ heldBar[f].call = NoCall
    BY <2>1, <2>3, BarIs DEF Bar
  <2>9. S!ClientRead(f, o)
    BY <1>4, <2>1, <2>2, <2>7, <2>8 DEF S!ClientRead, S!Calls, NoCall
  <2>10. o \in S!Offset \cup {S!Sequential}
    BY ClientConstants DEF S!Offset, S!Sequential
  <2> QED
    BY <1>4, <2>9, <2>10 DEF Asks, S!CallerNext
<1> QED
  BY <1>5, <1>6

\* A callback is a ClientRecv: the descriptor of an open, or nothing; the
\* offset after a sequential read.
LEMMA CallbackRefines ==
  ASSUME TidyIInv, NEW f \in Lfd, hvac_open_cb(f) \/ hvac_read_cb(f)
  PROVE  Asks
<1>0. BaseTypes /\ CallsInv /\ RemoteInv /\ TidyInv
  BY DEF TidyIInv
<1>1. /\ rsp[f] # NoRsp /\ rsp' = [rsp EXCEPT ![f] = NoRsp]
      /\ handle' = [handle EXCEPT ![f].call = NoCall]
      /\ UNCHANGED <<fd_map, opens, req, closeq, remote>>
  BY DEF hvac_open_cb, hvac_read_cb, CallbackRuns
<1>2. PICK t \in Thread :
           /\ thr[t].pc = "wait" /\ thr[t].fd = f /\ ~thr[t].done
           /\ thr[t].op = "open" => fd_map[f] \in Path
           /\ thr[t].op = "read" => fd_redir_map[f] # 0
           /\ Answered(f, t)
  BY <1>0, <1>1, Waiter
<1>3. /\ handle'[f].call = NoCall /\ rsp'[f] = NoRsp /\ Unseen(f)' = 0
      /\ \A g \in Lfd \ {f} : handle'[g] = handle[g] /\ rsp'[g] = rsp[g]
  BY <1>0, <1>1, Messages DEF BaseTypes, CallTypes, HandleType, RpcTypes, Unseen
<1>4. /\ handle[f].call = CallOf(t) /\ cb[f] = NoRsp /\ rsp[f].op = thr[t].op
      /\ rsp[f].ret \in Int /\ thr[t].off \in -1 .. FileLen
      /\ fd_redir_map[f] \in Fd \cup {0}
  BY <1>0, <1>2 DEF Answered, BaseTypes, RpcTypes, S!RpcOut, CallTypes, ThreadType,
     MapTypes
<1>5. heldBar[f] = Bar(f)
  BY BarIs
<1>6. ASSUME NEW r, Bar(f)' = r,
             \A g \in Lfd \ {f} : fd_redir_map'[g] = fd_redir_map[g],
             r = IF rsp[f].op # "open"
                   THEN [Bar(f) EXCEPT !.off = S!OffsetAfter(f, rsp[f]),
                                       !.call = NoCall]
                 ELSE IF rsp[f].ret = -1 THEN S!NothingHeld
                 ELSE [fd |-> rsp[f].ret, path |-> Bar(f).call.path, off |-> 0,
                       call |-> NoCall]
      PROVE  Asks
  <2>1. \A g \in Lfd \ {f} : Bar(g)' = Bar(g)
    BY <1>1, <1>3, <1>6, OtherBars
  <2>2. heldBar' = [heldBar EXCEPT ![f] = r]
    BY <1>6, <2>1, HeldStep
  <2>3. heldBar' = [heldBar EXCEPT ![f] =
          IF rsp[f].op # "open"
            THEN [@ EXCEPT !.off = S!OffsetAfter(f, rsp[f]), !.call = S!NoReq]
          ELSE IF rsp[f].ret = S!Failed THEN S!NothingHeld
          ELSE [fd |-> rsp[f].ret, path |-> @.call.path, off |-> 0,
                call |-> S!NoReq]]
    BY <1>5, <1>6, <2>2 DEF NoCall, S!Failed
  <2>4. S!ClientRecv(f)
    BY <1>1, <2>3 DEF S!ClientRecv, NoRsp
  <2> QED
    BY <1>1, <2>4 DEF Asks, S!CallerNext
<1>7. CASE hvac_read_cb(f)
  <2>1. rsp[f].op = "read" /\ thr[t].op = "read" /\ fd_redir_map' = fd_redir_map
    BY <1>4, <1>7 DEF hvac_read_cb
  <2>2. PICK d \in Fd : d = fd_redir_map[f] /\ d # 0
    BY <1>2, <1>4, <2>1
  <2>3. handle[f].call.op = "read" /\ handle[f].call.off = thr[t].off
    BY <1>2, <1>4, <2>1, <2>2, Messages DEF CallOf
  <2>4. remote[d].off \in Int
    BY <1>0 DEF BaseTypes, RpcTypes, FileType
  <2>5. Unseen(f) = IF thr[t].off = -1 THEN rsp[f].ret ELSE 0
    BY <2>1, <2>3 DEF Unseen
  <2>6. S!OffsetAfter(f, rsp[f]) = remote[d].off
    <3>1. Bar(f).call = handle[f].call /\ Bar(f).off = remote[d].off - Unseen(f)
      BY <2>2 DEF Bar
    <3>2. S!OffsetAfter(f, rsp[f]) = IF thr[t].off = -1 THEN Bar(f).off + rsp[f].ret
                                     ELSE Bar(f).off
      BY <1>5, <2>3, <3>1 DEF S!OffsetAfter, S!Sequential
    <3> QED
      BY <1>4, <2>4, <2>5, <3>1, <3>2
  <2>7. Bar(f)' = [Bar(f) EXCEPT !.off = remote[d].off, !.call = NoCall]
    <3>1. remote[d].off - 0 = remote[d].off
      BY <2>4
    <3>2. Bar(f)' = [fd |-> d, path |-> fd_map[f], off |-> remote[d].off,
                     call |-> NoCall]
      BY <1>1, <1>3, <2>1, <2>2, <3>1 DEF Bar
    <3>3. Bar(f) = [fd |-> d, path |-> fd_map[f],
                    off |-> remote[d].off - Unseen(f), call |-> handle[f].call]
      BY <2>2 DEF Bar
    <3>4. PICK b, p, x, y, c, n :
            /\ b = Bar(f) /\ p = fd_map[f] /\ x = remote[d].off
            /\ y = remote[d].off - Unseen(f) /\ c = handle[f].call /\ n = NoCall
      OBVIOUS
    <3>5. b = [fd |-> d, path |-> p, off |-> y, call |-> c]
      BY <3>3, <3>4
    <3>6. [b EXCEPT !.off = x, !.call = n]
            = [fd |-> d, path |-> p, off |-> x, call |-> n]
      <4>1. PICK e : e = [b EXCEPT !.off = x]
        OBVIOUS
      <4>2. e = [fd |-> d, path |-> p, off |-> x, call |-> c]
        BY <3>5, <4>1
      <4>3. [e EXCEPT !.call = n] = [fd |-> d, path |-> p, off |-> x, call |-> n]
        BY <4>2
      <4>4. \A r : [r EXCEPT !.off = x, !.call = n]
                    = [[r EXCEPT !.off = x] EXCEPT !.call = n]
        OBVIOUS
      <4>5. [b EXCEPT !.off = x, !.call = n] = [e EXCEPT !.call = n]
        BY <4>1, <4>4
      <4> QED
        BY <4>3, <4>5
    <3> QED
      BY <3>2, <3>4, <3>6
  <2> QED
    BY <1>6, <2>1, <2>6, <2>7
<1>8. CASE hvac_open_cb(f)
  <2>1. rsp[f].op = "open" /\ thr[t].op = "open" /\ rsp[f].ret \in Fd \cup {-1}
    BY <1>0, <1>4, <1>8 DEF hvac_open_cb, CallsInv, AnswerInv
  <2>2. handle[f].call.path = fd_map[f]
    BY <1>2, <1>4, <2>1, Messages DEF CallOf
  <2>3. CASE rsp[f].ret \in Fd
    <3>1. rsp[f].ret > 0 /\ rsp[f].ret # 0 /\ rsp[f].ret # -1
      <4>1. \A d \in Fd : d > 0 /\ d # 0 /\ d # -1
        BY ClientConstants
      <4> QED
        BY <2>3, <4>1
    <3>2. /\ fd_redir_map'[f] = rsp[f].ret
          /\ \A g \in Lfd \ {f} : fd_redir_map'[g] = fd_redir_map[g]
      BY <1>0, <1>8, <3>1 DEF hvac_open_cb, BaseTypes, MapTypes
    <3>3. remote[rsp[f].ret].off = 0
      BY <1>0, <2>1, <3>1 DEF RemoteInv, Got
    <3>4. Bar(f)' = [fd |-> rsp[f].ret, path |-> Bar(f).call.path, off |-> 0,
                     call |-> NoCall]
      BY <1>1, <1>3, <2>2, <3>1, <3>2, <3>3 DEF Bar
    <3> QED
      BY <1>6, <2>1, <3>1, <3>2, <3>4
  <2>4. CASE rsp[f].ret = -1
    <3>1. fd_redir_map' = fd_redir_map
      BY <1>8, <2>4 DEF hvac_open_cb
    <3>2. fd_redir_map[f] = 0
      BY <1>0, <1>2, <1>4, <2>1 DEF TidyInv, TidyThread
    <3>3. Bar(f)' = S!NothingHeld
      BY <1>3, <3>1, <3>2 DEF Bar, S!NothingHeld, NoCall
    <3> QED
      BY <1>6, <2>1, <2>4, <3>1, <3>3
  <2> QED
    BY <2>1, <2>3, <2>4
<1> QED
  BY <1>7, <1>8

\* The caller took its answer before the callback signals.
LEMMA SignalRefines ==
  ASSUME TidyIInv, NEW f \in Lfd, Signal(f)
  PROVE  UNCHANGED S!vars
<1>1. /\ cb[f] # NoRsp /\ handle' = [handle EXCEPT ![f] = NoHandle]
      /\ UNCHANGED <<fd_map, fd_redir_map, opens, req, rsp, closeq, remote>>
  BY DEF Signal, mapVars, rpcVars
<1>2. PICK t \in Thread : CalledBack(f, t)
  BY <1>1, Waiter DEF TidyIInv
<1>3. /\ handle'[f].call = NoCall
      /\ \A g \in Lfd \ {f} : handle'[g] = handle[g]
  BY <1>1 DEF TidyIInv, BaseTypes, CallTypes, NoHandle
<1>4. Bar(f)' = Bar(f)
  <2>1. rsp[f] = NoRsp /\ handle[f].call = NoCall
    BY <1>2 DEF CalledBack
  <2>2. Unseen(f) = 0 /\ Unseen(f)' = 0
    BY <1>1, <2>1, Messages DEF Unseen
  <2> QED
    BY <1>1, <1>3, <2>1, <2>2 DEF Bar
<1>5. \A g \in Lfd \ {f} : Bar(g)' = Bar(g)
  BY <1>1, <1>3, OtherBars
<1>6. heldBar' = heldBar
  BY <1>4, <1>5, HeldKept
<1> QED
  BY <1>1, <1>6 DEF S!vars, S!rpcVars, S!ifVars, S!callerVars

\* hvac_remove_fd is a ClientClose of what the descriptor holds, if anything.
LEMMA RemoveRefines ==
  ASSUME Faithful, TidyIInv, NEW t \in Thread, hvac_remove_fd(t)
  PROVE  Asks \/ UNCHANGED S!vars
<1>1. thr[t].pc = "untrack" /\ BaseTypes /\ CallsInv
  BY DEF hvac_remove_fd, At, TidyIInv
<1>2. PICK f \in Lfd : f = thr[t].fd
  BY <1>1, InCall
<1>3. handle[f].call = NoCall
  BY <1>1, <1>2, NotWaiting DEF NoCallOn, NoHandle
<1>4. /\ fd_redir_map' = [fd_redir_map EXCEPT ![f] = 0]
      /\ fd_map' = [fd_map EXCEPT ![f] = NoPath]
      /\ closeq' = IF fd_redir_map[f] = 0 THEN closeq
                   ELSE closeq \cup {fd_redir_map[f]}
      /\ UNCHANGED <<handle, opens, req, rsp, remote>>
  BY <1>2 DEF hvac_remove_fd, hvac_client_comm_gen_close_rpc, callVars, Faithful
<1>5. /\ fd_redir_map'[f] = 0
      /\ \A g \in Lfd \ {f} : /\ fd_redir_map'[g] = fd_redir_map[g]
                              /\ fd_map'[g] = fd_map[g]
  BY <1>1, <1>4 DEF BaseTypes, MapTypes
<1>6. Bar(f)' = S!NothingHeld
  BY <1>3, <1>4, <1>5 DEF Bar, S!NothingHeld, NoCall
<1>7. \A g \in Lfd \ {f} : Bar(g)' = Bar(g)
  BY <1>4, <1>5, OtherBars
<1>8. CASE fd_redir_map[f] = 0
  <2>1. Bar(f) = S!NothingHeld
    BY <1>3, <1>8 DEF Bar, S!NothingHeld, NoCall
  <2>2. heldBar' = heldBar
    BY <1>6, <1>7, <2>1, HeldKept
  <2> QED
    BY <1>4, <1>8, <2>2 DEF S!vars, S!rpcVars, S!ifVars, S!callerVars
<1>9. CASE fd_redir_map[f] # 0
  <2>1. heldBar' = [heldBar EXCEPT ![f] = S!NothingHeld]
    BY <1>6, <1>7, HeldStep
  <2>2. heldBar[f].fd = fd_redir_map[f] /\ heldBar[f].call = NoCall
    BY <1>3, BarIs DEF Bar
  <2>3. S!ClientClose(f)
    BY <1>4, <1>9, <2>1, <2>2 DEF S!ClientClose, NoCall
  <2> QED
    BY <1>4, <2>3 DEF Asks, S!CallerNext
<1> QED
  BY <1>8, <1>9

\* The server's own steps change what no caller can see: an answer to a
\* sequential read has moved the offset, but its caller has not taken it.
LEMMA ServerRefines ==
  ASSUME TidyIInv, NEW f \in Lfd, Server(f)
  PROVE  Serves
<1>0. BaseTypes /\ CallsInv /\ RemoteInv
  BY DEF TidyIInv
<1>1. PICK t \in Thread, r \in S!RpcOut :
           /\ thr[t].pc = "wait" /\ thr[t].fd = f /\ ~thr[t].done
           /\ Sent(f, t) /\ rsp' = [rsp EXCEPT ![f] = r]
           /\ AnswersOpen(f, t, r) \/ AnswersRead(f, t, r)
           /\ UNCHANGED clientVars
  BY <1>0, ServerAnswers
<1>2. UNCHANGED <<fd_map, fd_redir_map, handle, opens>>
  BY <1>1 DEF clientVars, mapVars, callVars
<1>3. /\ rsp[f] = NoRsp /\ rsp'[f] = r /\ handle[f].call = CallOf(t)
      /\ \A g \in Lfd \ {f} : rsp'[g] = rsp[g]
  BY <1>0, <1>1 DEF Sent, BaseTypes, RpcTypes
<1>4. remote \in [Fd -> FileType] /\ Unseen(f) = 0
  BY <1>0, <1>3, Messages DEF BaseTypes, RpcTypes, Unseen
<1>5. \A g \in Lfd : fd_redir_map[g] # 0 => Live(fd_redir_map[g])
  BY <1>0 DEF RemoteInv
<1>6. Bar(f)' = Bar(f) /\ \A g \in Lfd \ {f} : Bar(g)' = Bar(g)
  <2>1. CASE AnswersOpen(f, t, r)
    <3>1. r.op = "open"
      <4>1. \A d \in Fd : d \in Int
        BY ClientConstants
      <4> QED
        BY <2>1, <4>1, OpenAnswer DEF AnswersOpen
    <3>2. Unseen(f)' = 0
      BY <1>3, <3>1 DEF Unseen
    <3>3. ASSUME NEW d \in Fd, remote[d].path \in Path
          PROVE  remote'[d] = remote[d]
      BY <1>4, <2>1, <3>3, ClientConstants DEF AnswersOpen
    <3>4. \A g \in Lfd : fd_redir_map[g] # 0
                           => remote'[fd_redir_map[g]] = remote[fd_redir_map[g]]
      BY <1>5, <3>3 DEF Live
    <3>5. Bar(f)' = Bar(f)
      BY <1>2, <1>4, <3>2, <3>4 DEF Bar
    <3> QED
      BY <1>2, <1>3, <3>4, <3>5, OtherBars
  <2>2. CASE AnswersRead(f, t, r)
    <3>1. PICK d \in Fd : d = fd_redir_map[f] /\ d # 0
      BY <2>2, ClientConstants DEF AnswersRead
    <3>2. /\ thr[t].op = "read"
          /\ remote'[d].off = IF thr[t].off = -1 THEN remote[d].off + r.ret
                              ELSE remote[d].off
          /\ \A e \in Fd : e # d => remote'[e] = remote[e]
      BY <1>4, <2>2, <3>1 DEF AnswersRead
    <3>3. remote[d].off \in 0 .. FileLen /\ remote[d].path \in Path \cup {NoPath}
          /\ thr[t].off \in -1 .. FileLen
      BY <1>0, <1>4 DEF FileType, BaseTypes, CallTypes, ThreadType
    <3>4. r.op = "read" /\ r.ret \in {0, 1}
      <4>1. PICK o \in 0 .. FileLen : r = S!BlockOf(remote[d].path, o)
        BY <2>2, <3>1, <3>3, ClientConstants DEF AnswersRead
      <4> QED
        BY <3>3, <4>1, BlockAnswer
    <3>5. handle'[f].call.off = thr[t].off
      BY <1>1, <1>2, <1>3, <3>1, <3>2, <3>3, Messages DEF CallOf
    <3>6. Unseen(f)' = IF thr[t].off = -1 THEN r.ret ELSE 0
      BY <1>3, <3>4, <3>5 DEF Unseen
    <3>7. remote'[d].off - Unseen(f)' = remote[d].off - 0
      BY <3>2, <3>3, <3>4, <3>6
    <3>8. Bar(f)' = Bar(f)
      BY <1>2, <1>4, <3>1, <3>7 DEF Bar
    <3>9. \A g \in Lfd \ {f} :
            fd_redir_map[g] # 0
              => remote'[fd_redir_map[g]] = remote[fd_redir_map[g]]
      BY <1>0, <1>5, <3>1, <3>2 DEF RemoteInv, Live
    <3> QED
      BY <1>2, <1>3, <3>8, <3>9, OtherBars
  <2> QED
    BY <1>1, <2>1, <2>2
<1>7. heldBar' = heldBar
  BY <1>6, HeldKept
<1> QED
  BY <1>2, <1>7 DEF Server, Serves, S!ServiceNext, S!callerVars

\* A close takes from the server what no caller holds.
LEMMA ServerClosesRefines ==
  ASSUME TidyIInv, NEW d \in Fd, ServerCloses(d)
  PROVE  Serves
<1>1. /\ d \in closeq /\ remote' = [remote EXCEPT ![d] = S!NotOpen]
      /\ UNCHANGED <<fd_map, fd_redir_map, handle, opens, rsp>>
  BY DEF ServerCloses, S!ServeClose, clientVars, mapVars, callVars
<1>2. \A e \in Fd : e # d => remote'[e] = remote[e]
  BY <1>1 DEF TidyIInv, BaseTypes, RpcTypes
<1>3. \A g \in Lfd : fd_redir_map[g] # 0
                       => remote'[fd_redir_map[g]] = remote[fd_redir_map[g]]
  BY <1>1, <1>2 DEF TidyIInv, RemoteInv, Live
<1>4. \A g \in Lfd : Bar(g)' = Bar(g)
  BY <1>1, <1>3 DEF Bar, Unseen
<1>5. heldBar' = heldBar
  BY <1>4, HeldKept
<1> QED
  BY <1>1, <1>5 DEF ServerCloses, Serves, S!ServiceNext, S!callerVars

\* A step of the application or of the library is one of the callers, or is
\* not seen.
LEMMA LibraryRefines ==
  ASSUME Faithful, TidyIInv,
         \/ Application
         \/ \E t \in Thread : Continue(t)
         \/ \E f \in Lfd : Callback(f)
  PROVE  Asks \/ UNCHANGED S!vars
<1>1. CASE Application
  <2>1. UNCHANGED <<fd_map, fd_redir_map, handle, req, rsp, closeq, opens, remote>>
    BY <1>1 DEF Application, open, read, close, fclose, lseek, mapVars, callVars,
       rpcVars
  <2> QED
    BY <2>1, Stutters
<1>2. ASSUME NEW t \in Thread, Continue(t) PROVE Asks \/ UNCHANGED S!vars
  <2>1. CASE \/ hvac_track_file(t) \/ CheckMercury(t) \/ hvac_init_comm(t)
             \/ hvac_client_comm_register_rpc(t) \/ hvac_wait_for_operation(t)
             \/ LocalRead(t) \/ Return(t) \/ RealClose(t) \/ AssertFails(t)
    <3>1. UNCHANGED <<fd_map, fd_redir_map, handle, req, rsp, closeq, opens, remote>>
      BY <2>1 DEF hvac_track_file, CheckMercury, hvac_init_comm,
         hvac_client_comm_register_rpc, hvac_wait_for_operation, LocalRead, Return,
         RealClose, AssertFails, mapVars, callVars, rpcVars
    <3> QED
      BY <3>1, Stutters
  <2>2. CASE FdMapInserted(t)
    BY <2>2, FdMapInsertedRefines DEF TidyIInv
  <2> QED
    BY <1>2, <2>1, <2>2, OpenRefines, ReadRefines, RemoveRefines DEF Continue
<1>3. ASSUME NEW f \in Lfd, Callback(f) PROVE Asks \/ UNCHANGED S!vars
  BY <1>3, CallbackRefines, SignalRefines DEF Callback
<1> QED
  BY <1>1, <1>2, <1>3

\* Every step is a step of the callers or of the server, or is not seen.
LEMMA NextRefines ==
  ASSUME Faithful
  PROVE  TidyIInv /\ [Next]_vars => [S!Next]_(S!vars)
<1> SUFFICES ASSUME TidyIInv, [Next]_vars PROVE Asks \/ Serves \/ UNCHANGED S!vars
  BY DEF Asks, Serves, S!Next
<1>1. ASSUME NEW f \in Lfd, Server(f) PROVE Serves
  BY <1>1, ServerRefines
<1>2. ASSUME NEW d \in Fd, ServerCloses(d) PROVE Serves
  BY <1>2, ServerClosesRefines
<1>3. CASE UNCHANGED vars
  <2>1. UNCHANGED <<fd_map, fd_redir_map, handle, req, rsp, closeq, opens, remote>>
    BY <1>3 DEF vars, clientVars, mapVars, callVars, rpcVars
  <2> QED
    BY <2>1, Stutters
<1> QED
  BY <1>1, <1>2, <1>3, LibraryRefines DEF Next

\* When no HG_Forward fails, no lookup races and no descriptor is closed
\* behind the library's back, the client library is what the server expects
\* of its callers: it opens for descriptors that hold nothing, reads and
\* closes what it holds, has one RPC in flight per descriptor, and closes
\* each remote descriptor once and with no RPC on it in flight.
THEOREM ClientIsCaller ==
  ASSUME Faithful
  PROVE  Spec => IsFileServiceCaller
<1>1. Tidy
  BY DEF Faithful, Tidy
<1>2. Spec => []TidyIInv
  BY <1>1, TidyInvariance
<1>3. TidyIInv /\ [Next]_vars => [S!Next]_(S!vars)
  BY NextRefines
<1> QED
  BY <1>2, <1>3, InitRefines, PTL DEF Spec, IsFileServiceCaller, S!Spec

=============================================================================
