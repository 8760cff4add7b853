-------------------------- MODULE HvacSystemProofs --------------------------
(***************************************************************************)
(* The library and the server put together keep the promises each of them *)
(* makes to the other.                                                     *)
(***************************************************************************)
EXTENDS HvacSystem, TLAPS

CP == INSTANCE HvacClientRefinement WITH remote <- remoteBar, rsp <- rspBar
SP == INSTANCE HvacServerProofs WITH Caller <- Lfd, held <- C!heldBar

\* The messages that mean nothing are the same everywhere.
LEMMA SameIdle ==
  /\ Lib!NoRsp = NotSent /\ CP!NoRsp = NotSent /\ SP!NoRsp = NotSent
  /\ Lib!NoCall = CP!NoCall
BY DEF Lib!NoRsp, CP!NoRsp, Lib!S!NoRsp, CP!S!NoRsp, SP!NoRsp, Lib!S!NoData,
   CP!S!NoData, SP!NoData, NotSent, Lib!NoCall, CP!NoCall, Lib!S!NoReq, CP!S!NoReq

\* Two copies of FiniteSets count alike.
LEMMA SameCardinality == \A T : Lib!Cardinality(T) = CP!Cardinality(T)
BY DEF Lib!Cardinality, CP!Cardinality, Lib!IsFiniteSet, CP!IsFiniteSet

\* The library's steps other than the callbacks do not look at rsp.
LEMMA ContinueStep ==
  ASSUME UNCHANGED <<rspBar, remoteBar>>, NEW t \in Thread, Lib!Continue(t)
  PROVE  CP!Continue(t)
<1> USE SameIdle DEF Lib!At, CP!At, Lib!mapVars, CP!mapVars, Lib!mercuryVars,
    CP!mercuryVars, Lib!callVars, CP!callVars, Lib!appVars, CP!appVars,
    Lib!rpcVars, CP!rpcVars
<1>1. Lib!hvac_track_file(t) => CP!hvac_track_file(t)
  BY DEF Lib!hvac_track_file, CP!hvac_track_file, Lib!Goto, CP!Goto, Lib!Finish,
     CP!Finish
<1>2. Lib!FdMapInserted(t) => CP!FdMapInserted(t)
  BY DEF Lib!FdMapInserted, CP!FdMapInserted, Lib!Goto, CP!Goto
<1>3. Lib!CheckMercury(t) => CP!CheckMercury(t)
  BY DEF Lib!CheckMercury, CP!CheckMercury, Lib!Goto, CP!Goto
<1>4. Lib!hvac_init_comm(t) => CP!hvac_init_comm(t)
  BY DEF Lib!hvac_init_comm, CP!hvac_init_comm, Lib!Goto, CP!Goto
<1>5. Lib!hvac_client_comm_register_rpc(t) => CP!hvac_client_comm_register_rpc(t)
  BY DEF Lib!hvac_client_comm_register_rpc, CP!hvac_client_comm_register_rpc,
     Lib!Goto, CP!Goto
<1>6. Lib!hvac_client_comm_gen_open_rpc(t) => CP!hvac_client_comm_gen_open_rpc(t)
  BY DEF Lib!hvac_client_comm_gen_open_rpc, CP!hvac_client_comm_gen_open_rpc,
     Lib!Goto, CP!Goto, Lib!Forward, CP!Forward, Lib!ForwardFails,
     CP!ForwardFails, Lib!S!OpenReq, CP!S!OpenReq, Lib!S!Rsp, CP!S!Rsp,
     Lib!S!NoData, CP!S!NoData
<1>7. Lib!hvac_client_comm_gen_read_rpc(t) => CP!hvac_client_comm_gen_read_rpc(t)
  BY DEF Lib!hvac_client_comm_gen_read_rpc, CP!hvac_client_comm_gen_read_rpc,
     Lib!Goto, CP!Goto, Lib!Redirected, CP!Redirected, Lib!Forward,
     CP!Forward, Lib!ForwardFails, CP!ForwardFails, Lib!S!ReadReq,
     CP!S!ReadReq, Lib!S!Rsp, CP!S!Rsp, Lib!S!NoData, CP!S!NoData
<1>8. Lib!hvac_wait_for_operation(t) => CP!hvac_wait_for_operation(t)
  BY DEF Lib!hvac_wait_for_operation, CP!hvac_wait_for_operation, Lib!Goto,
     CP!Goto
<1>9. Lib!LocalRead(t) => CP!LocalRead(t)
  BY DEF Lib!LocalRead, CP!LocalRead, Lib!Finish, CP!Finish, Lib!S!BlockOf,
     CP!S!BlockOf, Lib!S!Rsp, CP!S!Rsp, Lib!S!NoData, CP!S!NoData
<1>10. Lib!Return(t) => CP!Return(t)
  BY DEF Lib!Return, CP!Return, Lib!Idle, CP!Idle
<1>11. Lib!hvac_remove_fd(t) => CP!hvac_remove_fd(t)
  BY DEF Lib!hvac_remove_fd, CP!hvac_remove_fd, Lib!Goto, CP!Goto,
     Lib!hvac_client_comm_gen_close_rpc, CP!hvac_client_comm_gen_close_rpc
<1>12. Lib!RealClose(t) => CP!RealClose(t)
  BY DEF Lib!RealClose, CP!RealClose, Lib!Idle, CP!Idle, Lib!Unlinked,
     CP!Unlinked
<1>13. Lib!AssertFails(t) => CP!AssertFails(t)
  BY DEF Lib!AssertFails, CP!AssertFails, Lib!Redirected, CP!Redirected
<1> QED
  BY <1>1, <1>2, <1>3, <1>4, <1>5, <1>6, <1>7, <1>8, <1>9, <1>10, <1>11,
     <1>12, <1>13
     DEF Lib!Continue, CP!Continue

LEMMA ApplicationStep ==
  ASSUME UNCHANGED <<rspBar, remoteBar>>, Lib!Application
  PROVE  CP!Application
<1> USE SameIdle DEF Lib!At, CP!At, Lib!mapVars, CP!mapVars, Lib!mercuryVars,
    CP!mercuryVars, Lib!callVars, CP!callVars, Lib!appVars, CP!appVars,
    Lib!rpcVars, CP!rpcVars
<1>1. \A t, pc, op, f, o : Lib!Begin(t, pc, op, f, o) => CP!Begin(t, pc, op, f, o)
  BY DEF Lib!Begin, CP!Begin, Lib!Idle, CP!Idle
<1>2. \A f : Lib!Find(f) = CP!Find(f)
  BY DEF Lib!Find, CP!Find
<1>3. \A t, p : Lib!open(t, p) => CP!open(t, p)
  BY <1>1, SameCardinality DEF Lib!open, CP!open, Lib!Opening, CP!Opening
<1>4. \A t, f, o : Lib!read(t, f, o) => CP!read(t, f, o)
  BY <1>1, <1>2 DEF Lib!read, CP!read
<1>5. \A t, f : Lib!close(t, f) => CP!close(t, f)
  BY <1>1, <1>2 DEF Lib!close, CP!close
<1>6. \A f : Lib!fclose(f) => CP!fclose(f)
  BY DEF Lib!fclose, CP!fclose, Lib!Unused, CP!Unused, Lib!Unlinked, CP!Unlinked
<1>7. \A f, o : Lib!lseek(f, o) => CP!lseek(f, o)
  BY DEF Lib!lseek, CP!lseek, Lib!Unused, CP!Unused
<1> QED
  BY <1>3, <1>4, <1>5, <1>6, <1>7 DEF Lib!Application, CP!Application

\* An answer is pushed, then sent: never both.
Apart == \A f \in Lfd : rsp[f] = NotSent \/ bulk[f] = NotSent

RspType == rsp \in [Lfd -> SP!RpcOut]

LEMMA ServerKeepsApart == SP!IInv => Apart /\ RspType
BY SameIdle DEF SP!IInv, SP!CallInv, SP!TypeOK, SP!RpcTypeOK, Apart, RspType

\* The library takes an answer, or none; the pushes are the server's.
Takes ==
  /\ UNCHANGED bulk
  /\ \/ UNCHANGED rsp
     \/ \E f \in Lfd : rsp[f] # NotSent /\ rsp' = [rsp EXCEPT ![f] = NotSent]

LEMMA TakenAnswer ==
  ASSUME Apart, RspType, UNCHANGED bulk, NEW f \in Lfd, rsp[f] # NotSent,
         rsp' = [rsp EXCEPT ![f] = NotSent]
  PROVE  rspBar[f] = rsp[f] /\ rspBar' = [rspBar EXCEPT ![f] = NotSent]
BY DEF Apart, RspType, rspBar

\* A callback runs on the answer that the file service has given.
LEMMA CallbackStep ==
  ASSUME Apart, RspType, UNCHANGED <<bulk, remoteBar>>, NEW f \in Lfd,
         Lib!Callback(f)
  PROVE  CP!Callback(f) /\ Takes
<1> USE SameIdle DEF Lib!mapVars, CP!mapVars, Lib!mercuryVars, CP!mercuryVars,
    Lib!callVars, CP!callVars, Lib!appVars, CP!appVars, Lib!rpcVars, CP!rpcVars
<1>1. ASSUME Lib!CallbackRuns(f)
      PROVE  CP!CallbackRuns(f) /\ Takes /\ rspBar[f] = rsp[f]
  <2>1. rsp[f] # NotSent /\ rsp' = [rsp EXCEPT ![f] = NotSent]
    BY <1>1 DEF Lib!CallbackRuns
  <2>2. rspBar[f] = rsp[f] /\ rspBar' = [rspBar EXCEPT ![f] = NotSent]
    BY <2>1, TakenAnswer
  <2> QED
    BY <1>1, <2>1, <2>2, SameCardinality DEF Lib!CallbackRuns, CP!CallbackRuns, Takes
<1>2. CASE Lib!hvac_open_cb(f)
  BY <1>1, <1>2 DEF Lib!hvac_open_cb, CP!hvac_open_cb, CP!Callback
<1>3. CASE Lib!hvac_read_cb(f)
  BY <1>1, <1>3 DEF Lib!hvac_read_cb, CP!hvac_read_cb, CP!Callback
<1>4. CASE Lib!Signal(f)
  <2>1. UNCHANGED rsp /\ rspBar' = rspBar
    BY <1>4 DEF Lib!Signal, rspBar
  <2> QED
    BY <1>4, <2>1 DEF Lib!Signal, CP!Signal, Lib!NoHandle, CP!NoHandle,
       CP!Callback, Takes
<1> QED
  BY <1>2, <1>3, <1>4 DEF Lib!Callback

\* The other steps leave the answers alone.
LEMMA ContinueTakes ==
  ASSUME NEW t \in Thread, Lib!Continue(t)
  PROVE  UNCHANGED rsp
BY DEF Lib!Continue, Lib!hvac_track_file, Lib!FdMapInserted, Lib!CheckMercury,
   Lib!hvac_init_comm, Lib!hvac_client_comm_register_rpc,
   Lib!hvac_client_comm_gen_open_rpc, Lib!hvac_client_comm_gen_read_rpc,
   Lib!Forward, Lib!ForwardFails, Lib!hvac_wait_for_operation, Lib!LocalRead,
   Lib!Return, Lib!hvac_remove_fd, Lib!RealClose, Lib!AssertFails, Lib!rpcVars

LEMMA ApplicationTakes ==
  ASSUME Lib!Application
  PROVE  UNCHANGED rsp
BY DEF Lib!Application, Lib!open, Lib!read, Lib!close, Lib!fclose, Lib!lseek,
   Lib!rpcVars

\* So a step of the library here is one of HvacClient.
LEMMA LibraryStep ==
  ASSUME Apart, RspType, ClientStep
  PROVE  /\ Takes /\ UNCHANGED serverVars
         /\ \/ CP!Application
            \/ \E t \in Thread : CP!Continue(t)
            \/ \E f \in Lfd : CP!Callback(f)
<1>1. UNCHANGED serverVars
  BY DEF ClientStep, Continue, Callback
<1>2. UNCHANGED <<bulk, remoteBar>>
  BY <1>1 DEF serverVars, remoteBar
<1>3. UNCHANGED rsp => UNCHANGED rspBar /\ Takes
  BY <1>2 DEF rspBar, Takes
<1>4. CASE Lib!Application
  BY <1>1, <1>2, <1>3, <1>4, ApplicationTakes, ApplicationStep
<1>5. ASSUME NEW t \in Thread, Lib!Continue(t) PROVE CP!Continue(t) /\ Takes
  BY <1>2, <1>3, <1>5, ContinueTakes, ContinueStep
<1>6. ASSUME NEW f \in Lfd, Lib!Callback(f) PROVE CP!Callback(f) /\ Takes
  BY <1>2, <1>6, CallbackStep
<1> QED
  BY <1>1, <1>4, <1>5, <1>6 DEF ClientStep, Continue, Callback

-----------------------------------------------------------------------------
(* What the library does is what HvacServer expects of its callers.        *)

LEMMA SameMessages ==
  /\ CP!S!NoReq = SP!NoReq /\ CP!S!NoRsp = NotSent /\ CP!S!NoData = SP!NoData
  /\ CP!S!Failed = SP!Failed /\ CP!S!Sequential = SP!Sequential
  /\ CP!S!NothingHeld = SP!NothingHeld /\ CP!S!Offset = SP!Offset
  /\ \A op, ret, data : CP!S!Rsp(op, ret, data) = SP!Rsp(op, ret, data)
  /\ \A q : CP!S!OpenReq(q) = SP!OpenReq(q)
  /\ \A d, o : CP!S!ReadReq(d, o) = SP!ReadReq(d, o)
  /\ \A d, o : CP!S!SeekReq(d, o) = SP!SeekReq(d, o)
BY DEF CP!S!NoReq, SP!NoReq, CP!S!NoRsp, NotSent, CP!S!NoData, SP!NoData,
   CP!S!Failed, SP!Failed, CP!S!Sequential, SP!Sequential, CP!S!NothingHeld,
   SP!NothingHeld, CP!S!Offset, SP!Offset, CP!S!Rsp, SP!Rsp, CP!S!OpenReq,
   SP!OpenReq, CP!S!ReadReq, SP!ReadReq, CP!S!SeekReq, SP!SeekReq

LEMMA SameHeld == CP!heldBar = C!heldBar /\ CP!heldBar' = C!heldBar'
BY DEF CP!heldBar, C!heldBar, CP!Unseen, C!Unseen

\* Seen through rspBar, the step of the library tells what it did to rsp.
LEMMA TakenBar ==
  ASSUME Apart, RspType, Takes
  PROVE  /\ rspBar' = rspBar => rsp' = rsp
         /\ \A f \in Lfd :
              rspBar[f] # NotSent /\ rspBar' = [rspBar EXCEPT ![f] = NotSent]
                => rsp[f] = rspBar[f] /\ rsp' = [rsp EXCEPT ![f] = NotSent]
<1>0. \A f \in Lfd : [rspBar EXCEPT ![f] = NotSent][f] = NotSent
  BY DEF rspBar
<1>1. CASE UNCHANGED rsp
  <2>1. rspBar' = rspBar
    BY <1>1 DEF rspBar, Takes
  <2> QED
    BY <1>0, <1>1, <2>1
<1>2. ASSUME NEW g \in Lfd, rsp[g] # NotSent, rsp' = [rsp EXCEPT ![g] = NotSent]
      PROVE  /\ rspBar' # rspBar
             /\ \A f \in Lfd :
                  rspBar[f] # NotSent /\ rspBar' = [rspBar EXCEPT ![f] = NotSent]
                    => f = g /\ rsp[f] = rspBar[f]
  <2>1. rspBar[g] = rsp[g] /\ rspBar' = [rspBar EXCEPT ![g] = NotSent]
    BY <1>2, TakenAnswer DEF Takes
  <2>2. rspBar'[g] = NotSent
    BY <1>0, <2>1
  <2>3. \A f \in Lfd : f # g => [rspBar EXCEPT ![g] = NotSent][f] = rspBar[f]
    BY DEF rspBar
  <2> QED
    BY <1>0, <1>2, <2>1, <2>2, <2>3
<1> QED
  BY <1>1, <1>2 DEF Takes

\* A call of the library is a call that HvacServer provides for.
LEMMA AskedServer ==
  ASSUME Apart, RspType, Takes, CP!Asks
  PROVE  SP!CallerNext
<1> USE SameMessages, SameHeld
<1>0. CP!S!CallerNext
  BY DEF CP!Asks
<1>1. ASSUME NEW c \in Lfd, NEW r, CP!S!Calls(c, r)
      PROVE  SP!Calls(c, r)
  BY <1>1, TakenBar DEF CP!S!Calls, SP!Calls
<1>2. ASSUME NEW c \in Lfd, NEW q, CP!S!ClientOpen(c, q)
      PROVE  SP!ClientOpen(c, q)
  BY <1>1, <1>2 DEF CP!S!ClientOpen, SP!ClientOpen
<1>3. ASSUME NEW c \in Lfd, NEW o, CP!S!ClientRead(c, o)
      PROVE  SP!ClientRead(c, o)
  BY <1>1, <1>3 DEF CP!S!ClientRead, SP!ClientRead
<1>4. ASSUME NEW c \in Lfd, NEW o, CP!S!ClientSeek(c, o)
      PROVE  SP!ClientSeek(c, o)
  BY <1>1, <1>4 DEF CP!S!ClientSeek, SP!ClientSeek
<1>5. ASSUME NEW c \in Lfd, CP!S!ClientClose(c)
      PROVE  SP!ClientClose(c)
  BY <1>5, TakenBar DEF CP!S!ClientClose, SP!ClientClose
<1>6. ASSUME NEW c \in Lfd, CP!S!ClientRecv(c)
      PROVE  SP!ClientRecv(c)
  <2>1. rsp[c] = rspBar[c] /\ rsp' = [rsp EXCEPT ![c] = NotSent] /\ rsp[c] # NotSent
    BY <1>6, TakenBar DEF CP!S!ClientRecv
  <2>2. CP!S!OffsetAfter(c, rspBar[c]) = SP!OffsetAfter(c, rsp[c])
    BY <2>1 DEF CP!S!OffsetAfter, SP!OffsetAfter
  <2> QED
    BY <1>6, <2>1, <2>2, SameIdle DEF CP!S!ClientRecv, SP!ClientRecv
<1> QED
  BY <1>0, <1>2, <1>3, <1>4, <1>5, <1>6 DEF CP!S!CallerNext, SP!CallerNext

-----------------------------------------------------------------------------
(* What the server does is what HvacClient expects of its server.          *)

LEMMA SameBars ==
  /\ SP!rspBar = rspBar /\ SP!rspBar' = rspBar'
  /\ SP!remoteBar = remoteBar /\ SP!remoteBar' = remoteBar'
BY SameIdle DEF SP!rspBar, rspBar, SP!remoteBar, remoteBar

LEMMA SameService ==
  ASSUME SP!FS!ServiceNext
  PROVE  (\E f \in Lfd : CP!S!Serve(f)) \/ (\E d \in Fd : CP!S!ServeClose(d))
<1> USE SameBars DEF SP!FS!NoReq, CP!S!NoReq, SP!FS!NoData, CP!S!NoData,
    SP!FS!Rsp, CP!S!Rsp, SP!FS!Failed, CP!S!Failed, SP!FS!Sequential,
    CP!S!Sequential, SP!FS!NotOpen, CP!S!NotOpen, SP!FS!Respond, CP!S!Respond
<1>1. \A c : SP!FS!ServeOpen(c) => CP!S!ServeOpen(c)
  BY DEF SP!FS!ServeOpen, CP!S!ServeOpen
<1>2. \A c : SP!FS!ServeRead(c) => CP!S!ServeRead(c)
  BY DEF SP!FS!ServeRead, CP!S!ServeRead, SP!FS!BlockOf, CP!S!BlockOf
<1>3. \A c : SP!FS!ServeSeek(c) => CP!S!ServeSeek(c)
  BY DEF SP!FS!ServeSeek, CP!S!ServeSeek
<1>4. \A d : SP!FS!ServeClose(d) => CP!S!ServeClose(d)
  BY DEF SP!FS!ServeClose, CP!S!ServeClose
<1> QED
  BY <1>1, <1>2, <1>3, <1>4 DEF SP!FS!ServiceNext, SP!FS!Serve, CP!S!Serve

\* Both instances of the server take the same steps.
LEMMA SameServer == Sv!ServerNext <=> SP!ServerNext
<1> USE DEF Sv!NoReq, SP!NoReq, Sv!NoRsp, SP!NoRsp, Sv!NoData, SP!NoData,
    Sv!Rsp, SP!Rsp, Sv!Failed, SP!Failed, Sv!Sequential, SP!Sequential,
    Sv!Respond, SP!Respond, Sv!HandlerIdle, SP!HandlerIdle, Sv!Up, SP!Up,
    Sv!BadFd, SP!BadFd, Sv!NoHandler, SP!NoHandler, Sv!Closed, SP!Closed,
    Sv!Unused, SP!Unused, Sv!ifVars, SP!ifVars, Sv!fdVars, SP!fdVars, Sv!moverVars, SP!moverVars, Sv!queueVars,
    SP!queueVars, Sv!handlerVars, SP!handlerVars
<1>1. \A q : Sv!Lookup(q) = SP!Lookup(q)
  BY DEF Sv!Lookup, SP!Lookup
<1>2. \A c : Sv!hvac_open_rpc_handler(c) <=> SP!hvac_open_rpc_handler(c)
  <2>1. \A h : Sv!OpenResults(h) = SP!OpenResults(h)
    BY DEF Sv!OpenResults, SP!OpenResults, Sv!FreeFd, SP!FreeFd
  <2> QED
    BY <1>1, <2>1 DEF Sv!hvac_open_rpc_handler, SP!hvac_open_rpc_handler
<1>3. \A c : Sv!hvac_rpc_handler(c) <=> SP!hvac_rpc_handler(c)
  <2>1. \A c : Sv!ReadOffset(c) = SP!ReadOffset(c)
    BY DEF Sv!ReadOffset, SP!ReadOffset
  <2>2. \A d, o : Sv!BytesAt(d, o) = SP!BytesAt(d, o)
    BY DEF Sv!BytesAt, SP!BytesAt, Sv!Whole, SP!Whole
  <2>3. \A d, o : Sv!BlockAt(d, o) = SP!BlockAt(d, o)
    BY <2>2 DEF Sv!BlockAt, SP!BlockAt, Sv!Source, SP!Source
  <2>4. \A c : Sv!ReadOk(c) <=> SP!ReadOk(c)
    BY <2>1, <2>2, <2>3 DEF Sv!ReadOk, SP!ReadOk
  <2>5. \A c : Sv!ReadFails(c) <=> SP!ReadFails(c)
    BY DEF Sv!ReadFails, SP!ReadFails
  <2> QED
    BY <2>4, <2>5 DEF Sv!hvac_rpc_handler, SP!hvac_rpc_handler
<1>4. \A c : Sv!hvac_rpc_handler_bulk_cb(c) <=> SP!hvac_rpc_handler_bulk_cb(c)
  BY DEF Sv!hvac_rpc_handler_bulk_cb, SP!hvac_rpc_handler_bulk_cb
<1>5. \A c : Sv!PushFails(c) <=> SP!PushFails(c)
  BY DEF Sv!PushFails, SP!PushFails
<1>6. \A c : Sv!hvac_seek_rpc_handler(c) <=> SP!hvac_seek_rpc_handler(c)
  BY DEF Sv!hvac_seek_rpc_handler, SP!hvac_seek_rpc_handler
<1>7. \A d : Sv!hvac_close_rpc_handler(d) <=> SP!hvac_close_rpc_handler(d)
  <2>1. \A d : Sv!CloseAndLookup(d) <=> SP!CloseAndLookup(d)
    BY <1>1 DEF Sv!CloseAndLookup, SP!CloseAndLookup
  <2> QED
    BY <2>1 DEF Sv!hvac_close_rpc_handler, SP!hvac_close_rpc_handler
<1>8. Sv!CloseQueuesPath <=> SP!CloseQueuesPath
  BY DEF Sv!CloseQueuesPath, SP!CloseQueuesPath, Sv!pthread_cond_signal,
     SP!pthread_cond_signal
<1>9. Sv!MoverStep <=> SP!MoverStep
  BY DEF Sv!MoverStep, SP!MoverStep, Sv!MoverWaits, SP!MoverWaits, Sv!MoverDrains,
     SP!MoverDrains, Sv!MoverCopies, SP!MoverCopies, Sv!MoverFails, SP!MoverFails,
     Sv!MoverAssigns, SP!MoverAssigns, Sv!MoverPublishes, SP!MoverPublishes
<1>10. Sv!SpuriousWakeup <=> SP!SpuriousWakeup
  BY DEF Sv!SpuriousWakeup, SP!SpuriousWakeup
<1>11. \A c : Sv!Handler(c) <=> SP!Handler(c)
  BY <1>2, <1>3, <1>4, <1>5, <1>6 DEF Sv!Handler, SP!Handler
<1> QED
  BY <1>7, <1>8, <1>9, <1>10, <1>11 DEF Sv!ServerNext, SP!ServerNext

\* A step of the server is one of the file service, or is not seen.
LEMMA ServerStepServes ==
  ASSUME SP!IInv, ServerStep
  PROVE  \/ \E f \in Lfd : CP!Server(f)
         \/ \E d \in Fd : CP!ServerCloses(d)
         \/ UNCHANGED CP!vars
<1>1. SP!FS!ServiceNext \/ UNCHANGED <<req, SP!rspBar, closeq, SP!remoteBar>>
  <2>1. SP!ServerNext
    BY SameServer DEF ServerStep
  <2> QED
    BY <2>1, SP!ServerRefines, SystemConstants
<1>2. UNCHANGED CP!clientVars
  BY DEF ServerStep, clientVars, CP!clientVars, CP!mapVars, CP!mercuryVars,
     CP!callVars, CP!appVars
<1>3. CASE SP!FS!ServiceNext
  BY <1>2, <1>3, SameService DEF CP!Server, CP!ServerCloses
<1>4. CASE UNCHANGED <<req, SP!rspBar, closeq, SP!remoteBar>>
  BY <1>2, <1>4, SameBars DEF CP!vars, CP!rpcVars
<1> QED
  BY <1>1, <1>3, <1>4

-----------------------------------------------------------------------------
(* The invariants of the two sides carry each other.                       *)

\* HG_Forward does not fail, lookups do not race, and descriptors are closed
\* through the library.
Faithful == Faults = {} /\ "fclose" \notin Bypass

SystemInv == SP!IInv /\ CP!TidyIInv

LEMMA InitSystem == Init => CP!Init /\ SP!Init
<1> SUFFICES ASSUME Init PROVE CP!Init /\ SP!Init
  OBVIOUS
<1>1. rspBar = [f \in Lfd |-> NotSent]
  BY SameIdle DEF Init, rspBar, Lib!Init
<1>2. remoteBar = [d \in Fd |-> CP!S!NotOpen]
  BY DEF Init, remoteBar, Sv!Closed, CP!S!NotOpen
<1>3. CP!Init
  BY <1>1, <1>2, SameIdle DEF Init, Lib!Init, CP!Init, Lib!Unlinked, CP!Unlinked,
     Lib!Idle, CP!Idle, Lib!NoHandle, CP!NoHandle
<1>4. SP!Init
  BY DEF Init, Sv!Init, SP!Init, Sv!RpcInit, SP!RpcInit, Sv!NoReq, SP!NoReq,
     Sv!NoRsp, SP!NoRsp, Sv!NoData, SP!NoData, Sv!NothingHeld, SP!NothingHeld,
     Sv!Closed, SP!Closed, Sv!Unused, SP!Unused, Sv!NoHandler, SP!NoHandler,
     Sv!Failed, SP!Failed
<1> QED
  BY <1>3, <1>4

\* Every step is a step of HvacClient and a step of HvacServer, or not seen
\* by one of them.
LEMMA SystemStep ==
  ASSUME Faithful, SystemInv, [Next]_vars
  PROVE  [CP!Next]_(CP!vars) /\ [SP!Next]_(SP!vars)
<1>0. Apart /\ RspType /\ CP!Faithful
  BY ServerKeepsApart DEF SystemInv, Faithful, CP!Faithful
<1>1. CASE ClientStep
  <2>1. /\ Takes /\ UNCHANGED serverVars
        /\ \/ CP!Application
           \/ \E t \in Thread : CP!Continue(t)
           \/ \E f \in Lfd : CP!Callback(f)
    BY <1>0, <1>1, LibraryStep
  <2>2. CP!Next
    BY <2>1 DEF CP!Next
  <2>3. UNCHANGED SP!serverVars
    BY <2>1 DEF serverVars, SP!serverVars, SP!fdVars, SP!moverVars, SP!queueVars,
       SP!handlerVars
  <2>4. CP!Asks \/ UNCHANGED CP!S!vars
    BY <1>0, <2>1, CP!LibraryRefines, SystemConstants DEF SystemInv
  <2>5. CASE CP!Asks
    BY <1>0, <2>1, <2>2, <2>3, <2>5, AskedServer DEF SP!Next
  <2>6. CASE UNCHANGED CP!S!vars
    <3>1. UNCHANGED <<req, rspBar, closeq, C!heldBar, opens>>
      BY <2>6, SameHeld DEF CP!S!vars, CP!S!rpcVars, CP!S!ifVars, CP!S!callerVars
    <3>2. UNCHANGED rsp
      BY <1>0, <2>1, <3>1, TakenBar
    <3> QED
      BY <2>2, <2>3, <3>1, <3>2 DEF SP!vars, SP!rpcVars, SP!ifVars, SP!callerVars
  <2> QED
    BY <2>4, <2>5, <2>6
<1>2. CASE ServerStep
  <2>1. SP!ServerNext
    BY <1>2, SameServer DEF ServerStep
  <2>2. \/ \E f \in Lfd : CP!Server(f)
        \/ \E d \in Fd : CP!ServerCloses(d)
        \/ UNCHANGED CP!vars
    BY <1>2, ServerStepServes DEF SystemInv
  <2>3. UNCHANGED CP!heldBar
    <3>1. ASSUME NEW f \in Lfd, CP!Server(f) PROVE UNCHANGED CP!heldBar
      BY <3>1, CP!ServerRefines, SystemConstants
         DEF SystemInv, CP!Serves, CP!S!callerVars
    <3>2. ASSUME NEW d \in Fd, CP!ServerCloses(d) PROVE UNCHANGED CP!heldBar
      BY <3>2, CP!ServerClosesRefines, SystemConstants
         DEF SystemInv, CP!Serves, CP!S!callerVars
    <3>3. CASE UNCHANGED CP!vars
      BY <3>3 DEF CP!vars, CP!clientVars, CP!mapVars, CP!callVars, CP!rpcVars,
         CP!heldBar, CP!Unseen
    <3> QED
      BY <2>2, <3>1, <3>2, <3>3
  <2>4. UNCHANGED SP!callerVars
    BY <1>2, <2>3, SameHeld DEF SP!callerVars, ServerStep, clientVars
  <2> QED
    BY <2>1, <2>2, <2>4 DEF CP!Next, SP!Next
<1>3. CASE UNCHANGED vars
  <2>1. UNCHANGED <<clientVars, rpcVars, serverVars>>
    BY <1>3 DEF vars
  <2>2. UNCHANGED <<rspBar, remoteBar>>
    BY <2>1 DEF rpcVars, serverVars, rspBar, remoteBar
  <2>3. UNCHANGED CP!vars
    BY <2>1, <2>2 DEF clientVars, rpcVars, CP!vars, CP!clientVars, CP!mapVars,
       CP!mercuryVars, CP!callVars, CP!appVars, CP!rpcVars
  <2>4. UNCHANGED C!heldBar
    BY <2>1, <2>2 DEF clientVars, C!heldBar, C!Unseen
  <2>5. UNCHANGED SP!vars
    BY <2>1, <2>4 DEF clientVars, rpcVars, serverVars, SP!vars, SP!rpcVars,
       SP!ifVars, SP!callerVars, SP!serverVars, SP!fdVars, SP!moverVars,
       SP!queueVars, SP!handlerVars
  <2> QED
    BY <2>3, <2>5
<1> QED
  BY <1>1, <1>2, <1>3 DEF Next

LEMMA InitSystemInv == Init => SystemInv
BY InitSystem, SP!InitIInv, CP!InitTidyIInv, SystemConstants DEF SystemInv

LEMMA NextSystemInv ==
  ASSUME Faithful
  PROVE  SystemInv /\ [Next]_vars => SystemInv'
<1> SUFFICES ASSUME SystemInv, [Next]_vars PROVE SystemInv'
  OBVIOUS
<1>1. [CP!Next]_(CP!vars) /\ [SP!Next]_(SP!vars)
  BY SystemStep
<1>2. SP!IInv'
  BY <1>1, SP!NextIInv, SystemConstants DEF SystemInv
<1>3. CP!TidyIInv'
  BY <1>1, CP!NextTidyIInv, SystemConstants DEF SystemInv, Faithful, CP!Tidy
<1> QED
  BY <1>2, <1>3 DEF SystemInv

\* Both instances of HvacClient are the same specification.
LEMMA SameClient ==
  /\ CP!Init => C!Init
  /\ [CP!Next]_(CP!vars) => [C!Next]_(C!vars)
<1> USE DEF C!At, CP!At, C!mapVars, CP!mapVars, C!mercuryVars, CP!mercuryVars,
    C!callVars, CP!callVars, C!appVars, CP!appVars, C!rpcVars, CP!rpcVars, C!Goto,
    CP!Goto, C!Finish, CP!Finish, C!Idle, CP!Idle, C!NoHandle, CP!NoHandle,
    C!Unlinked, CP!Unlinked, C!NoRsp, CP!NoRsp, C!NoCall, CP!NoCall,
    C!S!NoReq, CP!S!NoReq, C!S!NoRsp, CP!S!NoRsp, C!S!NoData, CP!S!NoData,
    C!S!Rsp, CP!S!Rsp
<1>0. \A T : C!Cardinality(T) = CP!Cardinality(T)
  BY DEF C!Cardinality, CP!Cardinality
<1>1. CP!Init => C!Init
  BY DEF C!Init, CP!Init, C!S!NotOpen, CP!S!NotOpen
<1>2. CP!Application => C!Application
  <2>0. \A t, pc, op, f, o : CP!Begin(t, pc, op, f, o) => C!Begin(t, pc, op, f, o)
    BY DEF C!Begin, CP!Begin
  <2>1. \A f : CP!Find(f) = C!Find(f)
    BY DEF C!Find, CP!Find
  <2>2. \A t, q : CP!open(t, q) => C!open(t, q)
    BY <1>0, <2>0 DEF C!open, CP!open, C!Opening, CP!Opening
  <2>3. \A t, f, o : CP!read(t, f, o) => C!read(t, f, o)
    BY <2>0, <2>1 DEF C!read, CP!read
  <2>4. \A t, f : CP!close(t, f) => C!close(t, f)
    BY <2>0, <2>1 DEF C!close, CP!close
  <2>5. \A f, o : (CP!fclose(f) => C!fclose(f)) /\ (CP!lseek(f, o) => C!lseek(f, o))
    BY DEF C!fclose, CP!fclose, C!lseek, CP!lseek, C!Unused, CP!Unused
  <2> QED
    BY <2>2, <2>3, <2>4, <2>5 DEF C!Application, CP!Application
<1>3. \A t : CP!Continue(t) => C!Continue(t)
  <2>1. \A t : /\ CP!hvac_track_file(t) => C!hvac_track_file(t)
               /\ CP!FdMapInserted(t) => C!FdMapInserted(t)
               /\ CP!CheckMercury(t) => C!CheckMercury(t)
    BY DEF C!hvac_track_file, CP!hvac_track_file, C!FdMapInserted,
       CP!FdMapInserted, C!CheckMercury, CP!CheckMercury
  <2>2. \A t : /\ CP!hvac_init_comm(t) => C!hvac_init_comm(t)
               /\ CP!hvac_client_comm_register_rpc(t)
                    => C!hvac_client_comm_register_rpc(t)
    BY DEF C!hvac_init_comm, CP!hvac_init_comm, C!hvac_client_comm_register_rpc,
       CP!hvac_client_comm_register_rpc
  <2>3. \A t : CP!hvac_client_comm_gen_open_rpc(t) => C!hvac_client_comm_gen_open_rpc(t)
    BY DEF C!hvac_client_comm_gen_open_rpc, CP!hvac_client_comm_gen_open_rpc,
       C!Forward, CP!Forward, C!ForwardFails, CP!ForwardFails, C!S!OpenReq,
       CP!S!OpenReq
  <2>4. \A t : CP!hvac_client_comm_gen_read_rpc(t) => C!hvac_client_comm_gen_read_rpc(t)
    BY DEF C!hvac_client_comm_gen_read_rpc, CP!hvac_client_comm_gen_read_rpc,
       C!Forward, CP!Forward, C!ForwardFails, CP!ForwardFails, C!S!ReadReq,
       CP!S!ReadReq, C!Redirected, CP!Redirected
  <2>5. \A t : CP!hvac_wait_for_operation(t) => C!hvac_wait_for_operation(t)
    BY DEF C!hvac_wait_for_operation, CP!hvac_wait_for_operation
  <2>6. \A t : /\ CP!LocalRead(t) => C!LocalRead(t)
               /\ CP!Return(t) => C!Return(t)
    BY DEF C!LocalRead, CP!LocalRead, C!Return, CP!Return, C!S!BlockOf, CP!S!BlockOf
  <2>7. \A t : /\ CP!hvac_remove_fd(t) => C!hvac_remove_fd(t)
               /\ CP!RealClose(t) => C!RealClose(t)
               /\ CP!AssertFails(t) => C!AssertFails(t)
    BY DEF C!hvac_remove_fd, CP!hvac_remove_fd, C!hvac_client_comm_gen_close_rpc,
       CP!hvac_client_comm_gen_close_rpc, C!RealClose, CP!RealClose, C!AssertFails,
       CP!AssertFails, C!Redirected, CP!Redirected
  <2> QED
    BY <2>1, <2>2, <2>3, <2>4, <2>5, <2>6, <2>7 DEF C!Continue, CP!Continue
<1>4. \A f : CP!Callback(f) => C!Callback(f)
  <2>1. \A f : CP!CallbackRuns(f) => C!CallbackRuns(f)
    BY <1>0 DEF C!CallbackRuns, CP!CallbackRuns
  <2>2. \A f : /\ CP!hvac_open_cb(f) => C!hvac_open_cb(f)
               /\ CP!hvac_read_cb(f) => C!hvac_read_cb(f)
    BY <2>1 DEF C!hvac_open_cb, CP!hvac_open_cb, C!hvac_read_cb, CP!hvac_read_cb
  <2>3. \A f : CP!Signal(f) => C!Signal(f)
    BY DEF C!Signal, CP!Signal
  <2> QED
    BY <2>2, <2>3 DEF C!Callback, CP!Callback
<1>5. UNCHANGED CP!clientVars => UNCHANGED C!clientVars
  BY DEF C!clientVars, CP!clientVars
<1>6. \A f : CP!Server(f) => C!Server(f)
  <2> USE DEF C!S!Respond, CP!S!Respond, C!S!Failed, CP!S!Failed,
      C!S!Sequential, CP!S!Sequential
  <2>1. \A f : CP!S!ServeOpen(f) => C!S!ServeOpen(f)
    BY DEF C!S!ServeOpen, CP!S!ServeOpen
  <2>2. \A f : CP!S!ServeRead(f) => C!S!ServeRead(f)
    BY DEF C!S!ServeRead, CP!S!ServeRead, C!S!BlockOf, CP!S!BlockOf
  <2>3. \A f : CP!S!ServeSeek(f) => C!S!ServeSeek(f)
    BY DEF C!S!ServeSeek, CP!S!ServeSeek
  <2> QED
    BY <1>5, <2>1, <2>2, <2>3 DEF C!Server, CP!Server, C!S!Serve, CP!S!Serve
<1>7. \A d : CP!ServerCloses(d) => C!ServerCloses(d)
  BY <1>5 DEF C!ServerCloses, CP!ServerCloses, C!S!ServeClose, CP!S!ServeClose,
     C!S!NotOpen, CP!S!NotOpen
<1>8. UNCHANGED CP!vars => UNCHANGED C!vars
  BY <1>5 DEF C!vars, CP!vars
<1> QED
  BY <1>1, <1>2, <1>3, <1>4, <1>6, <1>7, <1>8 DEF C!Next, CP!Next

\* The callers of the two instances of HvacServer do the same.
LEMMA SameCallers ==
  /\ SP!CallerNext => Sv!CallerNext
  /\ UNCHANGED SP!callerVars => UNCHANGED Sv!callerVars
  /\ UNCHANGED SP!serverVars => UNCHANGED Sv!serverVars
  /\ UNCHANGED SP!vars => UNCHANGED Sv!vars
<1> USE DEF Sv!NoReq, SP!NoReq, Sv!NoRsp, SP!NoRsp, Sv!NoData, SP!NoData,
    Sv!NothingHeld, SP!NothingHeld, Sv!Failed, SP!Failed, Sv!Sequential,
    SP!Sequential, Sv!Offset, SP!Offset, Sv!Calls, SP!Calls
<1>1. \A c, q : SP!ClientOpen(c, q) => Sv!ClientOpen(c, q)
  BY DEF Sv!ClientOpen, SP!ClientOpen, Sv!OpenReq, SP!OpenReq
<1>2. \A c, o : SP!ClientRead(c, o) => Sv!ClientRead(c, o)
  BY DEF Sv!ClientRead, SP!ClientRead, Sv!ReadReq, SP!ReadReq
<1>3. \A c, o : SP!ClientSeek(c, o) => Sv!ClientSeek(c, o)
  BY DEF Sv!ClientSeek, SP!ClientSeek, Sv!SeekReq, SP!SeekReq
<1>4. \A c : SP!ClientClose(c) => Sv!ClientClose(c)
  BY DEF Sv!ClientClose, SP!ClientClose
<1>5. \A c : SP!ClientRecv(c) => Sv!ClientRecv(c)
  BY DEF Sv!ClientRecv, SP!ClientRecv, Sv!OffsetAfter, SP!OffsetAfter
<1>6. SP!CallerNext => Sv!CallerNext
  BY <1>1, <1>2, <1>3, <1>4, <1>5 DEF Sv!CallerNext, SP!CallerNext
<1>7. /\ UNCHANGED SP!callerVars => UNCHANGED Sv!callerVars
      /\ UNCHANGED SP!serverVars => UNCHANGED Sv!serverVars
  BY DEF Sv!callerVars, SP!callerVars, Sv!serverVars, SP!serverVars, Sv!fdVars,
     SP!fdVars, Sv!moverVars, SP!moverVars, Sv!queueVars, SP!queueVars,
     Sv!handlerVars, SP!handlerVars
<1>8. UNCHANGED SP!vars => UNCHANGED Sv!vars
  BY <1>7 DEF Sv!vars, SP!vars, Sv!rpcVars, SP!rpcVars, Sv!ifVars, SP!ifVars
<1> QED
  BY <1>6, <1>7, <1>8

-----------------------------------------------------------------------------
(* Theorems.                                                               *)

LEMMA SystemInvariance ==
  ASSUME Faithful
  PROVE  Spec => []SystemInv
BY InitSystemInv, NextSystemInv, PTL DEF Spec

\* hvac_server, its cache, its mover and its bulk pushes, stands in for the
\* file service that the library was verified against: whatever is proved of
\* HvacClient holds of the library that runs against the server.
THEOREM LibraryMeetsServer ==
  ASSUME Faithful
  PROVE  Spec => LibrarySeesFileService
<1>1. Init => C!Init
  BY InitSystem, SameClient
<1>2. SystemInv /\ [Next]_vars => [C!Next]_(C!vars)
  BY SystemStep, SameClient
<1> QED
  BY <1>1, <1>2, SystemInvariance, PTL DEF Spec, LibrarySeesFileService, C!Spec

\* The threads of the application, through the library, are callers such as
\* HvacServer was verified with: whatever is proved of HvacServer holds of
\* the server that runs against the library.
THEOREM ServerMeetsLibrary ==
  ASSUME Faithful
  PROVE  Spec => ServerSeesCallers
<1>1. Init => Sv!Init
  BY DEF Init
<1>2. SystemInv /\ [Next]_vars => [Sv!Next]_(Sv!vars)
  <2> SUFFICES ASSUME SystemInv, [Next]_vars PROVE [Sv!Next]_(Sv!vars)
    OBVIOUS
  <2>1. [SP!Next]_(SP!vars)
    BY SystemStep
  <2> QED
    BY <2>1, SameServer, SameCallers DEF SP!Next, Sv!Next
<1> QED
  BY <1>1, <1>2, SystemInvariance, PTL DEF Spec, ServerSeesCallers, Sv!Spec

\* Every descriptor open in the server is the remote descriptor of one
\* tracked file of the application, on its way to one, or named by one close
\* RPC: nothing leaks and nothing is shared between the two processes.
THEOREM SystemAccounting ==
  ASSUME Faithful
  PROVE  Spec => []DescriptorsAccounted
<1>1. SystemInv => DescriptorsAccounted
  BY DEF SystemInv, SP!IInv, DescriptorsAccounted, SP!DescriptorsAccounted,
     Sv!DescriptorsAccounted, SP!Owned, Sv!Owned, SP!Arriving, Sv!Arriving,
     SP!Failed, Sv!Failed
<1> QED
  BY <1>1, SystemInvariance, PTL

\* No sequence of calls of the application makes an assert() of the server's
\* handlers fail on a descriptor that is not open.
THEOREM SystemDescriptorAsserts ==
  ASSUME Faithful
  PROVE  Spec => []NoDescriptorAbort
<1>1. Init => NoDescriptorAbort
  BY DEF Init, Sv!Init, NoDescriptorAbort, Sv!NoDescriptorAbort
<1>2. SystemInv /\ NoDescriptorAbort /\ [Next]_vars => NoDescriptorAbort'
  <2> SUFFICES ASSUME SystemInv, NoDescriptorAbort, [Next]_vars
               PROVE  NoDescriptorAbort'
    OBVIOUS
  <2>1. [SP!Next]_(SP!vars)
    BY SystemStep
  <2>2. SP!NoDescriptorAbort
    BY DEF NoDescriptorAbort, Sv!NoDescriptorAbort, SP!NoDescriptorAbort
  <2>3. SP!NoDescriptorAbort'
    BY <2>1, <2>2, SP!NextNoDescriptorAbort, SystemConstants DEF SystemInv
  <2> QED
    BY <2>3 DEF NoDescriptorAbort, Sv!NoDescriptorAbort, SP!NoDescriptorAbort
<1> QED
  BY <1>1, <1>2, SystemInvariance, PTL DEF Spec

\* When every call on the descriptors is wrapped, read() and pread() of the
\* application return what the plain file holds, whether the bytes come from
\* the original or from a copy in the burst buffer, and whatever the mover,
\* the other threads and their RPCs are doing.
THEOREM EndToEnd ==
  ASSUME Faults = {}, Bypass = {}
  PROVE  Spec => []ReadsReturnTheFile
<1>0. Faithful /\ CP!Exact
  BY DEF Faithful, CP!Exact
<1>1. Init => CP!ReadsInv
  BY InitSystem, CP!InitReads, SystemConstants
<1>2. SystemInv /\ CP!ReadsInv /\ [Next]_vars => CP!ReadsInv'
  <2> SUFFICES ASSUME SystemInv, CP!ReadsInv, [Next]_vars PROVE CP!ReadsInv'
    OBVIOUS
  <2>1. [CP!Next]_(CP!vars)
    BY <1>0, SystemStep
  <2> QED
    BY <1>0, <2>1, CP!NextReads, SystemConstants DEF SystemInv
<1>3. CP!ReadsInv => ReadsReturnTheFile
  <2>1. CP!ReadsInv => CP!ReadsReturnTheFile
    BY CP!ReadsFollow, SystemConstants
  <2>2. \A t : CP!Expected(t) = Lib!Expected(t)
    BY DEF CP!Expected, Lib!Expected, CP!S!BlockOf, Lib!S!BlockOf, CP!S!Rsp,
       Lib!S!Rsp, CP!S!NoData, Lib!S!NoData
  <2> QED
    BY <2>1, <2>2 DEF ReadsReturnTheFile, Lib!ReadsReturnTheFile,
       CP!ReadsReturnTheFile
<1>4. Spec => []SystemInv
  BY <1>0, SystemInvariance
<1> QED
  BY <1>1, <1>2, <1>3, <1>4, PTL DEF Spec
=============================================================================
