-------------------------- MODULE HvacClientProofs --------------------------
(***************************************************************************)
(* Proofs about HvacClient, for any number of threads, descriptors, files  *)
(* and opens.  The inductive invariant is built in layers, each of which   *)
(* is inductive given the ones before it:                                  *)
(*                                                                         *)
(*   BaseTypes, CallsInv   which thread is in which call, and where the    *)
(*                         message of that call is;                        *)
(*   RemoteInv             who holds which descriptor of the server;       *)
(*   OpensInv              the bound on the open RPCs;                     *)
(*   TidyInv               what the tracking maps say of the kernel's      *)
(*                         table, when nothing goes behind their back;     *)
(*   ReadsInv              where the next read() of a descriptor reads.    *)
(*                                                                         *)
(* The first three hold whatever fails and whatever bypasses the library.  *)
(***************************************************************************)
EXTENDS HvacClient, FiniteSetTheorems, TLAPS

-----------------------------------------------------------------------------
(* Types, apart from those of heldBar, which follow from RemoteInv.        *)

ThreadType == [pc : Pc, op : {"none", "open", "read", "close"},
               fd : Lfd \cup {None}, off : -1 .. FileLen, done : BOOLEAN,
               out : S!RpcOut]
HandleType == [call : S!RpcIn, thread : Thread \cup {None}, class : Nat]
FileType   == [path : Path \cup {NoPath}, off : 0 .. FileLen]

MapTypes ==
  /\ lfile \in [Lfd -> FileType]
  /\ fd_map \in [Lfd -> Path \cup {NoPath}]
  /\ fd_redir_map \in [Lfd -> Fd \cup {0}]
  /\ fd_state_map \in [Lfd -> {"none", "opening", "ready", "error"}]

MercuryTypes ==
  /\ g_mercury_init \in BOOLEAN
  /\ hg_class \in Nat /\ registered \in 0 .. hg_class
  /\ aborted \in BOOLEAN

CallTypes ==
  /\ thr \in [Thread -> ThreadType]
  /\ handle \in [Lfd -> HandleType]
  /\ cb \in [Lfd -> S!RpcOut]
  /\ app \in SUBSET Lfd
  /\ pos \in [Lfd -> 0 .. FileLen]

RpcTypes ==
  /\ req \in [Lfd -> S!RpcIn]
  /\ rsp \in [Lfd -> S!RpcOut]
  /\ closeq \in SUBSET Fd
  /\ opens \in Nat
  /\ remote \in [Fd -> FileType]

BaseTypes == MapTypes /\ MercuryTypes /\ CallTypes /\ RpcTypes

-----------------------------------------------------------------------------
(* Which thread is in which call, and where the message of that call is.   *)

OpeningPc == {"track", "inserting", "tracked", "init", "register",
              "forward_open"}

\* What a thread is doing, and what it has established so far.
ThreadInv(t) ==
  LET pc == thr[t].pc  op == thr[t].op  f == thr[t].fd
  IN  /\ pc = "idle" <=> f = None
      /\ pc = "idle" <=> op = "none"
      /\ pc \in OpeningPc => op = "open"
      /\ pc \in {"forward_read", "local"} => op = "read"
      /\ pc \in {"untrack", "close"} => op = "close"
      /\ pc \in {"wait", "return"} => op \in {"open", "read"}
      /\ pc \notin {"wait", "local", "return"} => ~thr[t].done
      /\ pc = "inserting" => lfile[f].path \in Path
      /\ pc \in {"tracked", "init", "register", "forward_open"}
           => fd_map[f] \in Path
      /\ pc = "wait" /\ op = "open" => fd_map[f] \in Path
      /\ pc = "wait" /\ op = "read" => fd_redir_map[f] # 0
      \* a waiter that has not been signalled has a callback to come
      /\ pc = "wait" /\ ~thr[t].done => handle[f].thread = t

\* A descriptor is used by one call at a time.
OneCall ==
  \A t, u \in Thread : thr[t].fd = thr[u].fd /\ thr[t].fd # None => t = u

\* The RPC of a waiting thread.
CallOf(t) ==
  IF thr[t].op = "open" THEN S!OpenReq(fd_map[thr[t].fd])
  ELSE S!ReadReq(fd_redir_map[thr[t].fd], thr[t].off)

NoCallOn(f) ==
  handle[f] = NoHandle /\ req[f] = NoCall /\ rsp[f] = NoRsp /\ cb[f] = NoRsp

Sent(f, t) ==
  /\ handle[f].call = CallOf(t) /\ req[f] = CallOf(t)
  /\ rsp[f] = NoRsp /\ cb[f] = NoRsp

Answered(f, t) ==
  /\ handle[f].call = CallOf(t) /\ req[f] = NoCall
  /\ rsp[f].op = thr[t].op /\ cb[f] = NoRsp

CalledBack(f, t) ==
  /\ handle[f].call = NoCall /\ req[f] = NoCall
  /\ rsp[f] = NoRsp /\ cb[f].op = thr[t].op

\* The message of a call is in one place: on its way to the server, on its
\* way back, or in the hands of the callback; and the thread the callback
\* will signal waits for it.
CallInv(f) ==
  \/ NoCallOn(f)
  \/ \E t \in Thread :
       /\ handle[f].thread = t
       /\ thr[t].pc = "wait" /\ thr[t].fd = f /\ ~thr[t].done
       /\ Sent(f, t) \/ Answered(f, t) \/ CalledBack(f, t)

\* An open answers with a descriptor or with -1, a read with what it read.
AnswerInv(f) ==
  /\ rsp[f].op = "open" => rsp[f].ret \in Fd \cup {-1}
  /\ rsp[f].op = "read" => rsp[f].ret \in {0, 1}

CallsInv ==
  /\ \A t \in Thread : ThreadInv(t)
  /\ OneCall
  /\ \A f \in Lfd : CallInv(f) /\ AnswerInv(f)

-----------------------------------------------------------------------------
(* Who holds which descriptor of the server.                               *)

Live(d) == d \in Fd /\ remote[d].path \in Path /\ d \notin closeq

\* The descriptor of an answer to an open that its caller has not seen.
Got(f) == IF rsp[f].op = "open" /\ rsp[f].ret > 0 THEN rsp[f].ret ELSE 0

RemoteInv ==
  /\ \A f \in Lfd : fd_redir_map[f] # 0 => Live(fd_redir_map[f])
  /\ \A f \in Lfd : Got(f) # 0 => /\ Live(Got(f))
                                  /\ remote[Got(f)].path = fd_map[f]
                                  /\ remote[Got(f)].off = 0
  /\ \A f, g \in Lfd : f # g /\ fd_redir_map[f] # 0
                         => fd_redir_map[f] # fd_redir_map[g]
  /\ \A f, g \in Lfd : Got(f) # 0 => Got(f) # fd_redir_map[g]
  /\ \A f, g \in Lfd : f # g /\ Got(f) # 0 => Got(f) # Got(g)
  /\ \A d \in closeq : remote[d].path # NoPath
  /\ \A f \in Lfd : fd_redir_map[f] # 0
                      => remote[fd_redir_map[f]].off >= Unseen(f)

OpensInv == IsFiniteSet(Opening) /\ opens + Cardinality(Opening) <= MaxOpens

-----------------------------------------------------------------------------
(* When no lookup races and no fclose() goes behind the library's back,    *)
(* the tracking maps agree with the kernel's table.                        *)

Tidy == "race" \notin Faults /\ "fclose" \notin Bypass

MapsAgree(f) ==
  /\ fd_map[f] # NoPath => lfile[f].path = fd_map[f]
  /\ fd_map[f] = NoPath => fd_redir_map[f] = 0 /\ fd_state_map[f] = "none"
  /\ fd_redir_map[f] # 0 => /\ remote[fd_redir_map[f]].path = fd_map[f]
                            /\ fd_state_map[f] = "ready"

TidyThread(t) ==
  LET pc == thr[t].pc  f == thr[t].fd
  IN  /\ pc \in {"track", "inserting", "close"} => fd_map[f] = NoPath
      /\ pc \in OpeningPc => fd_redir_map[f] = 0
      /\ pc = "wait" /\ thr[t].op = "open" /\ ~thr[t].done /\ cb[f] = NoRsp
           => fd_redir_map[f] = 0

TidyInv == /\ \A f \in Lfd : MapsAgree(f)
           /\ \A t \in Thread : TidyThread(t)

-----------------------------------------------------------------------------
(* Without faults and bypasses, where the next read() of f reads.          *)

Exact == Faults = {} /\ Bypass = {}

\* The offset the next read() of f uses: the server's or the kernel's.
RealOff(f) == IF fd_redir_map[f] # 0 THEN remote[fd_redir_map[f]].off
              ELSE lfile[f].off

\* The answer to the read of thread t, wherever it is.
Reply(t) ==
  IF thr[t].pc = "return" \/ thr[t].done THEN thr[t].out
  ELSE IF cb[thr[t].fd] # NoRsp THEN cb[thr[t].fd]
  ELSE rsp[thr[t].fd]

Reading(t) == thr[t].op = "read" /\ thr[t].pc \in {"wait", "return"}

\* What a read has taken from the file that the application has not seen.
Moved(t) == IF Reading(t) /\ thr[t].off = -1 THEN Reply(t).ret ELSE 0

ReadInv(t) ==
  LET pc == thr[t].pc  f == thr[t].fd
  IN  /\ thr[t].op \in {"open", "read"} => RealOff(f) = pos[f] + Moved(t)
      /\ thr[t].op = "open" => pos[f] = 0 /\ lfile[f].off = 0
      /\ thr[t].op = "close" => f \notin app
      /\ pc = "local" => fd_redir_map[f] = 0
      /\ Reading(t) => Reply(t) \in {NoRsp, Expected(t)}
      /\ Reading(t) /\ (pc = "return" \/ thr[t].done) => Reply(t) # NoRsp

ReadsInv ==
  /\ \A t \in Thread : ReadInv(t)
  /\ \A f \in Lfd : Unused(f) => RealOff(f) = pos[f]

-----------------------------------------------------------------------------
(* Messages.                                                               *)

LEMMA Messages ==
  /\ NoCall \in S!RpcIn /\ NoCall.op = "none"
  /\ NoRsp \in S!RpcOut /\ NoRsp.op = "none" /\ NoRsp.ret = 0
  /\ \A p \in Path \cup {NoPath} :
       /\ S!OpenReq(p) \in S!RpcIn
       /\ S!OpenReq(p).op = "open" /\ S!OpenReq(p).path = p
  /\ \A d \in Fd \cup {0}, o \in -1 .. FileLen :
       /\ S!ReadReq(d, o) \in S!RpcIn
       /\ S!ReadReq(d, o).op = "read" /\ S!ReadReq(d, o).fd = d
       /\ S!ReadReq(d, o).off = o
<1>1. FileLen \in Nat /\ 0 \in 0 .. FileLen /\ -1 \in -1 .. FileLen
      /\ -1 .. FileLen = (0 .. FileLen) \cup {-1}
  BY ClientConstants
<1>2. S!NoData \in S!Data
  BY <1>1 DEF S!NoData, S!Data, S!Paths0, S!Offset
<1> QED
  BY <1>1, <1>2 DEF NoCall, NoRsp, S!NoReq, S!NoRsp, S!RpcIn, S!RpcOut, S!RpcOp,
     S!Paths0, S!Offset, S!Sequential, S!OpenReq, S!ReadReq

\* An answer to an open.
LEMMA OpenAnswer ==
  ASSUME NEW d \in Int
  PROVE  LET r == S!Rsp("open", d, S!NoData)
         IN  /\ r \in S!RpcOut /\ r.op = "open" /\ r.ret = d /\ r # NoRsp
<1>1. S!NoData \in S!Data
  BY ClientConstants DEF S!NoData, S!Data, S!Paths0, S!Offset
<1> QED
  BY <1>1 DEF S!Rsp, S!RpcOut, S!RpcOp, NoRsp, S!NoRsp

\* What a read of a file returns: one block, or end of file.
LEMMA BlockAnswer ==
  ASSUME NEW p \in Path \cup {NoPath}, NEW o \in 0 .. FileLen
  PROVE  LET r == S!BlockOf(p, o)
         IN  /\ r \in S!RpcOut /\ r.op = "read" /\ r # NoRsp
             /\ r.ret = IF o < FileLen THEN 1 ELSE 0
             /\ r.ret \in {0, 1} /\ o + r.ret \in 0 .. FileLen
<1>1. S!NoData \in S!Data /\ [src |-> p, blk |-> o] \in S!Data
  BY ClientConstants DEF S!NoData, S!Data, S!Paths0, S!Offset
<1>2. FileLen \in Nat /\ o \in Int /\ 0 <= o /\ o <= FileLen
  BY ClientConstants
<1>3. CASE o < FileLen
  BY <1>1, <1>2, <1>3 DEF S!BlockOf, S!Rsp, S!RpcOut, S!RpcOp, NoRsp, S!NoRsp
<1>4. CASE ~(o < FileLen)
  BY <1>1, <1>2, <1>4 DEF S!BlockOf, S!Rsp, S!RpcOut, S!RpcOp, NoRsp, S!NoRsp
<1> QED
  BY <1>3, <1>4

-----------------------------------------------------------------------------
(* How steps preserve CallsInv.                                            *)

\* A step of a thread that no callback is about to signal disturbs no call
\* of another thread.
LEMMA ThreadMoves ==
  ASSUME BaseTypes, CallsInv, NEW t \in Thread, NEW r \in ThreadType,
         thr' = [thr EXCEPT ![t] = r],
         ~(thr[t].pc = "wait" /\ ~thr[t].done),
         UNCHANGED <<handle, cb, req, rsp>>,
         \A f \in Lfd \ {thr[t].fd} : /\ fd_map'[f] = fd_map[f]
                                      /\ fd_redir_map'[f] = fd_redir_map[f],
         \A u \in Thread \ {t} : thr[u].fd # None
            => /\ lfile'[thr[u].fd].path = lfile[thr[u].fd].path
               /\ thr[u].fd # r.fd,
         ThreadInv(t)'
  PROVE  CallsInv'
<1>1. /\ thr \in [Thread -> ThreadType] /\ thr' \in [Thread -> ThreadType]
      /\ thr'[t] = r /\ \A u \in Thread : u # t => thr'[u] = thr[u]
      /\ \A u \in Thread : thr[u].fd \in Lfd \cup {None}
  BY DEF BaseTypes, CallTypes, ThreadType
<1>2. ASSUME NEW u \in Thread, u # t PROVE ThreadInv(u)'
  <2>1. ThreadInv(u) /\ thr'[u] = thr[u] /\ handle' = handle
    BY <1>1, <1>2 DEF CallsInv
  <2>2. CASE thr[u].fd = None
    BY <2>1, <2>2 DEF ThreadInv, OpeningPc
  <2>3. CASE thr[u].fd # None
    <3>1. thr[u].fd \in Lfd \ {thr[t].fd}
      BY <1>1, <1>2, <2>3 DEF CallsInv, OneCall
    <3>2. /\ fd_map'[thr[u].fd] = fd_map[thr[u].fd]
          /\ fd_redir_map'[thr[u].fd] = fd_redir_map[thr[u].fd]
          /\ lfile'[thr[u].fd].path = lfile[thr[u].fd].path
      BY <1>2, <2>3, <3>1
    <3> QED
      BY <2>1, <3>2 DEF ThreadInv, OpeningPc
  <2> QED
    BY <2>2, <2>3
<1>3. OneCall'
  BY <1>1 DEF CallsInv, OneCall
<1>4. ASSUME NEW f \in Lfd PROVE CallInv(f)' /\ AnswerInv(f)'
  <2>1. CallInv(f) /\ AnswerInv(f)
    BY DEF CallsInv
  <2>2. CASE NoCallOn(f)
    BY <2>1, <2>2 DEF CallInv, NoCallOn, AnswerInv
  <2>3. ASSUME NEW u \in Thread, handle[f].thread = u, thr[u].pc = "wait",
               thr[u].fd = f, ~thr[u].done,
               Sent(f, u) \/ Answered(f, u) \/ CalledBack(f, u)
        PROVE  CallInv(f)'
    <3>1. u # t /\ thr'[u] = thr[u]
      BY <1>1, <2>3
    <3>2. f # thr[t].fd
      BY <1>1, <2>3, <3>1, ClientConstants DEF CallsInv, OneCall
    <3>3. CallOf(u)' = CallOf(u)
      BY <2>3, <3>1, <3>2 DEF CallOf
    <3>4. (Sent(f, u) \/ Answered(f, u) \/ CalledBack(f, u))'
      BY <2>3, <3>1, <3>3 DEF Sent, Answered, CalledBack
    <3> QED
      BY <2>3, <3>1, <3>4 DEF CallInv
  <2> QED
    BY <2>1, <2>2, <2>3 DEF CallInv, AnswerInv
<1> QED
  BY <1>2, <1>3, <1>4 DEF CallsInv

\* Where a thread goes with Goto and Finish.
LEMMA Goes ==
  ASSUME BaseTypes, NEW t \in Thread, NEW pc \in Pc, NEW out \in S!RpcOut,
         \/ Goto(t, pc) /\ out = thr[t].out
         \/ thr' = [thr EXCEPT ![t].pc = pc, ![t].out = out]
  PROVE  /\ thr' = [thr EXCEPT ![t] = thr'[t]] /\ thr'[t] \in ThreadType
         /\ thr'[t].pc = pc /\ thr'[t].op = thr[t].op /\ thr'[t].fd = thr[t].fd
         /\ thr'[t].off = thr[t].off /\ thr'[t].done = thr[t].done
         /\ thr'[t].out = out
<1>1. thr \in [Thread -> ThreadType]
  BY DEF BaseTypes, CallTypes
<1> DEFINE r == [thr[t] EXCEPT !.pc = pc, !.out = out]
<1>2. thr[t] \in ThreadType
  BY <1>1
<1>3. /\ r \in ThreadType /\ r.pc = pc /\ r.op = thr[t].op /\ r.fd = thr[t].fd
      /\ r.off = thr[t].off /\ r.done = thr[t].done /\ r.out = out
  BY <1>2 DEF ThreadType
<1>4. thr' = [thr EXCEPT ![t] = r]
  <2>1. CASE Goto(t, pc) /\ out = thr[t].out
    <3>1. [thr[t] EXCEPT !.pc = pc] = r
      BY <1>2, <2>1 DEF ThreadType
    <3> QED
      BY <2>1, <3>1 DEF Goto
  <2> QED
    BY <2>1
<1>5. thr'[t] = r
  BY <1>1, <1>4
<1> QED
  BY <1>3, <1>4, <1>5 DEF ForwardFails, Goto, rpcVars

\* The same for a thread that only goes on.
LEMMA GoesOn ==
  ASSUME BaseTypes, NEW t \in Thread, NEW pc \in Pc, Goto(t, pc)
  PROVE  /\ thr' = [thr EXCEPT ![t] = thr'[t]] /\ thr'[t] \in ThreadType
         /\ thr'[t].pc = pc /\ thr'[t].op = thr[t].op /\ thr'[t].fd = thr[t].fd
         /\ thr'[t].off = thr[t].off /\ thr'[t].done = thr[t].done
         /\ thr'[t].out = thr[t].out
<1>1. thr \in [Thread -> ThreadType] /\ thr[t] \in ThreadType
  BY DEF BaseTypes, CallTypes
<1> DEFINE r == [thr[t] EXCEPT !.pc = pc]
<1>2. /\ r \in ThreadType /\ r.pc = pc /\ r.op = thr[t].op /\ r.fd = thr[t].fd
      /\ r.off = thr[t].off /\ r.done = thr[t].done /\ r.out = thr[t].out
  BY <1>1 DEF ThreadType
<1>3. thr' = [thr EXCEPT ![t] = r] /\ thr'[t] = r
  BY <1>1 DEF Goto
<1> QED
  BY <1>2, <1>3

\* Such a step keeps CallsInv if it keeps the thread's own invariant.
LEMMA GoesKeepsCalls ==
  ASSUME BaseTypes, CallsInv, NEW t \in Thread, NEW pc \in Pc,
         NEW out \in S!RpcOut,
         \/ Goto(t, pc) /\ out = thr[t].out
         \/ thr' = [thr EXCEPT ![t].pc = pc, ![t].out = out],
         ~(thr[t].pc = "wait" /\ ~thr[t].done), thr[t].pc # "idle",
         UNCHANGED <<handle, cb, req, rsp>>,
         \A f \in Lfd : lfile'[f].path = lfile[f].path,
         \A f \in Lfd \ {thr[t].fd} : /\ fd_map'[f] = fd_map[f]
                                      /\ fd_redir_map'[f] = fd_redir_map[f],
         ThreadInv(t)'
  PROVE  CallsInv'
<1>1. /\ thr' = [thr EXCEPT ![t] = thr'[t]] /\ thr'[t] \in ThreadType
      /\ thr'[t].fd = thr[t].fd
  BY Goes
<1>2. thr[t].fd # None /\ \A u \in Thread : thr[u].fd \in Lfd \cup {None}
  BY DEF CallsInv, ThreadInv, BaseTypes, CallTypes, ThreadType
<1>3. \A u \in Thread \ {t} : thr[u].fd # None
            => /\ lfile'[thr[u].fd].path = lfile[thr[u].fd].path
               /\ thr[u].fd # thr'[t].fd
  BY <1>1, <1>2 DEF CallsInv, OneCall
<1> QED
  BY <1>1, <1>3, ThreadMoves

\* The same for a step that changes only the thread, and perhaps Mercury.
LEMMA QuietStep ==
  ASSUME BaseTypes, CallsInv, NEW t \in Thread, NEW pc \in Pc,
         NEW out \in S!RpcOut,
         \/ Goto(t, pc) /\ out = thr[t].out
         \/ thr' = [thr EXCEPT ![t].pc = pc, ![t].out = out],
         ~(thr[t].pc = "wait" /\ ~thr[t].done), thr[t].pc # "idle",
         UNCHANGED <<lfile, mapVars, callVars, appVars, rpcVars, remote>>,
         MercuryTypes', ThreadInv(t)'
  PROVE  BaseTypes' /\ CallsInv'
<1>1. thr' \in [Thread -> ThreadType]
  BY Goes DEF BaseTypes, CallTypes
<1>2. BaseTypes'
  BY <1>1 DEF BaseTypes, mapVars, callVars, appVars, rpcVars, MapTypes,
     CallTypes, RpcTypes
<1>3. CallsInv'
  BY GoesKeepsCalls DEF mapVars, callVars, rpcVars
<1> QED
  BY <1>2, <1>3

\* A thread that is in a call has a descriptor, and a record of its own.
LEMMA InCall ==
  ASSUME BaseTypes, CallsInv, NEW t \in Thread, thr[t].pc # "idle"
  PROVE  /\ ThreadInv(t) /\ thr[t] \in ThreadType /\ thr[t].fd \in Lfd
         /\ thr[t].out \in S!RpcOut /\ thr[t].off \in -1 .. FileLen
BY DEF CallsInv, ThreadInv, BaseTypes, CallTypes, ThreadType

LEMMA hvac_track_fileCalls ==
  ASSUME BaseTypes, CallsInv, NEW t \in Thread, hvac_track_file(t)
  PROVE  BaseTypes' /\ CallsInv'
<1>1. ThreadInv(t) /\ thr[t].pc = "track" /\ thr[t].out \in S!RpcOut
  BY InCall DEF hvac_track_file, At
<1>2. PICK pc \in Pc, out \in S!RpcOut :
        /\ \/ pc = "inserting" /\ lfile[thr[t].fd].path \in DataDir
           \/ pc = "return"
        /\ \/ Goto(t, pc) /\ out = thr[t].out
           \/ thr' = [thr EXCEPT ![t].pc = pc, ![t].out = out]
  BY <1>1, Messages DEF hvac_track_file, Finish, Pc
<1>3. ThreadInv(t)'
  BY <1>1, <1>2, Goes, ClientConstants
     DEF ThreadInv, OpeningPc, hvac_track_file, mapVars
<1> QED
  BY <1>1, <1>2, <1>3, QuietStep
     DEF hvac_track_file, BaseTypes, MercuryTypes, mercuryVars

LEMMA CheckMercuryCalls ==
  ASSUME BaseTypes, CallsInv, NEW t \in Thread, CheckMercury(t)
  PROVE  BaseTypes' /\ CallsInv'
<1>1. ThreadInv(t) /\ thr[t].pc = "tracked" /\ thr[t].out \in S!RpcOut
  BY InCall DEF CheckMercury, At
<1>2. PICK pc \in {"forward_open", "init"} : pc \in Pc /\ Goto(t, pc)
  BY DEF CheckMercury, Pc
<1>3. ThreadInv(t)'
  BY <1>1, <1>2, Goes DEF ThreadInv, OpeningPc, CheckMercury, mapVars
<1> QED
  BY <1>1, <1>2, <1>3, QuietStep
     DEF CheckMercury, BaseTypes, MercuryTypes, mercuryVars

LEMMA hvac_init_commCalls ==
  ASSUME BaseTypes, CallsInv, NEW t \in Thread, hvac_init_comm(t)
  PROVE  BaseTypes' /\ CallsInv'
<1>1. ThreadInv(t) /\ thr[t].pc = "init" /\ thr[t].out \in S!RpcOut
  BY InCall DEF hvac_init_comm, At
<1>2. "register" \in Pc /\ Goto(t, "register")
  BY DEF hvac_init_comm, Pc
<1>3. ThreadInv(t)'
  BY <1>1, <1>2, Goes DEF ThreadInv, OpeningPc, hvac_init_comm, mapVars
<1>4. MercuryTypes'
  BY DEF hvac_init_comm, BaseTypes, MercuryTypes
<1> QED
  BY <1>1, <1>2, <1>3, <1>4, QuietStep DEF hvac_init_comm

LEMMA hvac_client_comm_register_rpcCalls ==
  ASSUME BaseTypes, CallsInv, NEW t \in Thread, hvac_client_comm_register_rpc(t)
  PROVE  BaseTypes' /\ CallsInv'
<1>1. ThreadInv(t) /\ thr[t].pc = "register" /\ thr[t].out \in S!RpcOut
  BY InCall DEF hvac_client_comm_register_rpc, At
<1>2. "forward_open" \in Pc /\ Goto(t, "forward_open")
  BY DEF hvac_client_comm_register_rpc, Pc
<1>3. ThreadInv(t)'
  BY <1>1, <1>2, Goes
     DEF ThreadInv, OpeningPc, hvac_client_comm_register_rpc, mapVars
<1>4. MercuryTypes'
  BY DEF hvac_client_comm_register_rpc, BaseTypes, MercuryTypes
<1> QED
  BY <1>1, <1>2, <1>3, <1>4, QuietStep DEF hvac_client_comm_register_rpc

LEMMA hvac_wait_for_operationCalls ==
  ASSUME BaseTypes, CallsInv, NEW t \in Thread, hvac_wait_for_operation(t)
  PROVE  BaseTypes' /\ CallsInv'
<1>1. /\ ThreadInv(t) /\ thr[t].pc = "wait" /\ thr[t].done
      /\ thr[t].out \in S!RpcOut
  BY InCall DEF hvac_wait_for_operation, At
<1>2. PICK pc \in Pc : /\ Goto(t, pc) /\ pc \in {"local", "return"}
                       /\ pc = "local" => thr[t].op = "read"
  BY DEF hvac_wait_for_operation, Pc
<1>3. ThreadInv(t)'
  BY <1>1, <1>2, Goes DEF ThreadInv, OpeningPc, hvac_wait_for_operation, mapVars
<1> QED
  BY <1>1, <1>2, <1>3, QuietStep
     DEF hvac_wait_for_operation, BaseTypes, MercuryTypes, mercuryVars

\* fd_map[fd] = path, on the descriptor of the thread alone.
LEMMA FdMapInsertedCalls ==
  ASSUME BaseTypes, CallsInv, NEW t \in Thread, FdMapInserted(t)
  PROVE  BaseTypes' /\ CallsInv'
<1>1. /\ ThreadInv(t) /\ thr[t].pc = "inserting" /\ thr[t].out \in S!RpcOut
      /\ thr[t].fd \in Lfd
  BY InCall DEF FdMapInserted, At
<1>2. "tracked" \in Pc /\ Goto(t, "tracked")
  BY DEF FdMapInserted, Pc
<1>3. /\ lfile[thr[t].fd].path \in Path
      /\ fd_map' = [fd_map EXCEPT ![thr[t].fd] = lfile[thr[t].fd].path]
      /\ fd_map \in [Lfd -> Path \cup {NoPath}]
  BY <1>1 DEF ThreadInv, FdMapInserted, BaseTypes, MapTypes
<1>4. ThreadInv(t)'
  <2>1. /\ thr'[t].pc = "tracked" /\ thr'[t].op = thr[t].op
        /\ thr'[t].fd = thr[t].fd /\ thr'[t].done = thr[t].done
    BY <1>1, <1>2, GoesOn
  <2>2. fd_map'[thr[t].fd] \in Path
    BY <1>1, <1>3
  <2> QED
    BY <1>1, <2>1, <2>2 DEF ThreadInv, OpeningPc
<1>5. thr' \in [Thread -> ThreadType] /\ fd_map' \in [Lfd -> Path \cup {NoPath}]
  <2>1. thr' = [thr EXCEPT ![t] = thr'[t]] /\ thr'[t] \in ThreadType
    BY <1>1, <1>2, GoesOn
  <2>2. thr \in [Thread -> ThreadType]
    BY DEF BaseTypes, CallTypes
  <2>3. thr' \in [Thread -> ThreadType]
    BY <2>1, <2>2
  <2> QED
    BY <1>1, <1>3, <2>3
<1>6. BaseTypes'
  BY <1>5 DEF BaseTypes, FdMapInserted, MapTypes, MercuryTypes, mercuryVars,
     callVars, appVars, rpcVars, CallTypes, RpcTypes
<1>7. CallsInv'
  BY <1>1, <1>2, <1>3, <1>4, GoesKeepsCalls DEF FdMapInserted, callVars, rpcVars
<1> QED
  BY <1>6, <1>7

\* __real_read moves the kernel's offset and no path.
LEMMA LocalReadCalls ==
  ASSUME BaseTypes, CallsInv, NEW t \in Thread, LocalRead(t)
  PROVE  /\ BaseTypes' /\ CallsInv'
         /\ \A f \in Lfd : lfile'[f].path = lfile[f].path
<1> DEFINE f == thr[t].fd
           o == IF thr[t].off = -1 THEN lfile[f].off ELSE thr[t].off
           r == S!BlockOf(lfile[f].path, o)
<1>1. /\ ThreadInv(t) /\ thr[t].pc = "local" /\ f \in Lfd
      /\ thr[t].off \in -1 .. FileLen
  BY InCall DEF LocalRead, At
<1>2. /\ lfile \in [Lfd -> FileType] /\ lfile[f] \in FileType
      /\ lfile[f].path \in Path \cup {NoPath} /\ lfile[f].off \in 0 .. FileLen
  BY <1>1 DEF BaseTypes, MapTypes, FileType
<1>3. o \in 0 .. FileLen
  BY <1>1, <1>2, ClientConstants
<1>4. r \in S!RpcOut /\ o + r.ret \in 0 .. FileLen
  BY <1>2, <1>3, BlockAnswer
<1>5. /\ thr' = [thr EXCEPT ![t].pc = "return", ![t].out = r] /\ "return" \in Pc
      /\ lfile' = IF thr[t].off = -1
                  THEN [lfile EXCEPT ![f].off = @ + r.ret] ELSE lfile
  BY DEF LocalRead, Finish, Pc
<1> HIDE DEF r
<1>6. ThreadInv(t)'
  <2>1. /\ thr'[t].pc = "return" /\ thr'[t].op = "read"
        /\ thr'[t].fd = thr[t].fd
    BY <1>1, <1>4, <1>5, Goes DEF ThreadInv
  <2> QED
    BY <1>1, <2>1 DEF ThreadInv, OpeningPc
<1>7. CASE thr[t].off # -1
  <2>1. lfile' = lfile
    BY <1>5, <1>7
  <2> QED
    BY <1>1, <1>4, <1>5, <1>6, <2>1, QuietStep
       DEF LocalRead, BaseTypes, MercuryTypes, mercuryVars
<1>8. CASE thr[t].off = -1
  <2> DEFINE n == lfile[f].off + r.ret
  <2>1. n \in 0 .. FileLen /\ lfile' = [lfile EXCEPT ![f].off = n]
    BY <1>4, <1>5, <1>8
  <2> HIDE DEF n
  <2>2. lfile' \in [Lfd -> FileType] /\ \A g \in Lfd : lfile'[g].path = lfile[g].path
    BY <1>1, <1>2, <2>1 DEF FileType
  <2>3. thr' \in [Thread -> ThreadType]
    BY <1>4, <1>5, Goes DEF BaseTypes, CallTypes
  <2>4. BaseTypes'
    BY <2>2, <2>3 DEF BaseTypes, LocalRead, MapTypes, MercuryTypes, mapVars,
       mercuryVars, callVars, appVars, rpcVars, CallTypes, RpcTypes
  <2>5. CallsInv'
    BY <1>1, <1>4, <1>5, <1>6, <2>2, GoesKeepsCalls
       DEF LocalRead, mapVars, callVars, rpcVars
  <2> QED
    BY <2>2, <2>4, <2>5
<1> QED
  BY <1>7, <1>8

\* A thread starts a call: open, read or close.
LEMMA BeginKeepsCalls ==
  ASSUME BaseTypes, CallsInv, NEW t \in Thread, NEW f \in Lfd,
         NEW o \in -1 .. FileLen,
         NEW pc \in {"track", "forward_read", "local", "untrack", "close"},
         NEW op \in {"open", "read", "close"},
         pc = "track" <=> op = "open", pc \in {"untrack", "close"} <=> op = "close",
         Begin(t, pc, op, f, o),
         \A g \in Lfd \ {f} : lfile'[g] = lfile[g],
         UNCHANGED <<mapVars, handle, cb, rpcVars>>
  PROVE  /\ CallsInv' /\ thr' \in [Thread -> ThreadType]
         /\ thr'[t] = [Idle EXCEPT !.pc = pc, !.op = op, !.fd = f, !.off = o]
<1> DEFINE r == [Idle EXCEPT !.pc = pc, !.op = op, !.fd = f, !.off = o]
<1>1. /\ r \in ThreadType /\ r.pc = pc /\ r.op = op /\ r.fd = f
      /\ ~r.done
  BY Messages DEF ThreadType, Idle, Pc
<1>2. /\ thr' = [thr EXCEPT ![t] = r] /\ thr \in [Thread -> ThreadType]
      /\ thr[t].pc = "idle" /\ \A u \in Thread : thr[u].fd # f
      /\ \A u \in Thread : thr[u].fd \in Lfd \cup {None}
  BY DEF Begin, At, BaseTypes, CallTypes, ThreadType
<1> HIDE DEF r
<1>3. thr'[t] = r
  BY <1>2
<1>4. ThreadInv(t)'
  BY <1>1, <1>3, ClientConstants DEF ThreadInv, OpeningPc
<1>5. CallsInv'
  BY <1>1, <1>2, <1>4, ThreadMoves DEF mapVars, rpcVars
<1> QED
  BY <1>1, <1>2, <1>3, <1>5 DEF r

LEMMA openCalls ==
  ASSUME BaseTypes, CallsInv, NEW t \in Thread, NEW p \in Path, open(t, p)
  PROVE  BaseTypes' /\ CallsInv'
<1>1. PICK f \in Lfd :
        /\ Begin(t, "track", "open", f, 0)
        /\ lfile' = [lfile EXCEPT ![f] = [path |-> p, off |-> 0]]
        /\ pos' = [pos EXCEPT ![f] = 0]
  BY DEF open
<1>2. 0 \in 0 .. FileLen /\ 0 \in -1 .. FileLen
  BY ClientConstants
<1>3. /\ lfile \in [Lfd -> FileType] /\ pos \in [Lfd -> 0 .. FileLen]
      /\ [path |-> p, off |-> 0] \in FileType
  BY <1>2 DEF BaseTypes, MapTypes, CallTypes, FileType
<1>4. lfile' \in [Lfd -> FileType] /\ pos' \in [Lfd -> 0 .. FileLen]
  BY <1>1, <1>2, <1>3
<1>5. CallsInv' /\ thr' \in [Thread -> ThreadType]
  BY <1>1, <1>2, <1>3, BeginKeepsCalls DEF open, callVars
<1> QED
  BY <1>4, <1>5 DEF BaseTypes, open, MapTypes, MercuryTypes, mapVars, mercuryVars,
     callVars, rpcVars, CallTypes, RpcTypes

LEMMA readCalls ==
  ASSUME BaseTypes, CallsInv, NEW t \in Thread, NEW f \in Lfd,
         NEW o \in -1 .. FileLen, read(t, f, o)
  PROVE  BaseTypes' /\ CallsInv'
<1>1. PICK pc \in {"forward_read", "local"} : Begin(t, pc, "read", f, o)
  BY DEF read
<1>2. CallsInv' /\ thr' \in [Thread -> ThreadType]
  BY <1>1, BeginKeepsCalls DEF read, callVars
<1> QED
  BY <1>2 DEF BaseTypes, read, MapTypes, MercuryTypes, mapVars, mercuryVars,
     callVars, appVars, rpcVars, CallTypes, RpcTypes

LEMMA closeCalls ==
  ASSUME BaseTypes, CallsInv, NEW t \in Thread, NEW f \in Lfd, close(t, f)
  PROVE  BaseTypes' /\ CallsInv'
<1>1. PICK pc \in {"untrack", "close"} : Begin(t, pc, "close", f, 0)
  BY DEF close
<1>2. 0 \in -1 .. FileLen
  BY ClientConstants
<1>3. CallsInv' /\ thr' \in [Thread -> ThreadType]
  BY <1>1, <1>2, BeginKeepsCalls DEF close, callVars
<1> QED
  BY <1>3 DEF BaseTypes, close, MapTypes, MercuryTypes, mapVars, mercuryVars,
     callVars, rpcVars, CallTypes, RpcTypes

\* A call ends.
LEMMA EndKeepsCalls ==
  ASSUME BaseTypes, CallsInv, NEW t \in Thread, thr' = [thr EXCEPT ![t] = Idle],
         thr[t].pc \in {"return", "close"},
         \A f \in Lfd \ {thr[t].fd} : lfile'[f] = lfile[f],
         UNCHANGED <<mapVars, handle, cb, rpcVars>>
  PROVE  CallsInv' /\ thr' \in [Thread -> ThreadType] /\ thr'[t] = Idle
<1>1. /\ Idle \in ThreadType /\ Idle.pc = "idle" /\ Idle.op = "none"
      /\ Idle.fd = None /\ ~Idle.done
  BY Messages, ClientConstants DEF ThreadType, Idle, Pc
<1>2. /\ thr \in [Thread -> ThreadType] /\ thr'[t] = Idle
      /\ \A u \in Thread : thr[u].fd \in Lfd \cup {None}
  BY DEF BaseTypes, CallTypes, ThreadType
<1>3. ThreadInv(t)'
  BY <1>1, <1>2 DEF ThreadInv, OpeningPc
<1>4. \A u \in Thread \ {t} : thr[u].fd # None
         => lfile'[thr[u].fd].path = lfile[thr[u].fd].path /\ thr[u].fd # Idle.fd
  BY <1>1, <1>2 DEF CallsInv, OneCall
<1> QED
  BY <1>1, <1>2, <1>3, <1>4, ThreadMoves DEF mapVars, rpcVars

LEMMA ReturnCalls ==
  ASSUME BaseTypes, CallsInv, NEW t \in Thread, Return(t)
  PROVE  BaseTypes' /\ CallsInv'
<1>1. thr[t].pc = "return" /\ thr[t].fd \in Lfd
  BY InCall DEF Return, At
<1>2. CallsInv' /\ thr' \in [Thread -> ThreadType]
  BY <1>1, EndKeepsCalls DEF Return, callVars
<1>3. pos' \in [Lfd -> 0 .. FileLen]
  <2>1. pos \in [Lfd -> 0 .. FileLen] /\ FileLen \in Nat
    BY ClientConstants DEF BaseTypes, CallTypes
  <2>2. pos[thr[t].fd] < FileLen => pos[thr[t].fd] + 1 \in 0 .. FileLen
    BY <1>1, <2>1
  <2> QED
    BY <1>1, <2>1, <2>2 DEF Return
<1> QED
  BY <1>1, <1>2, <1>3 DEF BaseTypes, Return, MapTypes, MercuryTypes, mapVars,
     mercuryVars, callVars, rpcVars, CallTypes, RpcTypes

LEMMA RealCloseCalls ==
  ASSUME BaseTypes, CallsInv, NEW t \in Thread, RealClose(t)
  PROVE  BaseTypes' /\ CallsInv'
<1>1. thr[t].pc = "close" /\ thr[t].fd \in Lfd
  BY InCall DEF RealClose, At
<1>2. lfile \in [Lfd -> FileType] /\ Unlinked \in FileType
  BY ClientConstants DEF BaseTypes, MapTypes, FileType, Unlinked
<1>3. CallsInv' /\ thr' \in [Thread -> ThreadType]
  BY <1>1, <1>2, EndKeepsCalls DEF RealClose, callVars
<1>4. lfile' \in [Lfd -> FileType]
  BY <1>1, <1>2 DEF RealClose
<1> QED
  BY <1>3, <1>4 DEF BaseTypes, RealClose, MapTypes, MercuryTypes, mapVars,
     mercuryVars, callVars, appVars, rpcVars, CallTypes, RpcTypes

\* A step that moves no thread and leaves the descriptors in use alone.
LEMMA BypassKeepsCalls ==
  ASSUME BaseTypes, CallsInv,
         \A u \in Thread : thr[u].fd # None => lfile'[thr[u].fd] = lfile[thr[u].fd],
         UNCHANGED <<mapVars, thr, handle, cb, req, rsp>>
  PROVE  CallsInv'
<1>1. ASSUME NEW u \in Thread PROVE ThreadInv(u)'
  BY DEF CallsInv, ThreadInv, OpeningPc, mapVars
<1>2. OneCall'
  BY DEF CallsInv, OneCall
<1>3. ASSUME NEW f \in Lfd PROVE CallInv(f)' /\ AnswerInv(f)'
  <2>1. CallInv(f) /\ AnswerInv(f) /\ UNCHANGED <<thr, fd_map, fd_redir_map,
                                                  handle, cb, req, rsp>>
    BY DEF CallsInv, mapVars
  <2> QED
    BY <2>1 DEF CallInv, AnswerInv, NoCallOn, Sent, Answered, CalledBack, CallOf
<1> QED
  BY <1>1, <1>2, <1>3 DEF CallsInv

LEMMA AssertFailsCalls ==
  ASSUME BaseTypes, CallsInv, NEW t \in Thread, AssertFails(t)
  PROVE  BaseTypes' /\ CallsInv'
<1>1. CallsInv'
  BY BypassKeepsCalls DEF AssertFails, callVars, rpcVars
<1> QED
  BY <1>1 DEF BaseTypes, AssertFails, MapTypes, MercuryTypes, mapVars,
     mercuryVars, callVars, appVars, rpcVars, CallTypes, RpcTypes

LEMMA lseekCalls ==
  ASSUME BaseTypes, CallsInv, NEW f \in Lfd, NEW o \in 0 .. FileLen, lseek(f, o)
  PROVE  BaseTypes' /\ CallsInv'
<1>1. lfile \in [Lfd -> FileType] /\ pos \in [Lfd -> 0 .. FileLen]
  BY DEF BaseTypes, MapTypes, CallTypes
<1>2. \A u \in Thread : thr[u].fd # f /\ thr[u].fd \in Lfd \cup {None}
  BY DEF lseek, Unused, BaseTypes, CallTypes, ThreadType
<1>3. /\ lfile' \in [Lfd -> FileType] /\ pos' \in [Lfd -> 0 .. FileLen]
      /\ \A g \in Lfd : g # f => lfile'[g] = lfile[g]
  BY <1>1 DEF lseek, FileType
<1>4. CallsInv'
  BY <1>2, <1>3, BypassKeepsCalls DEF lseek, callVars, rpcVars
<1> QED
  BY <1>3, <1>4 DEF BaseTypes, lseek, MapTypes, MercuryTypes, mapVars,
     mercuryVars, callVars, rpcVars, CallTypes, RpcTypes

LEMMA fcloseCalls ==
  ASSUME BaseTypes, CallsInv, NEW f \in Lfd, fclose(f)
  PROVE  BaseTypes' /\ CallsInv'
<1>1. lfile \in [Lfd -> FileType] /\ Unlinked \in FileType
  BY ClientConstants DEF BaseTypes, MapTypes, FileType, Unlinked
<1>2. \A u \in Thread : thr[u].fd # f /\ thr[u].fd \in Lfd \cup {None}
  BY DEF fclose, Unused, BaseTypes, CallTypes, ThreadType
<1>3. /\ lfile' \in [Lfd -> FileType]
      /\ \A g \in Lfd : g # f => lfile'[g] = lfile[g]
  BY <1>1 DEF fclose
<1>4. CallsInv'
  BY <1>2, <1>3, BypassKeepsCalls DEF fclose, callVars, rpcVars
<1> QED
  BY <1>3, <1>4 DEF BaseTypes, fclose, MapTypes, MercuryTypes, mapVars,
     mercuryVars, callVars, rpcVars, CallTypes, RpcTypes

LEMMA hvac_remove_fdCalls ==
  ASSUME BaseTypes, CallsInv, NEW t \in Thread, hvac_remove_fd(t)
  PROVE  BaseTypes' /\ CallsInv'
<1>1. ThreadInv(t) /\ thr[t].pc = "untrack" /\ thr[t].out \in S!RpcOut
  BY InCall DEF hvac_remove_fd, At
<1>0. PICK f \in Lfd : f = thr[t].fd
  BY InCall DEF hvac_remove_fd, At
<1>2. "close" \in Pc /\ Goto(t, "close")
  BY DEF hvac_remove_fd, Pc
<1>3. /\ fd_map' = [fd_map EXCEPT ![f] = NoPath]
      /\ fd_redir_map' = [fd_redir_map EXCEPT ![f] = 0]
      /\ fd_state_map' = [fd_state_map EXCEPT ![f] = "none"]
      /\ closeq' = closeq \/ closeq' = closeq \cup ({fd_redir_map[f]} \ {0})
  BY <1>0 DEF hvac_remove_fd, hvac_client_comm_gen_close_rpc
<1>4. ThreadInv(t)'
  BY <1>1, <1>2, Goes DEF ThreadInv, OpeningPc
<1>5. thr' \in [Thread -> ThreadType]
  <2>1. thr' = [thr EXCEPT ![t] = thr'[t]] /\ thr'[t] \in ThreadType
    BY <1>1, <1>2, Goes
  <2> QED
    BY <2>1 DEF BaseTypes, CallTypes
<1>6. MapTypes' /\ closeq' \in SUBSET Fd
  BY <1>3 DEF BaseTypes, MapTypes, RpcTypes, hvac_remove_fd
<1>7. BaseTypes'
  BY <1>5, <1>6 DEF BaseTypes, hvac_remove_fd, MercuryTypes, mercuryVars,
     callVars, appVars, CallTypes, RpcTypes
<1>8. \A g \in Lfd \ {f} : fd_map'[g] = fd_map[g] /\ fd_redir_map'[g] = fd_redir_map[g]
  BY <1>3 DEF BaseTypes, MapTypes
<1>9. CallsInv'
  BY <1>1, <1>2, <1>4, <1>0, <1>8, GoesKeepsCalls DEF hvac_remove_fd, callVars
<1> QED
  BY <1>7, <1>9

\* A descriptor used by a thread that is not waiting has no call in flight.
LEMMA NotWaiting ==
  ASSUME CallsInv, BaseTypes, NEW t \in Thread, thr[t].pc # "idle",
         ~(thr[t].pc = "wait" /\ ~thr[t].done)
  PROVE  NoCallOn(thr[t].fd)
<1>1. thr[t].fd \in Lfd
  BY InCall
<1>2. CallInv(thr[t].fd)
  BY <1>1 DEF CallsInv
<1> QED
  BY <1>1, <1>2, ClientConstants DEF CallInv, CallsInv, OneCall

\* HG_Forward: the thread waits, and its call is on its way.
LEMMA ForwardKeepsCalls ==
  ASSUME BaseTypes, CallsInv, NEW t \in Thread, thr[t].pc # "idle",
         thr[t].pc # "wait", ~thr[t].done, thr[t].op \in {"open", "read"},
         Forward(t, CallOf(t)), UNCHANGED <<lfile, fd_map, fd_redir_map>>,
         thr[t].op = "open" => fd_map[thr[t].fd] \in Path,
         thr[t].op = "read" => fd_redir_map[thr[t].fd] # 0
  PROVE  CallsInv' /\ thr' \in [Thread -> ThreadType]
         /\ handle' \in [Lfd -> HandleType] /\ req' \in [Lfd -> S!RpcIn]
<1>0. PICK f \in Lfd : f = thr[t].fd
  BY InCall
<1>1. ThreadInv(t) /\ thr[t].out \in S!RpcOut /\ thr[t].off \in -1 .. FileLen
  BY InCall
<1>2. /\ req' = [req EXCEPT ![f] = CallOf(t)] /\ "wait" \in Pc
      /\ handle' = [handle EXCEPT ![f] = [call |-> CallOf(t), thread |-> t,
                                          class |-> hg_class]]
      /\ Goto(t, "wait") /\ UNCHANGED <<rsp, closeq, cb>>
  BY <1>0 DEF Forward, Pc
<1>3. /\ thr' = [thr EXCEPT ![t] = thr'[t]] /\ thr'[t] \in ThreadType
      /\ thr'[t].pc = "wait" /\ thr'[t].op = thr[t].op /\ thr'[t].fd = f
      /\ ~thr'[t].done /\ thr'[t].off = thr[t].off
  BY <1>0, <1>1, <1>2, Goes
<1>4. /\ thr \in [Thread -> ThreadType] /\ thr' \in [Thread -> ThreadType]
      /\ \A u \in Thread : u # t => thr'[u] = thr[u]
      /\ \A u \in Thread : thr[u].fd \in Lfd \cup {None}
      /\ handle \in [Lfd -> HandleType] /\ req \in [Lfd -> S!RpcIn]
  BY <1>3 DEF BaseTypes, CallTypes, RpcTypes, ThreadType
<1>5. CallOf(t) \in S!RpcIn
  <2>1. fd_map[f] \in Path \cup {NoPath} /\ fd_redir_map[f] \in Fd \cup {0}
    BY DEF BaseTypes, MapTypes
  <2> QED
    BY <1>0, <1>1, <2>1, Messages DEF CallOf
<1>6. [call |-> CallOf(t), thread |-> t, class |-> hg_class] \in HandleType
  BY <1>5 DEF HandleType, BaseTypes, MercuryTypes
<1>7. CallOf(t)' = CallOf(t)
  BY <1>0, <1>3 DEF CallOf
<1>8. handle' \in [Lfd -> HandleType] /\ req' \in [Lfd -> S!RpcIn]
  BY <1>1, <1>2, <1>4, <1>5, <1>6
<1>9. handle'[f].thread = t /\ handle'[f].call = CallOf(t) /\ req'[f] = CallOf(t)
  BY <1>1, <1>2, <1>4
<1>10. ThreadInv(t)'
  BY <1>0, <1>1, <1>3, <1>9, ClientConstants DEF ThreadInv, OpeningPc
<1>11. ASSUME NEW u \in Thread, u # t PROVE ThreadInv(u)'
  <2>1. ThreadInv(u) /\ thr'[u] = thr[u]
    BY <1>4, <1>11 DEF CallsInv
  <2>2. CASE thr[u].fd = None
    BY <2>1, <2>2 DEF ThreadInv, OpeningPc
  <2>3. CASE thr[u].fd # None
    <3>1. thr[u].fd # f /\ thr[u].fd \in Lfd
      BY <1>0, <1>4, <1>11, <2>3 DEF CallsInv, OneCall
    <3>2. handle'[thr[u].fd] = handle[thr[u].fd]
      BY <1>2, <1>4, <3>1
    <3> QED
      BY <2>1, <3>2 DEF ThreadInv, OpeningPc
  <2> QED
    BY <2>2, <2>3
<1>12. OneCall'
  BY <1>0, <1>3, <1>4 DEF CallsInv, OneCall
<1>13. NoCallOn(f)
  BY <1>0, NotWaiting
<1>14. CallInv(f)' /\ AnswerInv(f)'
  <2>1. rsp'[f] = NoRsp /\ cb'[f] = NoRsp
    BY <1>2, <1>13 DEF NoCallOn
  <2>2. Sent(f, t)'
    BY <1>7, <1>9, <2>1 DEF Sent
  <2> QED
    BY <1>3, <1>9, <2>1, <2>2, Messages DEF CallInv, AnswerInv
<1>15. ASSUME NEW g \in Lfd, g # f PROVE CallInv(g)' /\ AnswerInv(g)'
  <2>1. /\ CallInv(g) /\ AnswerInv(g) /\ req'[g] = req[g] /\ handle'[g] = handle[g]
        /\ rsp'[g] = rsp[g] /\ cb'[g] = cb[g]
    BY <1>2, <1>4, <1>15 DEF CallsInv
  <2>2. CASE NoCallOn(g)
    BY <2>1, <2>2 DEF CallInv, NoCallOn, AnswerInv
  <2>3. ASSUME NEW u \in Thread, handle[g].thread = u, thr[u].pc = "wait",
               thr[u].fd = g, ~thr[u].done,
               Sent(g, u) \/ Answered(g, u) \/ CalledBack(g, u)
        PROVE  CallInv(g)'
    <3>1. thr'[u] = thr[u]
      BY <1>4, <2>3
    <3>2. CallOf(u)' = CallOf(u)
      BY <3>1 DEF CallOf
    <3>3. (Sent(g, u) \/ Answered(g, u) \/ CalledBack(g, u))'
      BY <2>1, <2>3, <3>1, <3>2 DEF Sent, Answered, CalledBack
    <3> QED
      BY <2>1, <2>3, <3>1, <3>3 DEF CallInv
  <2> QED
    BY <2>1, <2>2, <2>3 DEF CallInv, AnswerInv
<1> QED
  BY <1>4, <1>8, <1>10, <1>11, <1>12, <1>14, <1>15 DEF CallsInv

\* The call of a thread at forward_open or forward_read is refused.
LEMMA RefusedKeepsCalls ==
  ASSUME BaseTypes, CallsInv, NEW t \in Thread,
         thr[t].pc \in {"forward_open", "forward_read"},
         NEW pc \in {"return", "local"},
         pc = "local" => thr[t].pc = "forward_read",
         \/ ForwardFails(t, pc)
         \/ Goto(t, pc) /\ UNCHANGED <<rpcVars, handle, cb>>,
         UNCHANGED <<lfile, fd_map, fd_redir_map>>
  PROVE  CallsInv' /\ thr' \in [Thread -> ThreadType]
<1>1. ThreadInv(t) /\ thr[t].out \in S!RpcOut
  BY InCall
<1>2. PICK out \in S!RpcOut :
         \/ Goto(t, pc) /\ out = thr[t].out
         \/ thr' = [thr EXCEPT ![t].pc = pc, ![t].out = out]
  BY <1>1, OpenAnswer DEF ForwardFails
<1>3. pc \in Pc
  BY DEF Pc
<1>4. /\ thr' = [thr EXCEPT ![t] = thr'[t]] /\ thr'[t] \in ThreadType
      /\ thr'[t].pc = pc /\ thr'[t].op = thr[t].op /\ thr'[t].fd = thr[t].fd
  BY <1>2, <1>3, Goes
<1>5. ThreadInv(t)'
  BY <1>1, <1>4 DEF ThreadInv, OpeningPc
<1>6. CallsInv'
  BY <1>2, <1>3, <1>5, GoesKeepsCalls DEF ForwardFails, rpcVars
<1> QED
  BY <1>4, <1>6 DEF BaseTypes, CallTypes

LEMMA hvac_client_comm_gen_open_rpcCalls ==
  ASSUME BaseTypes, CallsInv, NEW t \in Thread, hvac_client_comm_gen_open_rpc(t)
  PROVE  BaseTypes' /\ CallsInv'
<1>1. /\ ThreadInv(t) /\ thr[t].pc = "forward_open" /\ thr[t].op = "open"
      /\ ~thr[t].done /\ fd_map[thr[t].fd] \in Path /\ thr[t].fd \in Lfd
  BY InCall DEF hvac_client_comm_gen_open_rpc, At, ThreadInv, OpeningPc
<1>2. UNCHANGED <<lfile, fd_map, fd_redir_map, mercuryVars, aborted, app, pos,
                  remote>>
  BY DEF hvac_client_comm_gen_open_rpc, appVars
<1>3. CASE /\ Forward(t, S!OpenReq(fd_map[thr[t].fd])) /\ opens' = opens + 1
           /\ fd_state_map' = [fd_state_map EXCEPT ![thr[t].fd] = "opening"]
  <2>1. Forward(t, CallOf(t)) /\ UNCHANGED <<rsp, closeq, cb>>
    BY <1>1, <1>3 DEF CallOf, Forward
  <2>2. CallsInv' /\ thr' \in [Thread -> ThreadType]
         /\ handle' \in [Lfd -> HandleType] /\ req' \in [Lfd -> S!RpcIn]
    BY <1>1, <1>2, <2>1, ForwardKeepsCalls
  <2>3. MapTypes' /\ opens' \in Nat
    BY <1>1, <1>2, <1>3 DEF BaseTypes, MapTypes, RpcTypes
  <2> QED
    BY <1>2, <2>1, <2>2, <2>3 DEF BaseTypes, MercuryTypes, mercuryVars,
       CallTypes, RpcTypes
<1>4. CASE /\ ForwardFails(t, "return") /\ UNCHANGED opens
           /\ fd_state_map' = [fd_state_map EXCEPT ![thr[t].fd] = "error"]
  <2>0. ForwardFails(t, "return") /\ UNCHANGED <<lfile, fd_map, fd_redir_map>>
    BY <1>2, <1>4
  <2>1. CallsInv' /\ thr' \in [Thread -> ThreadType]
    BY <1>1, <2>0, RefusedKeepsCalls DEF ForwardFails
  <2>2. MapTypes'
    BY <1>1, <1>2, <1>4 DEF BaseTypes, MapTypes
  <2>3. UNCHANGED <<req, rsp, closeq, handle, cb>>
    BY <1>4 DEF ForwardFails, rpcVars
  <2> QED
    BY <1>2, <1>4, <2>1, <2>2, <2>3 DEF BaseTypes, MercuryTypes, mercuryVars,
       CallTypes, RpcTypes
<1> QED
  BY <1>3, <1>4 DEF hvac_client_comm_gen_open_rpc

LEMMA hvac_client_comm_gen_read_rpcCalls ==
  ASSUME BaseTypes, CallsInv, NEW t \in Thread, hvac_client_comm_gen_read_rpc(t)
  PROVE  BaseTypes' /\ CallsInv'
<1>1. /\ ThreadInv(t) /\ thr[t].pc = "forward_read" /\ thr[t].op = "read"
      /\ ~thr[t].done
  BY InCall DEF hvac_client_comm_gen_read_rpc, At, ThreadInv
<1>2. UNCHANGED <<lfile, fd_map, fd_redir_map, fd_state_map, mercuryVars, aborted,
                  opens, app, pos, remote>>
  BY DEF hvac_client_comm_gen_read_rpc, appVars, mapVars
<1>3. CASE /\ Redirected(thr[t].fd)
           /\ Forward(t, S!ReadReq(fd_redir_map[thr[t].fd], thr[t].off))
  <2>1. /\ Forward(t, CallOf(t)) /\ UNCHANGED <<rsp, closeq, cb>>
        /\ fd_redir_map[thr[t].fd] # 0
    BY <1>1, <1>3 DEF CallOf, Forward, Redirected
  <2>2. CallsInv' /\ thr' \in [Thread -> ThreadType]
         /\ handle' \in [Lfd -> HandleType] /\ req' \in [Lfd -> S!RpcIn]
    BY <1>1, <1>2, <2>1, ForwardKeepsCalls
  <2> QED
    BY <1>2, <2>1, <2>2 DEF BaseTypes, MapTypes, MercuryTypes, mercuryVars,
       CallTypes, RpcTypes
<1>4. CASE \/ ForwardFails(t, "local")
           \/ Goto(t, "local") /\ UNCHANGED <<rpcVars, handle, cb>>
  <2>1. CallsInv' /\ thr' \in [Thread -> ThreadType]
    BY <1>1, <1>2, <1>4, RefusedKeepsCalls
  <2>2. UNCHANGED <<req, rsp, closeq, handle, cb>>
    BY <1>4 DEF ForwardFails, rpcVars
  <2> QED
    BY <1>2, <1>4, <2>1, <2>2 DEF BaseTypes, MapTypes, MercuryTypes,
       mercuryVars, CallTypes, RpcTypes
<1>5. \/ ~Redirected(thr[t].fd) /\ Goto(t, "local")
         /\ UNCHANGED <<rpcVars, handle, cb>>
      \/ /\ Redirected(thr[t].fd)
         /\ Forward(t, S!ReadReq(fd_redir_map[thr[t].fd], thr[t].off))
      \/ Redirected(thr[t].fd) /\ ForwardFails(t, "local")
  BY DEF hvac_client_comm_gen_read_rpc
<1> QED
  BY <1>3, <1>4, <1>5 DEF ForwardFails, Goto, rpcVars

\* A step that moves the message of the call on f, and nothing of any other.
LEMMA MessageMoves ==
  ASSUME BaseTypes, CallsInv, NEW f \in Lfd,
         UNCHANGED <<lfile, thr, fd_map>>,
         \A g \in Lfd \ {f} : /\ req'[g] = req[g] /\ rsp'[g] = rsp[g]
                              /\ cb'[g] = cb[g] /\ handle'[g] = handle[g]
                              /\ fd_redir_map'[g] = fd_redir_map[g],
         handle'[f].thread = handle[f].thread,
         fd_redir_map[f] # 0 => fd_redir_map'[f] # 0,
         CallInv(f)', AnswerInv(f)'
  PROVE  CallsInv'
<1>1. ASSUME NEW u \in Thread PROVE ThreadInv(u)'
  <2>1. ThreadInv(u) /\ thr[u].fd \in Lfd \cup {None}
    BY DEF CallsInv, BaseTypes, CallTypes, ThreadType
  <2>2. CASE thr[u].fd = None
    BY <2>1, <2>2 DEF ThreadInv, OpeningPc
  <2>3. CASE thr[u].fd \in Lfd
    BY <2>1, <2>3 DEF ThreadInv, OpeningPc
  <2> QED
    BY <2>1, <2>2, <2>3
<1>2. OneCall'
  BY DEF CallsInv, OneCall
<1>3. ASSUME NEW g \in Lfd, g # f PROVE CallInv(g)' /\ AnswerInv(g)'
  <2>1. /\ CallInv(g) /\ AnswerInv(g) /\ req'[g] = req[g] /\ handle'[g] = handle[g]
        /\ rsp'[g] = rsp[g] /\ cb'[g] = cb[g]
        /\ fd_redir_map'[g] = fd_redir_map[g]
    BY <1>3 DEF CallsInv
  <2>2. CASE NoCallOn(g)
    BY <2>1, <2>2 DEF CallInv, NoCallOn, AnswerInv
  <2>3. ASSUME NEW u \in Thread, handle[g].thread = u, thr[u].pc = "wait",
               thr[u].fd = g, ~thr[u].done,
               Sent(g, u) \/ Answered(g, u) \/ CalledBack(g, u)
        PROVE  CallInv(g)'
    <3>1. CallOf(u)' = CallOf(u)
      BY <2>1, <2>3 DEF CallOf
    <3>2. (Sent(g, u) \/ Answered(g, u) \/ CalledBack(g, u))'
      BY <2>1, <2>3, <3>1 DEF Sent, Answered, CalledBack
    <3> QED
      BY <2>1, <2>3, <3>2 DEF CallInv
  <2> QED
    BY <2>1, <2>2, <2>3 DEF CallInv, AnswerInv
<1> QED
  BY <1>1, <1>2, <1>3 DEF CallsInv

\* Who waits for a call, by the place of its message.
LEMMA Waiter ==
  ASSUME CallsInv, NEW f \in Lfd, handle[f] # NoHandle \/ req[f] # NoCall
                                  \/ rsp[f] # NoRsp \/ cb[f] # NoRsp
  PROVE  \E t \in Thread :
           /\ handle[f].thread = t
           /\ thr[t].pc = "wait" /\ thr[t].fd = f /\ ~thr[t].done
           /\ thr[t].op \in {"open", "read"}
           /\ thr[t].op = "open" => fd_map[f] \in Path
           /\ thr[t].op = "read" => fd_redir_map[f] # 0
           /\ Sent(f, t) \/ Answered(f, t) \/ CalledBack(f, t)
           /\ req[f] # NoCall => Sent(f, t)
           /\ rsp[f] # NoRsp => Answered(f, t)
           /\ cb[f] # NoRsp => CalledBack(f, t)
<1>1. CallInv(f) /\ \A t \in Thread : ThreadInv(t)
  BY DEF CallsInv
<1>2. PICK t \in Thread :
         /\ handle[f].thread = t
         /\ thr[t].pc = "wait" /\ thr[t].fd = f /\ ~thr[t].done
         /\ Sent(f, t) \/ Answered(f, t) \/ CalledBack(f, t)
  BY <1>1 DEF CallInv, NoCallOn
<1>3. /\ thr[t].op \in {"open", "read"}
      /\ thr[t].op = "open" => fd_map[f] \in Path
      /\ thr[t].op = "read" => fd_redir_map[f] # 0
  BY <1>1, <1>2 DEF ThreadInv
<1>4. /\ req[f] # NoCall => Sent(f, t)
      /\ rsp[f] # NoRsp => Answered(f, t)
      /\ cb[f] # NoRsp => CalledBack(f, t)
  BY <1>2 DEF Sent, Answered, CalledBack
<1> QED
  BY <1>2, <1>3, <1>4

\* A callback takes the response: the thread still waits.
LEMMA CallbackKeepsCalls ==
  ASSUME BaseTypes, CallsInv, NEW f \in Lfd, CallbackRuns(f),
         \/ UNCHANGED fd_redir_map
         \/ fd_redir_map' = [fd_redir_map EXCEPT ![f] = rsp[f].ret] /\ rsp[f].ret > 0
  PROVE  CallsInv' /\ CallTypes' /\ RpcTypes'
<1>1. /\ cb' = [cb EXCEPT ![f] = rsp[f]] /\ rsp' = [rsp EXCEPT ![f] = NoRsp]
      /\ handle' = [handle EXCEPT ![f].call = NoCall] /\ rsp[f] # NoRsp
      /\ UNCHANGED <<lfile, fd_map, thr, req, opens, app, pos, closeq, remote>>
  BY DEF CallbackRuns, appVars
<1>2. /\ cb \in [Lfd -> S!RpcOut] /\ rsp \in [Lfd -> S!RpcOut]
      /\ handle \in [Lfd -> HandleType] /\ fd_redir_map \in [Lfd -> Fd \cup {0}]
  BY DEF BaseTypes, CallTypes, RpcTypes, MapTypes
<1>3. /\ cb' \in [Lfd -> S!RpcOut] /\ rsp' \in [Lfd -> S!RpcOut]
      /\ cb'[f] = rsp[f] /\ rsp'[f] = NoRsp
  BY <1>1, <1>2, Messages
<1>4. /\ handle' \in [Lfd -> HandleType] /\ handle'[f].call = NoCall
      /\ handle'[f].thread = handle[f].thread
  BY <1>1, <1>2, Messages DEF HandleType
<1>5. CallTypes' /\ RpcTypes'
  BY <1>1, <1>3, <1>4 DEF BaseTypes, CallTypes, RpcTypes
<1>6. PICK t \in Thread :
           /\ handle[f].thread = t
           /\ thr[t].pc = "wait" /\ thr[t].fd = f /\ ~thr[t].done
           /\ Answered(f, t)
  BY <1>1, Waiter
<1>7. CalledBack(f, t)'
  BY <1>1, <1>3, <1>4, <1>6 DEF CalledBack, Answered
<1>8. CallInv(f)' /\ AnswerInv(f)'
  BY <1>1, <1>3, <1>4, <1>6, <1>7, Messages DEF CallInv, AnswerInv
<1>9. \A g \in Lfd \ {f} : /\ req'[g] = req[g] /\ rsp'[g] = rsp[g]
                           /\ cb'[g] = cb[g] /\ handle'[g] = handle[g]
                           /\ fd_redir_map'[g] = fd_redir_map[g]
  BY <1>1, <1>2
<1>10. fd_redir_map[f] # 0 => fd_redir_map'[f] # 0
  BY <1>2
<1> QED
  BY <1>1, <1>4, <1>5, <1>8, <1>9, <1>10, MessageMoves

LEMMA hvac_open_cbCalls ==
  ASSUME BaseTypes, CallsInv, NEW f \in Lfd, hvac_open_cb(f)
  PROVE  BaseTypes' /\ CallsInv'
<1>1. rsp[f].op = "open" /\ rsp[f].ret \in Fd \cup {-1}
  BY DEF hvac_open_cb, CallsInv, AnswerInv
<1>2. CallsInv' /\ CallTypes' /\ RpcTypes'
  BY CallbackKeepsCalls DEF hvac_open_cb
<1>3. rsp[f].ret > 0 => rsp[f].ret \in Fd
  BY <1>1
<1>4. MapTypes'
  BY <1>3 DEF hvac_open_cb, CallbackRuns, BaseTypes, MapTypes
<1> QED
  BY <1>2, <1>4 DEF hvac_open_cb, CallbackRuns, BaseTypes, MercuryTypes,
     mercuryVars

LEMMA hvac_read_cbCalls ==
  ASSUME BaseTypes, CallsInv, NEW f \in Lfd, hvac_read_cb(f)
  PROVE  BaseTypes' /\ CallsInv'
<1>1. CallsInv' /\ CallTypes' /\ RpcTypes'
  BY CallbackKeepsCalls DEF hvac_read_cb
<1> QED
  BY <1>1 DEF hvac_read_cb, CallbackRuns, BaseTypes, MapTypes, MercuryTypes,
     mercuryVars

\* The signal: the call is over, and its thread has the result.
LEMMA SignalCalls ==
  ASSUME BaseTypes, CallsInv, NEW f \in Lfd, Signal(f)
  PROVE  /\ BaseTypes' /\ CallsInv'
         /\ \E t \in Thread :
              /\ thr[t].pc = "wait" /\ thr[t].fd = f /\ ~thr[t].done
              /\ CalledBack(f, t)
              /\ thr' = [thr EXCEPT ![t] = thr'[t]]
              /\ thr'[t].pc = "wait" /\ thr'[t].op = thr[t].op
              /\ thr'[t].fd = f /\ thr'[t].off = thr[t].off
              /\ thr'[t].done /\ thr'[t].out = cb[f]
<1>1. PICK t \in Thread :
           /\ handle[f].thread = t
           /\ thr[t].pc = "wait" /\ thr[t].fd = f /\ ~thr[t].done
           /\ CalledBack(f, t)
  BY Waiter DEF Signal
<1> DEFINE r == [thr[t] EXCEPT !.done = TRUE, !.out = cb[f]]
<1>2. /\ thr' = [thr EXCEPT ![t] = r] /\ cb' = [cb EXCEPT ![f] = NoRsp]
      /\ handle' = [handle EXCEPT ![f] = NoHandle]
      /\ UNCHANGED <<lfile, fd_map, fd_redir_map, req, rsp>>
  BY <1>1 DEF Signal, mapVars, rpcVars
<1>3. /\ thr \in [Thread -> ThreadType] /\ thr[t] \in ThreadType
      /\ cb \in [Lfd -> S!RpcOut] /\ cb[f] \in S!RpcOut
      /\ handle \in [Lfd -> HandleType]
      /\ \A u \in Thread : thr[u].fd \in Lfd \cup {None}
  BY DEF BaseTypes, CallTypes, ThreadType
<1>4. /\ r \in ThreadType /\ r.pc = "wait" /\ r.op = thr[t].op /\ r.fd = f
      /\ r.off = thr[t].off /\ r.done /\ r.out = cb[f]
  BY <1>1, <1>3 DEF ThreadType
<1> HIDE DEF r
<1>5. NoHandle \in HandleType /\ NoHandle.thread = None
  BY Messages DEF NoHandle, HandleType
<1>6. /\ thr' \in [Thread -> ThreadType] /\ cb' \in [Lfd -> S!RpcOut]
      /\ handle' \in [Lfd -> HandleType] /\ handle'[f] = NoHandle
      /\ cb'[f] = NoRsp /\ thr'[t] = r
      /\ \A u \in Thread : u # t => thr'[u] = thr[u]
      /\ \A g \in Lfd : g # f => handle'[g] = handle[g] /\ cb'[g] = cb[g]
  BY <1>2, <1>3, <1>4, <1>5, Messages
<1>7. BaseTypes'
  BY <1>6 DEF Signal, BaseTypes, MapTypes, MercuryTypes, CallTypes, RpcTypes,
     mapVars, mercuryVars, appVars, rpcVars
<1>8. ThreadInv(t)'
  <2>1. ThreadInv(t)
    BY DEF CallsInv
  <2> QED
    BY <1>1, <1>2, <1>4, <1>6, <2>1 DEF ThreadInv, OpeningPc
<1>9. ASSUME NEW u \in Thread, u # t PROVE ThreadInv(u)'
  <2>1. ThreadInv(u) /\ thr'[u] = thr[u]
    BY <1>6, <1>9 DEF CallsInv
  <2>2. CASE thr[u].fd = None
    BY <2>1, <2>2 DEF ThreadInv, OpeningPc
  <2>3. CASE thr[u].fd # None
    <3>1. thr[u].fd # f /\ thr[u].fd \in Lfd
      BY <1>1, <1>3, <1>9, <2>3 DEF CallsInv, OneCall
    <3> QED
      BY <1>2, <1>6, <2>1, <3>1 DEF ThreadInv, OpeningPc
  <2> QED
    BY <2>2, <2>3
<1>10. OneCall'
  BY <1>1, <1>3, <1>4, <1>6 DEF CallsInv, OneCall
<1>11. CallInv(f)' /\ AnswerInv(f)'
  BY <1>1, <1>2, <1>6, Messages DEF CallInv, NoCallOn, CalledBack, AnswerInv
<1>12. ASSUME NEW g \in Lfd, g # f PROVE CallInv(g)' /\ AnswerInv(g)'
  <2>1. /\ CallInv(g) /\ AnswerInv(g) /\ handle'[g] = handle[g] /\ cb'[g] = cb[g]
        /\ req' = req /\ rsp' = rsp
    BY <1>2, <1>6, <1>12 DEF CallsInv
  <2>2. CASE NoCallOn(g)
    BY <2>1, <2>2 DEF CallInv, NoCallOn, AnswerInv
  <2>3. ASSUME NEW u \in Thread, handle[g].thread = u, thr[u].pc = "wait",
               thr[u].fd = g, ~thr[u].done,
               Sent(g, u) \/ Answered(g, u) \/ CalledBack(g, u)
        PROVE  CallInv(g)'
    <3>1. thr'[u] = thr[u]
      BY <1>1, <1>6, <1>12, <2>3
    <3>2. CallOf(u)' = CallOf(u)
      BY <1>2, <3>1 DEF CallOf
    <3>3. (Sent(g, u) \/ Answered(g, u) \/ CalledBack(g, u))'
      BY <2>1, <2>3, <3>1, <3>2 DEF Sent, Answered, CalledBack
    <3> QED
      BY <2>1, <2>3, <3>1, <3>3 DEF CallInv
  <2> QED
    BY <2>1, <2>2, <2>3 DEF CallInv, AnswerInv
<1>13. CallsInv'
  BY <1>8, <1>9, <1>10, <1>11, <1>12 DEF CallsInv
<1> QED
  BY <1>1, <1>2, <1>4, <1>6, <1>7, <1>13

\* The server answers the open of thread t with r.
AnswersOpen(f, t, r) ==
  /\ thr[t].op = "open" /\ fd_map[f] \in Path
  /\ \/ r = S!Rsp("open", -1, S!NoData) /\ remote' = remote
     \/ \E d \in Fd :
          /\ remote[d].path = NoPath
          /\ remote' = [remote EXCEPT ![d] = [path |-> fd_map[f], off |-> 0]]
          /\ r = S!Rsp("open", d, S!NoData)

\* The server answers the read of thread t with r.
AnswersRead(f, t, r) ==
  LET d == fd_redir_map[f]
  IN  /\ thr[t].op = "read" /\ d \in Fd /\ remote[d].path # NoPath
      /\ r = S!BlockOf(remote[d].path,
                       IF thr[t].off = -1 THEN remote[d].off ELSE thr[t].off)
      /\ remote' = IF thr[t].off = -1
                   THEN [remote EXCEPT ![d] = [path |-> remote[d].path,
                                               off |-> remote[d].off + r.ret]]
                   ELSE remote

\* What a step of the server on f does, seen from the thread that waits.
LEMMA ServerAnswers ==
  ASSUME BaseTypes, CallsInv, NEW f \in Lfd, Server(f)
  PROVE  \E t \in Thread, r \in S!RpcOut :
           /\ handle[f].thread = t
           /\ thr[t].pc = "wait" /\ thr[t].fd = f /\ ~thr[t].done
           /\ Sent(f, t)
           /\ req' = [req EXCEPT ![f] = NoCall] /\ rsp' = [rsp EXCEPT ![f] = r]
           /\ AnswersOpen(f, t, r) \/ AnswersRead(f, t, r)
           /\ UNCHANGED <<clientVars, closeq>>
<1>1. req[f].op \in {"open", "read", "seek"} /\ UNCHANGED <<clientVars, closeq>>
  BY DEF Server, S!Serve, S!ServeOpen, S!ServeRead, S!ServeSeek
<1>2. PICK t \in Thread :
           /\ handle[f].thread = t
           /\ thr[t].pc = "wait" /\ thr[t].fd = f /\ ~thr[t].done
           /\ thr[t].op \in {"open", "read"}
           /\ thr[t].op = "open" => fd_map[f] \in Path
           /\ thr[t].op = "read" => fd_redir_map[f] # 0
           /\ Sent(f, t)
  BY <1>1, Waiter, Messages
<1>3. /\ req[f] = CallOf(t) /\ thr[t].off \in -1 .. FileLen
      /\ fd_map[f] \in Path \cup {NoPath} /\ fd_redir_map[f] \in Fd \cup {0}
      /\ remote \in [Fd -> FileType]
  BY <1>2 DEF Sent, BaseTypes, CallTypes, MapTypes, RpcTypes, ThreadType
<1>4. CASE thr[t].op = "open"
  <2>1. req[f].op = "open" /\ req[f].path = fd_map[f]
    BY <1>2, <1>3, <1>4, Messages DEF CallOf
  <2>2. S!ServeOpen(f)
    BY <2>1 DEF Server, S!Serve, S!ServeRead, S!ServeSeek
  <2>3. \/ /\ S!Respond(f, S!Rsp("open", -1, S!NoData))
           /\ remote' = remote
        \/ \E d \in Fd :
             /\ remote[d].path = NoPath
             /\ remote' = [remote EXCEPT ![d] = [path |-> fd_map[f], off |-> 0]]
             /\ S!Respond(f, S!Rsp("open", d, S!NoData))
    BY <2>1, <2>2 DEF S!ServeOpen, S!Failed
  <2>4. -1 \in Int /\ \A d \in Fd : d \in Int
    BY ClientConstants
  <2>5. PICK r \in S!RpcOut : S!Respond(f, r) /\ AnswersOpen(f, t, r)
    BY <1>2, <1>4, <2>3, <2>4, OpenAnswer DEF AnswersOpen
  <2> QED
    BY <1>1, <1>2, <2>5 DEF S!Respond, NoCall
<1>5. CASE thr[t].op = "read"
  <2> DEFINE d == fd_redir_map[f]
             o == IF thr[t].off = -1 THEN remote[d].off ELSE thr[t].off
             r == S!BlockOf(remote[d].path, o)
  <2>1. req[f].op = "read" /\ req[f].fd = d /\ req[f].off = thr[t].off
    BY <1>2, <1>3, <1>5, Messages DEF CallOf
  <2>2. S!ServeRead(f)
    BY <2>1 DEF Server, S!Serve, S!ServeOpen, S!ServeSeek
  <2>3. d \in Fd /\ remote[d].path # NoPath
    BY <2>1, <2>2 DEF S!ServeRead
  <2>4. /\ S!Respond(f, r)
        /\ remote' = IF thr[t].off = -1
                     THEN [remote EXCEPT ![d] = [path |-> remote[d].path,
                                                 off |-> remote[d].off + r.ret]]
                     ELSE remote
    BY <2>1, <2>2 DEF S!ServeRead, S!Sequential
  <2>5. r \in S!RpcOut
    <3>1. remote[d].path \in Path \cup {NoPath} /\ remote[d].off \in 0 .. FileLen
      BY <1>3, <2>3 DEF FileType
    <3>2. o \in 0 .. FileLen
      BY <1>3, <3>1, ClientConstants
    <3> QED
      BY <3>1, <3>2, BlockAnswer
  <2>6. AnswersRead(f, t, r)
    BY <1>5, <2>3, <2>4 DEF AnswersRead
  <2> HIDE DEF r
  <2> QED
    BY <1>1, <1>2, <2>4, <2>5, <2>6 DEF S!Respond, NoCall
<1> QED
  BY <1>2, <1>4, <1>5

LEMMA ServerCalls ==
  ASSUME BaseTypes, CallsInv, NEW f \in Lfd, Server(f)
  PROVE  BaseTypes' /\ CallsInv'
<1>1. PICK t \in Thread, r \in S!RpcOut :
           /\ handle[f].thread = t
           /\ thr[t].pc = "wait" /\ thr[t].fd = f /\ ~thr[t].done
           /\ Sent(f, t)
           /\ req' = [req EXCEPT ![f] = NoCall] /\ rsp' = [rsp EXCEPT ![f] = r]
           /\ AnswersOpen(f, t, r) \/ AnswersRead(f, t, r)
           /\ UNCHANGED <<clientVars, closeq>>
  BY ServerAnswers
<1>2. /\ thr[t].off \in -1 .. FileLen /\ remote \in [Fd -> FileType]
      /\ req \in [Lfd -> S!RpcIn] /\ rsp \in [Lfd -> S!RpcOut]
      /\ 0 \in 0 .. FileLen
  BY ClientConstants DEF BaseTypes, CallTypes, RpcTypes, ThreadType
<1>3. /\ req' \in [Lfd -> S!RpcIn] /\ rsp' \in [Lfd -> S!RpcOut]
      /\ req'[f] = NoCall /\ rsp'[f] = r
      /\ \A g \in Lfd : g # f => req'[g] = req[g] /\ rsp'[g] = rsp[g]
  BY <1>1, <1>2, Messages
<1>4. /\ remote' \in [Fd -> FileType] /\ r.op = thr[t].op
      /\ r.op = "open" => r.ret \in Fd \cup {-1}
      /\ r.op = "read" => r.ret \in {0, 1}
  <2>1. CASE AnswersOpen(f, t, r)
    <3>1. \A d \in Fd \cup {-1} : d \in Int
      BY ClientConstants
    <3>2. remote' \in [Fd -> FileType]
      BY <1>2, <2>1 DEF AnswersOpen, FileType
    <3>3. PICK d \in Fd \cup {-1} : r = S!Rsp("open", d, S!NoData)
      BY <2>1 DEF AnswersOpen
    <3>4. r.op = "open" /\ r.ret = d
      BY <3>1, <3>3, OpenAnswer
    <3> QED
      BY <2>1, <3>2, <3>4 DEF AnswersOpen
  <2>2. CASE AnswersRead(f, t, r)
    <3> DEFINE d == fd_redir_map[f]
               o == IF thr[t].off = -1 THEN remote[d].off ELSE thr[t].off
    <3>1. d \in Fd /\ r = S!BlockOf(remote[d].path, o) /\ thr[t].op = "read"
      BY <2>2 DEF AnswersRead
    <3>2. remote[d].path \in Path \cup {NoPath} /\ remote[d].off \in 0 .. FileLen
      BY <1>2, <3>1 DEF FileType
    <3>3. o \in 0 .. FileLen
      BY <1>2, <3>2, ClientConstants
    <3>4. r.op = "read" /\ r.ret \in {0, 1} /\ o + r.ret \in 0 .. FileLen
      BY <3>1, <3>2, <3>3, BlockAnswer
    <3>5. remote' \in [Fd -> FileType]
      BY <1>2, <2>2, <3>2, <3>4 DEF AnswersRead, FileType
    <3> QED
      BY <3>1, <3>4, <3>5
  <2> QED
    BY <1>1, <2>1, <2>2
<1>5. BaseTypes'
  BY <1>1, <1>3, <1>4 DEF BaseTypes, MapTypes, MercuryTypes, CallTypes, RpcTypes,
     clientVars, mapVars, mercuryVars, callVars, appVars
<1>6. UNCHANGED <<lfile, thr, fd_map, fd_redir_map, cb, handle>>
  BY <1>1 DEF clientVars, mapVars, callVars
<1>7. Answered(f, t)'
  BY <1>1, <1>3, <1>4, <1>6 DEF Answered, Sent, CallOf
<1>8. CallInv(f)' /\ AnswerInv(f)'
  BY <1>1, <1>3, <1>4, <1>6, <1>7 DEF CallInv, AnswerInv
<1>9. CallsInv'
  BY <1>3, <1>6, <1>8, MessageMoves
<1> QED
  BY <1>5, <1>9

LEMMA ServerClosesCalls ==
  ASSUME BaseTypes, CallsInv, NEW d \in Fd, ServerCloses(d)
  PROVE  BaseTypes' /\ CallsInv'
<1>1. /\ closeq' = closeq \ {d} /\ remote' = [remote EXCEPT ![d] = S!NotOpen]
      /\ UNCHANGED <<clientVars, req, rsp>>
  BY DEF ServerCloses, S!ServeClose
<1>2. S!NotOpen \in FileType
  BY ClientConstants DEF S!NotOpen, FileType
<1>3. CallsInv'
  BY <1>1, BypassKeepsCalls DEF clientVars, callVars
<1> QED
  BY <1>1, <1>2, <1>3 DEF BaseTypes, MapTypes, MercuryTypes, CallTypes, RpcTypes,
     clientVars, mapVars, mercuryVars, callVars, appVars

-----------------------------------------------------------------------------
(* The first layer of the invariant.                                       *)

LEMMA InitCalls == Init => BaseTypes /\ CallsInv
<1> SUFFICES ASSUME Init PROVE BaseTypes /\ CallsInv
  OBVIOUS
<1>1. FileLen \in Nat /\ 0 \in 0 .. FileLen /\ 0 \in -1 .. FileLen
  BY ClientConstants
<1>2. /\ Idle \in ThreadType /\ Idle.pc = "idle" /\ Idle.op = "none"
      /\ Idle.fd = None /\ ~Idle.done
  BY <1>1, Messages DEF ThreadType, Idle, Pc
<1>3. NoHandle \in HandleType /\ Unlinked \in FileType /\ S!NotOpen \in FileType
  BY <1>1, Messages DEF HandleType, NoHandle, FileType, Unlinked, S!NotOpen
<1>4. MapTypes
  BY <1>3 DEF Init, MapTypes
<1>5. MercuryTypes
  <2>1. g_mercury_init \in BOOLEAN /\ aborted \in BOOLEAN
    BY ClientConstants DEF Init
  <2>2. hg_class \in Nat /\ registered = hg_class
    BY DEF Init
  <2> QED
    BY <2>1, <2>2 DEF MercuryTypes
<1>6. CallTypes
  BY <1>1, <1>2, <1>3, Messages DEF Init, CallTypes
<1>7. RpcTypes
  BY <1>3, Messages DEF Init, RpcTypes
<1>8. \A t \in Thread : ThreadInv(t)
  BY <1>2 DEF Init, ThreadInv, OpeningPc
<1>9. OneCall
  BY <1>2 DEF Init, OneCall
<1>10. \A f \in Lfd : CallInv(f) /\ AnswerInv(f)
  BY Messages DEF Init, CallInv, NoCallOn, AnswerInv
<1> QED
  BY <1>4, <1>5, <1>6, <1>7, <1>8, <1>9, <1>10 DEF BaseTypes, CallsInv

LEMMA NextCalls == BaseTypes /\ CallsInv /\ [Next]_vars => BaseTypes' /\ CallsInv'
<1> SUFFICES ASSUME BaseTypes, CallsInv, [Next]_vars PROVE BaseTypes' /\ CallsInv'
  OBVIOUS
<1>1. CASE Application
  BY <1>1, openCalls, readCalls, closeCalls, fcloseCalls, lseekCalls
     DEF Application
<1>2. ASSUME NEW t \in Thread, Continue(t) PROVE BaseTypes' /\ CallsInv'
  BY <1>2, hvac_track_fileCalls, FdMapInsertedCalls, CheckMercuryCalls,
     hvac_init_commCalls, hvac_client_comm_register_rpcCalls,
     hvac_client_comm_gen_open_rpcCalls, hvac_client_comm_gen_read_rpcCalls,
     hvac_wait_for_operationCalls, LocalReadCalls, ReturnCalls,
     hvac_remove_fdCalls, RealCloseCalls, AssertFailsCalls DEF Continue
<1>3. ASSUME NEW f \in Lfd, Callback(f) \/ Server(f) PROVE BaseTypes' /\ CallsInv'
  BY <1>3, hvac_open_cbCalls, hvac_read_cbCalls, SignalCalls, ServerCalls
     DEF Callback
<1>4. ASSUME NEW d \in Fd, ServerCloses(d) PROVE BaseTypes' /\ CallsInv'
  BY <1>4, ServerClosesCalls
<1>5. CASE UNCHANGED vars
  <2>1. CallsInv'
    BY <1>5, BypassKeepsCalls DEF vars, clientVars, callVars, rpcVars
  <2> QED
    BY <1>5, <2>1 DEF BaseTypes, MapTypes, MercuryTypes, CallTypes, RpcTypes,
       vars, clientVars, mapVars, mercuryVars, callVars, appVars, rpcVars
<1> QED
  BY <1>1, <1>2, <1>3, <1>4, <1>5 DEF Next

\* Whatever fails and whatever bypasses the library: a descriptor is in one
\* call at a time, the message of that call is in one place (request, response
\* or callback), and the thread its callback will signal waits for it.
THEOREM CallsInvariance == Spec => [](BaseTypes /\ CallsInv)
<1>1. Init => BaseTypes /\ CallsInv
  BY InitCalls
<1>2. (BaseTypes /\ CallsInv) /\ [Next]_vars => (BaseTypes /\ CallsInv)'
  BY NextCalls
<1> QED
  BY <1>1, <1>2, PTL DEF Spec

-----------------------------------------------------------------------------
(* The descriptors of the server.                                          *)

\* Steps that leave the mapping, the responses and the server alone.
LEMMA RemoteKept ==
  ASSUME RemoteInv, UNCHANGED <<fd_redir_map, rsp, closeq, remote>>,
         \A f \in Lfd : rsp[f] # NoRsp => /\ fd_map'[f] = fd_map[f]
                                          /\ handle'[f].call = handle[f].call
  PROVE  RemoteInv' /\ \A f \in Lfd : Unseen(f)' = Unseen(f)
<1>1. \A f \in Lfd : Got(f)' = Got(f) /\ (Got(f) # 0 => fd_map'[f] = fd_map[f])
  BY Messages DEF Got
<1>2. \A f \in Lfd : Unseen(f)' = Unseen(f)
  BY Messages DEF Unseen
<1>3. \A d : Live(d)' = Live(d)
  BY DEF Live
<1> QED
  BY <1>1, <1>2, <1>3 DEF RemoteInv

\* Every step of the application and of its threads, but hvac_remove_fd, and
\* the signal, are of that kind.
LEMMA ThreadsKeepRemote ==
  ASSUME BaseTypes, CallsInv, RemoteInv,
         \/ Application
         \/ \E t \in Thread : Continue(t) /\ ~hvac_remove_fd(t)
         \/ \E f \in Lfd : Signal(f)
         \/ UNCHANGED vars
  PROVE  /\ UNCHANGED <<fd_redir_map, rsp, closeq, remote>>
         /\ \A f \in Lfd : rsp[f] # NoRsp => /\ fd_map'[f] = fd_map[f]
                                             /\ handle'[f].call = handle[f].call
<1>1. CASE Application
  BY <1>1 DEF Application, open, read, close, fclose, lseek, mapVars, callVars,
     rpcVars
<1>2. ASSUME NEW t \in Thread, Continue(t), ~hvac_remove_fd(t),
             ~FdMapInserted(t), ~hvac_client_comm_gen_open_rpc(t),
             ~hvac_client_comm_gen_read_rpc(t)
      PROVE  UNCHANGED <<fd_redir_map, rsp, closeq, remote, fd_map, handle>>
  BY <1>2 DEF Continue, hvac_track_file, CheckMercury, hvac_init_comm,
     hvac_client_comm_register_rpc, hvac_wait_for_operation, LocalRead, Return,
     RealClose, AssertFails, mapVars, callVars, rpcVars
<1>3. ASSUME NEW t \in Thread,
             \/ FdMapInserted(t) \/ hvac_client_comm_gen_open_rpc(t)
             \/ hvac_client_comm_gen_read_rpc(t)
      PROVE  /\ UNCHANGED <<fd_redir_map, rsp, closeq, remote>>
             /\ \A f \in Lfd : rsp[f] # NoRsp => /\ fd_map'[f] = fd_map[f]
                                                 /\ handle'[f].call = handle[f].call
  <2>1. thr[t].pc \in {"inserting", "forward_open", "forward_read"}
    BY <1>3 DEF FdMapInserted, hvac_client_comm_gen_open_rpc,
       hvac_client_comm_gen_read_rpc, At
  <2>2. rsp[thr[t].fd] = NoRsp /\ thr[t].fd \in Lfd
    BY <2>1, NotWaiting, InCall DEF NoCallOn
  <2>3. fd_map \in [Lfd -> Path \cup {NoPath}] /\ handle \in [Lfd -> HandleType]
    BY DEF BaseTypes, MapTypes, CallTypes
  <2>4. CASE FdMapInserted(t)
    BY <2>2, <2>3, <2>4 DEF FdMapInserted, callVars, rpcVars
  <2>5. CASE hvac_client_comm_gen_open_rpc(t)
    BY <2>2, <2>3, <2>5 DEF hvac_client_comm_gen_open_rpc, Forward, ForwardFails,
       rpcVars
  <2>6. CASE hvac_client_comm_gen_read_rpc(t)
    BY <2>2, <2>3, <2>6 DEF hvac_client_comm_gen_read_rpc, Forward, ForwardFails,
       rpcVars, mapVars
  <2> QED
    BY <1>3, <2>4, <2>5, <2>6
<1>4. ASSUME NEW f \in Lfd, Signal(f)
      PROVE  /\ UNCHANGED <<fd_redir_map, rsp, closeq, remote, fd_map>>
             /\ \A g \in Lfd : rsp[g] # NoRsp => handle'[g].call = handle[g].call
  <2>1. rsp[f] = NoRsp
    BY <1>4, Waiter DEF Signal, CalledBack
  <2> QED
    BY <1>4, <2>1 DEF Signal, mapVars, rpcVars, BaseTypes, CallTypes
<1>5. CASE UNCHANGED vars
  BY <1>5 DEF vars, clientVars, mapVars, callVars, rpcVars
<1> QED
  BY <1>1, <1>2, <1>3, <1>4, <1>5

\* A closed descriptor is one its holder gives up.
LEMMA hvac_remove_fdRemote ==
  ASSUME BaseTypes, CallsInv, RemoteInv, NEW t \in Thread, hvac_remove_fd(t)
  PROVE  RemoteInv'
<1>1. thr[t].pc = "untrack"
  BY DEF hvac_remove_fd, At
<1>2. PICK f \in Lfd : f = thr[t].fd
  BY <1>1, InCall
<1>3. rsp[f] = NoRsp
  BY <1>1, <1>2, NotWaiting DEF NoCallOn
<1>4. /\ fd_map' = [fd_map EXCEPT ![f] = NoPath]
      /\ fd_redir_map' = [fd_redir_map EXCEPT ![f] = 0]
      /\ closeq' = closeq \/ closeq' = closeq \cup ({fd_redir_map[f]} \ {0})
      /\ UNCHANGED <<rsp, remote, handle>>
  BY <1>2 DEF hvac_remove_fd, hvac_client_comm_gen_close_rpc, callVars
<1>5. /\ fd_redir_map \in [Lfd -> Fd \cup {0}] /\ fd_map \in [Lfd -> Path \cup {NoPath}]
      /\ fd_redir_map'[f] = 0
      /\ \A g \in Lfd : g # f => /\ fd_redir_map'[g] = fd_redir_map[g]
                                 /\ fd_map'[g] = fd_map[g]
  BY <1>4 DEF BaseTypes, MapTypes
<1>6. \A g \in Lfd : Got(g)' = Got(g) /\ Unseen(g)' = Unseen(g)
  BY <1>4 DEF Got, Unseen
<1>7. Got(f) = 0
  BY <1>3, Messages DEF Got
<1>8. ASSUME NEW d, Live(d), d # fd_redir_map[f] PROVE Live(d)'
  BY <1>4, <1>8 DEF Live
<1>9. ASSUME NEW d \in closeq' PROVE remote'[d].path # NoPath
  <2>1. fd_redir_map[f] # 0 => remote[fd_redir_map[f]].path # NoPath
    BY ClientConstants DEF RemoteInv, Live
  <2> QED
    BY <1>4, <1>9, <2>1 DEF RemoteInv
<1> QED
  BY <1>4, <1>5, <1>6, <1>7, <1>8, <1>9 DEF RemoteInv

\* The callback of an open passes the descriptor from the response to the
\* mapping; the callback of a read drops the response.
LEMMA CallbackRemote ==
  ASSUME BaseTypes, CallsInv, RemoteInv, NEW f \in Lfd,
         hvac_open_cb(f) \/ hvac_read_cb(f)
  PROVE  RemoteInv'
<1>1. /\ rsp' = [rsp EXCEPT ![f] = NoRsp] /\ UNCHANGED <<fd_map, closeq, remote>>
      /\ handle' = [handle EXCEPT ![f].call = NoCall]
  BY DEF hvac_open_cb, hvac_read_cb, CallbackRuns
<1>2. fd_redir_map' = IF Got(f) # 0 THEN [fd_redir_map EXCEPT ![f] = Got(f)]
                      ELSE fd_redir_map
  <2>1. CASE hvac_open_cb(f)
    BY <2>1 DEF hvac_open_cb, Got
  <2>2. CASE hvac_read_cb(f)
    BY <2>2 DEF hvac_read_cb, Got
  <2> QED
    BY <2>1, <2>2
<1>3. /\ rsp \in [Lfd -> S!RpcOut] /\ handle \in [Lfd -> HandleType]
      /\ fd_redir_map \in [Lfd -> Fd \cup {0}] /\ remote \in [Fd -> FileType]
  BY DEF BaseTypes, RpcTypes, MapTypes, CallTypes
<1>4. \A g \in Lfd : /\ Got(g)' = IF g = f THEN 0 ELSE Got(g)
                     /\ Unseen(g)' = IF g = f THEN 0 ELSE Unseen(g)
  BY <1>1, <1>3, Messages DEF Got, Unseen
<1>5. \A d : Live(d)' = Live(d) /\ (Live(d) => remote[d].off >= 0)
  BY <1>1, <1>3, ClientConstants DEF Live, FileType
<1>6. \A g \in Lfd : fd_redir_map'[g] = IF g = f /\ Got(f) # 0 THEN Got(f)
                                        ELSE fd_redir_map[g]
  BY <1>2, <1>3
<1> QED
  BY <1>1, <1>4, <1>5, <1>6 DEF RemoteInv

\* The server opens a descriptor nobody holds, reads where the caller of f
\* holds one, and closes what has been given up.
LEMMA ServerRemote ==
  ASSUME BaseTypes, CallsInv, RemoteInv, NEW f \in Lfd, Server(f)
  PROVE  RemoteInv'
<1>1. PICK t \in Thread, r \in S!RpcOut :
           /\ handle[f].thread = t
           /\ thr[t].pc = "wait" /\ thr[t].fd = f /\ ~thr[t].done
           /\ Sent(f, t)
           /\ req' = [req EXCEPT ![f] = NoCall] /\ rsp' = [rsp EXCEPT ![f] = r]
           /\ AnswersOpen(f, t, r) \/ AnswersRead(f, t, r)
           /\ UNCHANGED <<clientVars, closeq>>
  BY ServerAnswers
<1>2. UNCHANGED <<fd_map, fd_redir_map, handle, closeq>>
  BY <1>1 DEF clientVars, mapVars, callVars
<1>3. /\ rsp \in [Lfd -> S!RpcOut] /\ remote \in [Fd -> FileType]
      /\ fd_redir_map \in [Lfd -> Fd \cup {0}] /\ thr[t].off \in -1 .. FileLen
      /\ fd_map \in [Lfd -> Path \cup {NoPath}]
  BY DEF BaseTypes, RpcTypes, MapTypes, CallTypes, ThreadType
<1>4. rsp[f] = NoRsp /\ handle[f].call = CallOf(t) /\ Got(f) = 0 /\ Unseen(f) = 0
  BY <1>1, Messages DEF Sent, Got, Unseen
<1>5. \A g \in Lfd : g # f => Got(g)' = Got(g) /\ Unseen(g)' = Unseen(g)
  BY <1>1, <1>2, <1>3 DEF Got, Unseen
<1>6. rsp'[f] = r
  BY <1>1, <1>3
<1>7. CASE AnswersOpen(f, t, r)
  <2>1. \A d \in Fd : d \in Int /\ d > 0
    BY ClientConstants
  <2>2. CASE r = S!Rsp("open", -1, S!NoData) /\ remote' = remote
    <3>1. r.op = "open" /\ r.ret = -1
      BY <2>2, OpenAnswer
    <3>2. Got(f)' = 0 /\ Unseen(f)' = 0
      BY <1>6, <3>1 DEF Got, Unseen
    <3>3. \A d : Live(d)' = Live(d)
      BY <1>2, <2>2 DEF Live
    <3>4. \A g \in Lfd : Got(g)' = Got(g) /\ Unseen(g)' = Unseen(g)
      BY <1>4, <1>5, <3>2
    <3> QED
      BY <1>2, <2>2, <3>3, <3>4 DEF RemoteInv
  <2>3. ASSUME NEW d \in Fd, remote[d].path = NoPath,
               remote' = [remote EXCEPT ![d] = [path |-> fd_map[f], off |-> 0]],
               r = S!Rsp("open", d, S!NoData)
        PROVE  RemoteInv'
    <3>1. r.op = "open" /\ r.ret = d
      BY <2>1, <2>3, OpenAnswer
    <3>2. Got(f)' = d /\ Unseen(f)' = 0
      BY <1>6, <2>1, <3>1 DEF Got, Unseen
    <3>3. /\ remote'[d].path = fd_map[f] /\ remote'[d].off = 0
          /\ \A e \in Fd : e # d => remote'[e] = remote[e]
          /\ fd_map[f] \in Path
      BY <1>3, <1>7, <2>3 DEF AnswersOpen
    <3>4. ~Live(d) /\ d \notin closeq
      BY <2>3, ClientConstants DEF Live, RemoteInv
    <3>5. Live(d)' /\ \A e : Live(e) => Live(e)' /\ e # d /\ e \in Fd
      BY <1>2, <3>3, <3>4 DEF Live
    <3>6. \A e \in closeq : e # d /\ remote'[e] = remote[e]
      BY <3>3, <3>4 DEF BaseTypes, RpcTypes
    <3>7. d # 0
      BY <2>1
    <3> QED
      BY <1>2, <1>4, <1>5, <3>2, <3>3, <3>5, <3>6, <3>7 DEF RemoteInv
  <2> QED
    BY <1>7, <2>2, <2>3 DEF AnswersOpen
<1>8. CASE AnswersRead(f, t, r)
  <2> DEFINE d == fd_redir_map[f]
             o == IF thr[t].off = -1 THEN remote[d].off ELSE thr[t].off
  <2>1. /\ d \in Fd /\ d # 0 /\ remote[d].path # NoPath /\ thr[t].op = "read"
        /\ r = S!BlockOf(remote[d].path, o)
        /\ remote' = IF thr[t].off = -1
                   THEN [remote EXCEPT ![d] = [path |-> remote[d].path,
                                               off |-> remote[d].off + r.ret]]
                   ELSE remote
    BY <1>8, ClientConstants DEF AnswersRead
  <2>2. remote[d].path \in Path \cup {NoPath} /\ remote[d].off \in 0 .. FileLen
    BY <1>3, <2>1 DEF FileType
  <2>3. o \in 0 .. FileLen
    BY <1>3, <2>2, ClientConstants
  <2>4. r.op = "read" /\ r.ret \in {0, 1}
    BY <2>1, <2>2, <2>3, BlockAnswer
  <2>5. handle'[f].call.off = thr[t].off
    BY <1>1, <1>2, <1>3, <1>4, <2>1, Messages DEF CallOf
  <2>6. Got(f)' = 0 /\ Unseen(f)' = IF thr[t].off = -1 THEN r.ret ELSE 0
    BY <1>6, <2>4, <2>5 DEF Got, Unseen
  <2>7. /\ \A e \in Fd : remote'[e].path = remote[e].path
        /\ \A e \in Fd : e # d => remote'[e] = remote[e]
        /\ remote'[d].off >= Unseen(f)'
    BY <1>3, <2>1, <2>2, <2>4, <2>6, ClientConstants
  <2>8. \A e : Live(e)' = Live(e) /\ (Live(e) => e \in Fd)
    BY <1>2, <2>7 DEF Live
  <2>9. \A g \in Lfd : Got(g)' = Got(g)
    BY <1>4, <1>5, <2>6
  <2>10. ASSUME NEW g \in Lfd, fd_redir_map[g] # 0
         PROVE  remote'[fd_redir_map[g]].off >= Unseen(g)'
    <3>1. CASE g = f
      BY <2>7, <3>1
    <3>2. CASE g # f
      <4>1. fd_redir_map[g] # d /\ fd_redir_map[g] \in Fd
        BY <2>1, <2>8, <2>10, <3>2 DEF RemoteInv
      <4> QED
        BY <1>5, <2>7, <2>10, <3>2, <4>1 DEF RemoteInv
    <3> QED
      BY <3>1, <3>2
  <2>11. \A g \in Lfd : Got(g) # 0 => Got(g) # d /\ Got(g) \in Fd
    BY <2>8 DEF RemoteInv
  <2>12. \A e \in closeq : remote'[e].path = remote[e].path
    BY <2>7 DEF BaseTypes, RpcTypes
  <2> HIDE DEF d, o
  <2> QED
    BY <1>2, <2>7, <2>8, <2>9, <2>10, <2>11, <2>12 DEF RemoteInv
<1> QED
  BY <1>1, <1>7, <1>8

LEMMA ServerClosesRemote ==
  ASSUME BaseTypes, CallsInv, RemoteInv, NEW d \in Fd, ServerCloses(d)
  PROVE  RemoteInv'
<1>1. /\ d \in closeq
      /\ closeq' = closeq \ {d} /\ remote' = [remote EXCEPT ![d] = S!NotOpen]
      /\ UNCHANGED <<fd_map, fd_redir_map, handle, rsp>>
  BY DEF ServerCloses, S!ServeClose, clientVars, mapVars, callVars
<1>2. remote \in [Fd -> FileType] /\ closeq \in SUBSET Fd
  BY DEF BaseTypes, RpcTypes
<1>3. \A e \in Fd : e # d => remote'[e] = remote[e]
  BY <1>1, <1>2
<1>4. \A e : Live(e) => Live(e)' /\ e \in Fd /\ remote'[e] = remote[e]
  BY <1>1, <1>3 DEF Live
<1>5. \A g \in Lfd : Got(g)' = Got(g) /\ Unseen(g)' = Unseen(g)
  BY <1>1 DEF Got, Unseen
<1>6. \A e \in closeq' : e \in closeq /\ remote'[e] = remote[e]
  BY <1>1, <1>2, <1>3
<1> QED
  BY <1>1, <1>4, <1>5, <1>6 DEF RemoteInv

LEMMA NextRemote ==
  BaseTypes /\ CallsInv /\ RemoteInv /\ [Next]_vars => RemoteInv'
<1> SUFFICES ASSUME BaseTypes, CallsInv, RemoteInv, [Next]_vars PROVE RemoteInv'
  OBVIOUS
<1>1. ASSUME \/ Application
             \/ \E t \in Thread : Continue(t) /\ ~hvac_remove_fd(t)
             \/ \E f \in Lfd : Signal(f)
             \/ UNCHANGED vars
      PROVE  RemoteInv'
  BY <1>1, ThreadsKeepRemote, RemoteKept
<1>2. ASSUME NEW t \in Thread, hvac_remove_fd(t) PROVE RemoteInv'
  BY <1>2, hvac_remove_fdRemote
<1>3. ASSUME NEW f \in Lfd, hvac_open_cb(f) \/ hvac_read_cb(f) \/ Server(f)
      PROVE  RemoteInv'
  BY <1>3, CallbackRemote, ServerRemote
<1>4. ASSUME NEW d \in Fd, ServerCloses(d) PROVE RemoteInv'
  BY <1>4, ServerClosesRemote
<1> QED
  BY <1>1, <1>2, <1>3, <1>4 DEF Next, Callback

LEMMA InitRemote == Init => RemoteInv
<1> SUFFICES ASSUME Init PROVE RemoteInv
  OBVIOUS
<1>1. \A f \in Lfd : fd_redir_map[f] = 0 /\ Got(f) = 0 /\ closeq = {}
  BY Messages DEF Init, Got
<1> QED
  BY <1>1 DEF Init, RemoteInv

\* The remote descriptors are held by one descriptor of the process each,
\* and closed when nobody holds them any more.
THEOREM RemoteInvariance == Spec => []RemoteInv
<1>1. Init => BaseTypes /\ CallsInv /\ RemoteInv
  BY InitCalls, InitRemote
<1>2. (BaseTypes /\ CallsInv /\ RemoteInv) /\ [Next]_vars
        => (BaseTypes /\ CallsInv /\ RemoteInv)'
  BY NextCalls, NextRemote
<1> QED
  BY <1>1, <1>2, PTL DEF Spec

-----------------------------------------------------------------------------
(* Types, and the callbacks' targets, whatever fails.                      *)

LEMMA TypesFollow ==
  ASSUME BaseTypes, CallsInv, RemoteInv
  PROVE  TypeOK
<1>1. ASSUME NEW f \in Lfd
      PROVE  heldBar[f] \in S!Holding
  <2>1. /\ fd_redir_map[f] \in Fd \cup {0} /\ fd_map[f] \in Path \cup {NoPath}
        /\ handle[f].call \in S!RpcIn /\ remote \in [Fd -> FileType]
        /\ 0 \notin Fd /\ FileLen \in Nat
    BY ClientConstants DEF BaseTypes, MapTypes, CallTypes, RpcTypes, HandleType
  <2>2. Unseen(f) \in {0, 1}
    BY DEF Unseen, CallsInv, AnswerInv
  <2>3. ASSUME fd_redir_map[f] # 0
        PROVE  remote[fd_redir_map[f]].off - Unseen(f) \in 0 .. FileLen
    <3>1. remote[fd_redir_map[f]].off \in 0 .. FileLen
      BY <2>1, <2>3 DEF FileType
    <3>2. remote[fd_redir_map[f]].off >= Unseen(f)
      BY <2>3 DEF RemoteInv
    <3> QED
      BY <2>1, <2>2, <3>1, <3>2
  <2>4. 0 \in 0 .. FileLen
    BY <2>1
  <2> HIDE DEF Unseen
  <2> QED
    BY <2>1, <2>3, <2>4 DEF heldBar, S!Holding, S!Paths0, S!Offset
<1>2. heldBar \in [Lfd -> S!Holding]
  BY <1>1 DEF heldBar
<1>3. S!TypeOK
  BY <1>2 DEF S!TypeOK, S!RpcTypeOK, S!Paths0, S!Offset, BaseTypes, RpcTypes,
     FileType
<1> QED
  BY <1>3 DEF TypeOK, BaseTypes, MapTypes, MercuryTypes, CallTypes, FileType,
     ThreadType, HandleType

\* Every variable of the client keeps its type, and so does what it shows the
\* server of itself: the offset of a redirected descriptor never leaves the
\* file, even while an answer is under way.
THEOREM TypeCorrect == Spec => []TypeOK
<1>1. BaseTypes /\ CallsInv /\ RemoteInv => TypeOK
  BY TypesFollow
<1> QED
  BY <1>1, CallsInvariance, RemoteInvariance, PTL

\* However threads, callbacks, server and bypassing calls interleave, and
\* whatever fails, hvac_open_cb and hvac_read_cb signal the sync context of a
\* thread that is still inside hvac_wait_for_operation for that very call.
THEOREM CallbacksTargetLive == Spec => []CallbackTargetsLive
<1>1. CallsInv => CallbackTargetsLive
  BY Waiter DEF CallbackTargetsLive
<1> QED
  BY <1>1, CallsInvariance, PTL

\* Whatever fails, races or bypasses the library, a remote descriptor serves
\* one local descriptor, and a close RPC names one that is open and that no
\* local descriptor uses any more.
THEOREM RemoteOwned == Spec => []RemoteDescriptorsOwned
<1>1. RemoteInv => RemoteDescriptorsOwned
  BY ClientConstants DEF RemoteInv, Live, RemoteDescriptorsOwned
<1> QED
  BY <1>1, RemoteInvariance, PTL

-----------------------------------------------------------------------------
(* The bound on the open RPCs.                                             *)

\* No step but open() starts an open.
LEMMA OnlyOpenOpens ==
  ASSUME BaseTypes, CallsInv, Next, ~(\E t \in Thread, p \in Path : open(t, p))
  PROVE  Opening' \subseteq Opening
<1>0. thr \in [Thread -> ThreadType]
  BY DEF BaseTypes, CallTypes
<1>1. SUFFICES ASSUME NEW u \in Thread, thr'[u].pc \in OpeningPc
               PROVE  thr[u].pc \in OpeningPc
  BY DEF Opening, OpeningPc
<1>2. ASSUME NEW t \in Thread, NEW f \in Lfd, NEW o \in -1 .. FileLen,
             read(t, f, o) \/ close(t, f)
      PROVE  thr[u].pc \in OpeningPc
  <2>1. PICK pc \in {"forward_read", "local", "untrack", "close"},
             op \in {"read", "close"}, q \in {o, 0} :
          thr' = [thr EXCEPT ![t] = [Idle EXCEPT !.pc = pc, !.op = op, !.fd = f,
                                                 !.off = q]]
    BY <1>2 DEF read, close, Begin
  <2>2. [Idle EXCEPT !.pc = pc, !.op = op, !.fd = f, !.off = q].pc = pc
    BY DEF Idle
  <2> QED
    BY <1>0, <1>1, <2>1, <2>2 DEF OpeningPc
<1>3. ASSUME NEW t \in Thread, Continue(t) PROVE thr[u].pc \in OpeningPc
  <2>1. CASE u # t
    BY <1>0, <1>1, <1>3, <2>1 DEF Continue, hvac_track_file, FdMapInserted,
       CheckMercury, hvac_init_comm, hvac_client_comm_register_rpc,
       hvac_client_comm_gen_open_rpc, hvac_client_comm_gen_read_rpc, Forward,
       ForwardFails, hvac_wait_for_operation, LocalRead, Return, hvac_remove_fd,
       RealClose, AssertFails, Goto, Finish
  <2>2. CASE /\ u = t
             /\ \/ hvac_client_comm_gen_read_rpc(t) \/ hvac_wait_for_operation(t)
                \/ LocalRead(t) \/ Return(t) \/ hvac_remove_fd(t) \/ RealClose(t)
    <3>1. thr'[t].pc \in {"local", "wait", "return", "idle", "close"}
      BY <1>0, <2>2 DEF hvac_client_comm_gen_read_rpc, Forward, ForwardFails,
         hvac_wait_for_operation, LocalRead, Return, hvac_remove_fd, RealClose,
         Goto, Finish, ThreadType, Idle
    <3> QED
      BY <1>1, <2>2, <3>1 DEF OpeningPc
  <2>3. CASE /\ u = t
             /\ \/ hvac_track_file(t) \/ FdMapInserted(t) \/ CheckMercury(t)
                \/ hvac_init_comm(t) \/ hvac_client_comm_register_rpc(t)
                \/ hvac_client_comm_gen_open_rpc(t)
    BY <2>3 DEF hvac_track_file, FdMapInserted, CheckMercury, hvac_init_comm,
       hvac_client_comm_register_rpc, hvac_client_comm_gen_open_rpc, At, OpeningPc
  <2>4. CASE AssertFails(t)
    BY <1>1, <2>4 DEF AssertFails
  <2> QED
    BY <1>3, <2>1, <2>2, <2>3, <2>4 DEF Continue
<1>4. ASSUME NEW f \in Lfd, Callback(f) PROVE thr[u].pc \in OpeningPc
  <2>1. CASE Signal(f)
    <3>1. PICK t \in Thread : /\ thr' = [thr EXCEPT ![t] = thr'[t]]
                              /\ thr'[t].pc = "wait"
      BY <2>1, SignalCalls
    <3> QED
      BY <1>0, <1>1, <3>1 DEF OpeningPc
  <2> QED
    BY <1>1, <1>4, <2>1 DEF Callback, hvac_open_cb, hvac_read_cb, CallbackRuns
<1>5. ASSUME thr' = thr PROVE thr[u].pc \in OpeningPc
  BY <1>1, <1>5
<1>6. ASSUME NEW f, Server(f) \/ ServerCloses(f) PROVE thr' = thr
  BY <1>6 DEF Server, ServerCloses, clientVars
<1>7. ASSUME NEW f, NEW o, fclose(f) \/ lseek(f, o) PROVE thr' = thr
  BY <1>7 DEF fclose, lseek
<1>8. 0 \in -1 .. FileLen
  BY ClientConstants
<1> QED
  BY <1>2, <1>3, <1>4, <1>5, <1>6, <1>7, <1>8 DEF Next, Application

\* opens counts the opens sent: only gen_open_rpc adds to it.
LEMMA OpensCounts ==
  ASSUME Next
  PROVE  \/ opens' = opens
         \/ \E t \in Thread : /\ thr[t].pc = "forward_open" /\ opens' = opens + 1
                              /\ Goto(t, "wait")
<1>1. CASE Application
  BY <1>1 DEF Application, open, read, close, fclose, lseek, callVars
<1>2. ASSUME NEW t \in Thread, Continue(t), ~hvac_client_comm_gen_open_rpc(t)
      PROVE  opens' = opens
  BY <1>2 DEF Continue, hvac_track_file, FdMapInserted, CheckMercury,
     hvac_init_comm, hvac_client_comm_register_rpc,
     hvac_client_comm_gen_read_rpc, hvac_wait_for_operation, LocalRead, Return,
     hvac_remove_fd, RealClose, AssertFails, callVars
<1>3. ASSUME NEW t \in Thread, hvac_client_comm_gen_open_rpc(t)
      PROVE  \/ opens' = opens
             \/ /\ thr[t].pc = "forward_open" /\ opens' = opens + 1
                /\ Goto(t, "wait")
  BY <1>3 DEF hvac_client_comm_gen_open_rpc, At, Forward
<1>4. ASSUME NEW f, Callback(f) PROVE opens' = opens
  BY <1>4 DEF Callback, hvac_open_cb, hvac_read_cb, CallbackRuns, Signal
<1>5. ASSUME NEW f, Server(f) \/ ServerCloses(f) PROVE opens' = opens
  BY <1>5 DEF Server, ServerCloses, clientVars, callVars
<1> QED
  BY <1>1, <1>2, <1>3, <1>4, <1>5 DEF Next

LEMMA NextOpens == BaseTypes /\ CallsInv /\ OpensInv /\ [Next]_vars => OpensInv'
<1> SUFFICES ASSUME BaseTypes, CallsInv, OpensInv, [Next]_vars PROVE OpensInv'
  OBVIOUS
<1>0. /\ thr \in [Thread -> ThreadType] /\ opens \in Nat /\ MaxOpens \in Nat
      /\ IsFiniteSet(Opening) /\ Cardinality(Opening) \in Nat
      /\ opens + Cardinality(Opening) <= MaxOpens
  BY FS_CardinalityType, ClientConstants DEF BaseTypes, CallTypes, RpcTypes, OpensInv
<1>1. ASSUME NEW t \in Thread, NEW p \in Path, open(t, p) PROVE OpensInv'
  <2>1. PICK f \in Lfd : Begin(t, "track", "open", f, 0)
    BY <1>1 DEF open
  <2>2. Opening' = Opening \cup {t} /\ t \notin Opening
    BY <1>0, <2>1 DEF Begin, At, Opening, Idle
  <2>3. IsFiniteSet(Opening') /\ Cardinality(Opening') = Cardinality(Opening) + 1
    BY <1>0, <2>2, FS_AddElement
  <2>4. opens' = opens /\ opens + Cardinality(Opening) < MaxOpens
    BY <1>1 DEF open, callVars
  <2> QED
    BY <1>0, <2>3, <2>4 DEF OpensInv
<1>2. ASSUME Next, ~(\E t \in Thread, p \in Path : open(t, p)) PROVE OpensInv'
  <2>1. Opening' \subseteq Opening
    BY <1>2, OnlyOpenOpens
  <2>2. /\ IsFiniteSet(Opening') /\ Cardinality(Opening') \in Nat
        /\ Cardinality(Opening') <= Cardinality(Opening)
    BY <1>0, <2>1, FS_Subset, FS_CardinalityType
  <2>3. CASE opens' = opens
    BY <1>0, <2>2, <2>3 DEF OpensInv
  <2>4. ASSUME NEW t \in Thread, thr[t].pc = "forward_open", opens' = opens + 1,
               Goto(t, "wait")
        PROVE  OpensInv'
    <3>1. t \in Opening /\ t \notin Opening'
      BY <1>0, <2>4 DEF Opening, Goto, ThreadType
    <3>2. Cardinality(Opening \ {t}) = Cardinality(Opening) - 1
      BY <1>0, <3>1, FS_RemoveElement
    <3>3. IsFiniteSet(Opening \ {t}) /\ Opening' \subseteq Opening \ {t}
      BY <1>0, <2>1, <3>1, FS_Subset
    <3>4. Cardinality(Opening') <= Cardinality(Opening \ {t})
      BY <3>3, FS_Subset
    <3> QED
      BY <1>0, <2>2, <2>4, <3>2, <3>4 DEF OpensInv
  <2> QED
    BY <1>2, <2>3, <2>4, OpensCounts
<1>3. CASE UNCHANGED vars
  BY <1>3 DEF vars, clientVars, callVars, OpensInv, Opening
<1> QED
  BY <1>1, <1>2, <1>3

LEMMA InitOpens == Init => OpensInv
<1> SUFFICES ASSUME Init PROVE OpensInv
  OBVIOUS
<1>1. Opening = {}
  BY DEF Init, Opening, Idle
<1> QED
  BY <1>1, FS_EmptySet, ClientConstants DEF Init, OpensInv

-----------------------------------------------------------------------------
(* The tracking maps and the kernel's table.                               *)

\* A step that concerns one descriptor f (None: no descriptor).
LEMMA TidyStep ==
  ASSUME BaseTypes, CallsInv, TidyInv, NEW f \in Lfd \cup {None},
         \A g \in Lfd \ {f} : /\ lfile'[g].path = lfile[g].path
                              /\ fd_map'[g] = fd_map[g] /\ cb'[g] = cb[g]
                              /\ fd_redir_map'[g] = fd_redir_map[g]
                              /\ fd_state_map'[g] = fd_state_map[g]
                              /\ fd_redir_map[g] # 0
                                   => remote'[fd_redir_map[g]].path
                                        = remote[fd_redir_map[g]].path,
         f \in Lfd => MapsAgree(f)',
         \A u \in Thread : thr'[u] # thr[u] \/ (f # None /\ thr[u].fd = f)
                             => TidyThread(u)'
  PROVE  TidyInv'
<1>1. ASSUME NEW g \in Lfd PROVE MapsAgree(g)'
  <2>1. CASE g = f
    BY <2>1
  <2>2. CASE g # f
    BY <2>2 DEF TidyInv, MapsAgree
  <2> QED
    BY <2>1, <2>2
<1>2. ASSUME NEW u \in Thread PROVE TidyThread(u)'
  <2>1. ThreadInv(u) /\ TidyThread(u) /\ thr[u].fd \in Lfd \cup {None}
    BY DEF CallsInv, TidyInv, BaseTypes, CallTypes, ThreadType
  <2>2. CASE thr'[u] = thr[u] /\ thr[u].fd = None
    BY <2>1, <2>2 DEF ThreadInv, TidyThread, OpeningPc
  <2>3. CASE thr'[u] = thr[u] /\ thr[u].fd # None /\ thr[u].fd # f
    <3>1. thr[u].fd \in Lfd \ {f}
      BY <2>1, <2>3
    <3> QED
      BY <2>1, <2>3, <3>1 DEF TidyThread, OpeningPc
  <2>4. CASE thr'[u] # thr[u] \/ (f # None /\ thr[u].fd = f)
    BY <2>4
  <2> QED
    BY <2>2, <2>3, <2>4
<1> QED
  BY <1>1, <1>2 DEF TidyInv

\* What the step of a thread leaves alone: the other threads, which are on
\* other descriptors.
LEMMA Others ==
  ASSUME BaseTypes, CallsInv, NEW t \in Thread, NEW r, NEW f \in Lfd,
         thr' = [thr EXCEPT ![t] = r],
         thr[t].fd = f \/ \A u \in Thread : thr[u].fd # f
  PROVE  /\ thr'[t] = r
         /\ \A u \in Thread : u # t => thr'[u] = thr[u] /\ thr[u].fd # f
BY ClientConstants DEF CallsInv, OneCall, BaseTypes, CallTypes

\* The same for a step that moves a thread to pc.
LEMMA OthersGo ==
  ASSUME BaseTypes, CallsInv, NEW t \in Thread, NEW pc \in Pc, thr[t].pc # "idle",
         NEW out \in S!RpcOut,
         \/ Goto(t, pc) /\ out = thr[t].out
         \/ thr' = [thr EXCEPT ![t].pc = pc, ![t].out = out]
  PROVE  /\ thr'[t].pc = pc /\ thr'[t].op = thr[t].op /\ thr'[t].fd = thr[t].fd
         /\ thr'[t].off = thr[t].off /\ thr'[t].done = thr[t].done
         /\ thr'[t].out = out
         /\ \A u \in Thread : u # t => thr'[u] = thr[u] /\ thr[u].fd # thr[t].fd
<1>1. thr[t].fd \in Lfd
  BY InCall
<1>2. /\ thr' = [thr EXCEPT ![t] = thr'[t]]
      /\ thr'[t].pc = pc /\ thr'[t].op = thr[t].op /\ thr'[t].fd = thr[t].fd
      /\ thr'[t].off = thr[t].off /\ thr'[t].done = thr[t].done
      /\ thr'[t].out = out
  BY Goes
<1>3. \A u \in Thread : u # t => thr[u].fd # thr[t].fd
  BY <1>1, ClientConstants DEF CallsInv, OneCall
<1>4. \A u \in Thread : u # t => thr'[u] = thr[u]
  BY <1>2 DEF BaseTypes, CallTypes
<1> QED
  BY <1>2, <1>3, <1>4

\* The same for a thread that only goes on.
LEMMA OthersGoOn ==
  ASSUME BaseTypes, CallsInv, NEW t \in Thread, NEW pc \in Pc, thr[t].pc # "idle",
         Goto(t, pc)
  PROVE  /\ thr'[t].pc = pc /\ thr'[t].op = thr[t].op /\ thr'[t].fd = thr[t].fd
         /\ thr'[t].off = thr[t].off /\ thr'[t].done = thr[t].done
         /\ thr'[t].out = thr[t].out
         /\ \A u \in Thread : u # t => thr'[u] = thr[u] /\ thr[u].fd # thr[t].fd
<1>1. thr[t].fd \in Lfd
  BY InCall
<1>2. /\ thr' = [thr EXCEPT ![t] = thr'[t]]
      /\ thr'[t].pc = pc /\ thr'[t].op = thr[t].op /\ thr'[t].fd = thr[t].fd
      /\ thr'[t].off = thr[t].off /\ thr'[t].done = thr[t].done
      /\ thr'[t].out = thr[t].out
  BY GoesOn
<1>3. \A u \in Thread : u # t => thr[u].fd # thr[t].fd
  BY <1>1, ClientConstants DEF CallsInv, OneCall
<1>4. \A u \in Thread : u # t => thr'[u] = thr[u]
  BY <1>2 DEF BaseTypes, CallTypes
<1> QED
  BY <1>2, <1>3, <1>4

\* Threads that only move on, without touching a map.
LEMMA TidyQuiet ==
  ASSUME BaseTypes, CallsInv, TidyInv, NEW t \in Thread, NEW f \in Lfd,
         UNCHANGED <<fd_map, fd_redir_map, fd_state_map, remote, cb>>,
         \A g \in Lfd : lfile'[g].path = lfile[g].path,
         \A u \in Thread : u # t => thr'[u] = thr[u] /\ thr[u].fd # f,
         TidyThread(t)'
  PROVE  TidyInv'
<1>1. MapsAgree(f)'
  BY DEF TidyInv, MapsAgree
<1> QED
  BY <1>1, TidyStep

LEMMA openTidy ==
  ASSUME BaseTypes, CallsInv, TidyInv, NEW t \in Thread, NEW p \in Path, open(t, p)
  PROVE  TidyInv'
<1>1. PICK f \in Lfd :
        /\ Begin(t, "track", "open", f, 0) /\ lfile[f].path = NoPath
        /\ lfile' = [lfile EXCEPT ![f] = [path |-> p, off |-> 0]]
  BY DEF open
<1>2. UNCHANGED <<fd_map, fd_redir_map, fd_state_map, remote, cb>>
  BY DEF open, mapVars, callVars
<1>3. MapsAgree(f)' /\ fd_map[f] = NoPath /\ fd_redir_map[f] = 0
  BY <1>1, <1>2 DEF TidyInv, MapsAgree
<1>4. thr'[t].pc = "track" /\ thr'[t].op = "open" /\ thr'[t].fd = f
  BY <1>1 DEF Begin, Idle, BaseTypes, CallTypes
<1>5. \A u \in Thread : u # t => thr'[u] = thr[u] /\ thr[u].fd # f
  BY <1>1, Others DEF Begin
<1>6. TidyThread(t)'
  BY <1>2, <1>3, <1>4 DEF TidyThread, OpeningPc
<1>7. \A g \in Lfd \ {f} : lfile'[g] = lfile[g]
  BY <1>1 DEF BaseTypes, MapTypes
<1> QED
  BY <1>2, <1>3, <1>5, <1>6, <1>7, TidyStep

\* Without a race, a lookup finds what is there.
LEMMA FindFinds ==
  ASSUME Tidy, NEW f PROVE Find(f) = {fd_map[f]}
BY DEF Tidy, Find

LEMMA readcloseTidy ==
  ASSUME Tidy, BaseTypes, CallsInv, TidyInv, NEW t \in Thread, NEW f \in Lfd,
         NEW o \in -1 .. FileLen, read(t, f, o) \/ close(t, f)
  PROVE  TidyInv'
<1>1. PICK pc \in {"forward_read", "local", "untrack", "close"},
           op \in {"read", "close"}, q \in {o, 0} :
        /\ Begin(t, pc, op, f, q)
        /\ pc = "close" => fd_map[f] = NoPath
  <2>1. CASE read(t, f, o)
    BY <2>1 DEF read
  <2>2. CASE close(t, f)
    BY <2>2, FindFinds DEF close
  <2> QED
    BY <2>1, <2>2
<1>2. UNCHANGED <<lfile, fd_map, fd_redir_map, fd_state_map, remote, cb>>
  BY DEF read, close, mapVars, callVars
<1>3. thr'[t].pc = pc /\ thr'[t].op = op /\ thr'[t].fd = f
  BY <1>1 DEF Begin, Idle, BaseTypes, CallTypes
<1>4. \A u \in Thread : u # t => thr'[u] = thr[u] /\ thr[u].fd # f
  BY <1>1, Others DEF Begin
<1>5. TidyThread(t)'
  BY <1>1, <1>2, <1>3 DEF TidyThread, OpeningPc
<1> QED
  BY <1>2, <1>4, <1>5, TidyQuiet

LEMMA QuietTidy ==
  ASSUME BaseTypes, CallsInv, TidyInv, NEW t \in Thread,
         \/ hvac_track_file(t) \/ CheckMercury(t) \/ hvac_init_comm(t)
         \/ hvac_client_comm_register_rpc(t) \/ hvac_wait_for_operation(t)
         \/ LocalRead(t) \/ hvac_client_comm_gen_read_rpc(t)
  PROVE  TidyInv'
<1>1. thr[t].pc # "idle"
  BY DEF hvac_track_file, CheckMercury, hvac_init_comm,
     hvac_client_comm_register_rpc, hvac_wait_for_operation, LocalRead,
     hvac_client_comm_gen_read_rpc, At
<1>2. PICK f \in Lfd : f = thr[t].fd
  BY <1>1, InCall
<1>3. ThreadInv(t) /\ TidyThread(t) /\ thr[t].out \in S!RpcOut
  BY <1>1, InCall DEF TidyInv
<1>4. UNCHANGED <<fd_map, fd_redir_map, fd_state_map, remote, cb>>
  BY DEF hvac_track_file, CheckMercury, hvac_init_comm,
     hvac_client_comm_register_rpc, hvac_wait_for_operation, LocalRead,
     hvac_client_comm_gen_read_rpc, Forward, ForwardFails, mapVars, callVars
<1>5. \A g \in Lfd : lfile'[g].path = lfile[g].path
  <2>1. CASE LocalRead(t)
    BY <2>1, LocalReadCalls
  <2> QED
    BY <2>1 DEF hvac_track_file, CheckMercury, hvac_init_comm,
       hvac_client_comm_register_rpc, hvac_wait_for_operation,
       hvac_client_comm_gen_read_rpc
<1>6. PICK pc \in Pc, out \in S!RpcOut :
        /\ \/ Goto(t, pc) /\ out = thr[t].out
           \/ thr' = [thr EXCEPT ![t].pc = pc, ![t].out = out]
        /\ \/ pc = "inserting" /\ thr[t].pc = "track"
           \/ /\ pc \in {"forward_open", "init", "register"}
              /\ thr[t].pc \in OpeningPc
           \/ pc \in {"local", "return"}
           \/ pc = "wait" /\ thr[t].pc = "forward_read"
  <2>1. CASE LocalRead(t)
    <3>1. "return" \in Pc /\ thr' \in [Thread -> ThreadType]
      BY <2>1, LocalReadCalls DEF BaseTypes, CallTypes, Pc
    <3>2. thr'[t].out \in S!RpcOut
      BY <3>1 DEF ThreadType
    <3>3. thr' = [thr EXCEPT ![t].pc = "return", ![t].out = thr'[t].out]
      BY <2>1 DEF LocalRead, Finish, BaseTypes, CallTypes, ThreadType
    <3> QED
      BY <3>1, <3>2, <3>3
  <2>2. CASE \/ hvac_track_file(t) \/ CheckMercury(t) \/ hvac_init_comm(t)
             \/ hvac_client_comm_register_rpc(t) \/ hvac_wait_for_operation(t)
    BY <1>3, <2>2, Messages DEF hvac_track_file, CheckMercury, hvac_init_comm,
       hvac_client_comm_register_rpc, hvac_wait_for_operation, At, Finish, Pc,
       OpeningPc
  <2>3. CASE hvac_client_comm_gen_read_rpc(t)
    <3>1. S!Rsp("open", -1, S!NoData) \in S!RpcOut
      BY OpenAnswer
    <3> QED
      BY <1>3, <2>3, <3>1 DEF hvac_client_comm_gen_read_rpc, At, Forward,
         ForwardFails, Pc
  <2> QED
    BY <2>1, <2>2, <2>3
<1>7. /\ thr'[t].pc = pc /\ thr'[t].op = thr[t].op /\ thr'[t].fd = f
      /\ \A u \in Thread : u # t => thr'[u] = thr[u] /\ thr[u].fd # f
  BY <1>1, <1>2, <1>6, OthersGo
<1>8. TidyThread(t)'
  BY <1>2, <1>3, <1>4, <1>6, <1>7 DEF TidyThread, ThreadInv, OpeningPc
<1> QED
  BY <1>4, <1>5, <1>7, <1>8, TidyQuiet

\* fd_map[fd] = path is what the kernel's table says.
LEMMA FdMapInsertedTidy ==
  ASSUME BaseTypes, CallsInv, TidyInv, NEW t \in Thread, FdMapInserted(t)
  PROVE  TidyInv'
<1>1. thr[t].pc = "inserting" /\ "tracked" \in Pc /\ Goto(t, "tracked")
  BY DEF FdMapInserted, At, Pc
<1>2. PICK f \in Lfd : f = thr[t].fd
  BY <1>1, InCall
<1>3. ThreadInv(t) /\ TidyThread(t) /\ thr[t].out \in S!RpcOut /\ MapsAgree(f)
  BY <1>1, InCall DEF TidyInv
<1>4. /\ fd_map' = [fd_map EXCEPT ![f] = lfile[f].path]
      /\ UNCHANGED <<lfile, fd_redir_map, fd_state_map, remote, cb>>
      /\ fd_map \in [Lfd -> Path \cup {NoPath}]
  BY <1>2 DEF FdMapInserted, callVars, BaseTypes, MapTypes
<1>5. lfile[f].path \in Path /\ fd_redir_map[f] = 0
  BY <1>1, <1>2, <1>3 DEF ThreadInv, TidyThread, OpeningPc
<1>6. MapsAgree(f)'
  BY <1>4, <1>5, ClientConstants DEF MapsAgree
<1>7. /\ thr'[t].pc = "tracked" /\ thr'[t].op = thr[t].op /\ thr'[t].fd = f
      /\ \A u \in Thread : u # t => thr'[u] = thr[u] /\ thr[u].fd # f
  BY <1>1, <1>2, OthersGoOn
<1>8. TidyThread(t)'
  BY <1>4, <1>5, <1>7 DEF TidyThread, OpeningPc
<1>9. \A g \in Lfd \ {f} : fd_map'[g] = fd_map[g]
  BY <1>4
<1> QED
  BY <1>4, <1>6, <1>7, <1>8, <1>9, TidyStep

\* An open that is sent, or refused, has no mapping yet.
LEMMA hvac_client_comm_gen_open_rpcTidy ==
  ASSUME BaseTypes, CallsInv, TidyInv, NEW t \in Thread,
         hvac_client_comm_gen_open_rpc(t)
  PROVE  TidyInv'
<1>1. thr[t].pc = "forward_open"
  BY DEF hvac_client_comm_gen_open_rpc, At
<1>2. PICK f \in Lfd : f = thr[t].fd
  BY <1>1, InCall
<1>3. ThreadInv(t) /\ TidyThread(t) /\ thr[t].out \in S!RpcOut /\ MapsAgree(f)
  BY <1>1, InCall DEF TidyInv
<1>4. UNCHANGED <<lfile, fd_map, fd_redir_map, remote, cb>>
  BY DEF hvac_client_comm_gen_open_rpc, Forward, ForwardFails
<1>5. PICK st \in {"opening", "error"} :
         fd_state_map' = [fd_state_map EXCEPT ![f] = st]
  BY <1>2 DEF hvac_client_comm_gen_open_rpc
<1>6. PICK pc \in {"wait", "return"}, out \in S!RpcOut :
         \/ Goto(t, pc) /\ out = thr[t].out
         \/ thr' = [thr EXCEPT ![t].pc = pc, ![t].out = out]
  <2>1. S!Rsp("open", -1, S!NoData) \in S!RpcOut
    BY OpenAnswer
  <2> QED
    BY <1>3, <2>1 DEF hvac_client_comm_gen_open_rpc, Forward, ForwardFails
<1>7. pc \in Pc
  BY DEF Pc
<1>8. fd_map[f] \in Path /\ fd_redir_map[f] = 0
  BY <1>1, <1>2, <1>3 DEF ThreadInv, TidyThread, OpeningPc
<1>9. MapsAgree(f)'
  BY <1>3, <1>4, <1>8, ClientConstants DEF MapsAgree
<1>10. /\ thr'[t].pc = pc /\ thr'[t].op = thr[t].op /\ thr'[t].fd = f
       /\ \A u \in Thread : u # t => thr'[u] = thr[u] /\ thr[u].fd # f
  BY <1>1, <1>2, <1>6, <1>7, OthersGo
<1>11. TidyThread(t)'
  BY <1>4, <1>8, <1>10 DEF TidyThread, OpeningPc
<1>12. \A g \in Lfd \ {f} : fd_state_map'[g] = fd_state_map[g]
  BY <1>5 DEF BaseTypes, MapTypes
<1> QED
  BY <1>4, <1>9, <1>10, <1>11, <1>12, TidyStep

\* hvac_remove_fd forgets the descriptor in all three maps.
LEMMA hvac_remove_fdTidy ==
  ASSUME BaseTypes, CallsInv, TidyInv, NEW t \in Thread, hvac_remove_fd(t)
  PROVE  TidyInv'
<1>1. thr[t].pc = "untrack" /\ "close" \in Pc /\ Goto(t, "close")
  BY DEF hvac_remove_fd, At, Pc
<1>2. PICK f \in Lfd : f = thr[t].fd
  BY <1>1, InCall
<1>3. thr[t].out \in S!RpcOut
  BY <1>1, InCall
<1>4. /\ fd_map' = [fd_map EXCEPT ![f] = NoPath]
      /\ fd_redir_map' = [fd_redir_map EXCEPT ![f] = 0]
      /\ fd_state_map' = [fd_state_map EXCEPT ![f] = "none"]
      /\ UNCHANGED <<lfile, remote, cb>>
  BY <1>2 DEF hvac_remove_fd, hvac_client_comm_gen_close_rpc, callVars
<1>5. /\ fd_map'[f] = NoPath /\ fd_redir_map'[f] = 0 /\ fd_state_map'[f] = "none"
      /\ \A g \in Lfd \ {f} : /\ fd_map'[g] = fd_map[g]
                              /\ fd_redir_map'[g] = fd_redir_map[g]
                              /\ fd_state_map'[g] = fd_state_map[g]
  BY <1>4 DEF BaseTypes, MapTypes
<1>6. MapsAgree(f)'
  BY <1>5 DEF MapsAgree
<1>7. /\ thr'[t].pc = "close" /\ thr'[t].op = thr[t].op /\ thr'[t].fd = f
      /\ \A u \in Thread : u # t => thr'[u] = thr[u] /\ thr[u].fd # f
  BY <1>1, <1>2, OthersGoOn
<1>8. TidyThread(t)'
  BY <1>5, <1>7 DEF TidyThread, OpeningPc
<1> QED
  BY <1>4, <1>5, <1>6, <1>7, <1>8, TidyStep

\* __real_close, when nothing tracks the descriptor any more.
LEMMA EndTidy ==
  ASSUME BaseTypes, CallsInv, TidyInv, NEW t \in Thread, Return(t) \/ RealClose(t)
  PROVE  TidyInv'
<1>1. thr[t].pc \in {"return", "close"} /\ thr' = [thr EXCEPT ![t] = Idle]
  BY DEF Return, RealClose, At
<1>2. PICK f \in Lfd : f = thr[t].fd
  BY <1>1, InCall
<1>3. UNCHANGED <<fd_map, fd_redir_map, fd_state_map, remote, cb>>
  BY DEF Return, RealClose, mapVars, callVars
<1>4. thr'[t] = Idle /\ \A u \in Thread : u # t => thr'[u] = thr[u] /\ thr[u].fd # f
  BY <1>1, <1>2, ClientConstants DEF CallsInv, OneCall, BaseTypes, CallTypes
<1>5. TidyThread(t)'
  BY <1>4 DEF TidyThread, OpeningPc, Idle
<1>6. CASE Return(t)
  BY <1>3, <1>4, <1>5, <1>6, TidyQuiet DEF Return
<1>7. CASE RealClose(t)
  <2>1. lfile' = [lfile EXCEPT ![f] = Unlinked] /\ fd_map[f] = NoPath
    BY <1>2, <1>7 DEF RealClose, At, TidyInv, TidyThread
  <2>2. MapsAgree(f)'
    BY <1>3, <2>1 DEF TidyInv, MapsAgree
  <2>3. \A g \in Lfd \ {f} : lfile'[g] = lfile[g]
    BY <2>1 DEF BaseTypes, MapTypes
  <2> QED
    BY <1>3, <1>4, <1>5, <2>2, <2>3, TidyStep
<1> QED
  BY <1>6, <1>7

\* A callback: the state and the mapping are set together, for the file that
\* fd_map names.
LEMMA CallbackTidy ==
  ASSUME BaseTypes, CallsInv, RemoteInv, TidyInv, NEW f \in Lfd,
         hvac_open_cb(f) \/ hvac_read_cb(f)
  PROVE  TidyInv'
<1>1. /\ rsp[f] # NoRsp /\ cb' = [cb EXCEPT ![f] = rsp[f]]
      /\ UNCHANGED <<lfile, fd_map, thr, remote>>
  BY DEF hvac_open_cb, hvac_read_cb, CallbackRuns
<1>2. PICK t \in Thread :
           /\ thr[t].pc = "wait" /\ thr[t].fd = f /\ ~thr[t].done
           /\ thr[t].op = "open" => fd_map[f] \in Path
           /\ Answered(f, t)
  BY <1>1, Waiter
<1>3. \A u \in Thread : u # t => thr[u].fd # f
  BY <1>2, ClientConstants DEF CallsInv, OneCall
<1>4. cb'[f] # NoRsp /\ \A g \in Lfd \ {f} : cb'[g] = cb[g]
  BY <1>1 DEF BaseTypes, CallTypes
<1>5. TidyThread(t)'
  BY <1>1, <1>2, <1>4 DEF TidyThread, OpeningPc
<1>6. /\ \A g \in Lfd \ {f} : /\ fd_redir_map'[g] = fd_redir_map[g]
                              /\ fd_state_map'[g] = fd_state_map[g]
      /\ MapsAgree(f)'
  <2>0. MapsAgree(f) /\ TidyThread(t)
    BY DEF TidyInv
  <2>1. CASE hvac_read_cb(f)
    BY <1>1, <2>0, <2>1 DEF hvac_read_cb, MapsAgree
  <2>2. CASE hvac_open_cb(f) /\ rsp[f].ret > 0
    <3>1. /\ fd_redir_map' = [fd_redir_map EXCEPT ![f] = rsp[f].ret]
          /\ fd_state_map' = [fd_state_map EXCEPT ![f] = "ready"]
          /\ rsp[f].op = "open"
      BY <2>2 DEF hvac_open_cb
    <3>2. fd_map[f] \in Path
      BY <1>2, <3>1 DEF Answered
    <3>3. remote[rsp[f].ret].path = fd_map[f]
      <4>1. Got(f) = rsp[f].ret /\ rsp[f].ret \in Int
        BY <2>2, <3>1 DEF Got, BaseTypes, RpcTypes, S!RpcOut
      <4>2. Got(f) # 0
        BY <2>2, <4>1
      <4> QED
        BY <4>1, <4>2 DEF RemoteInv
    <3>4. /\ fd_redir_map'[f] = rsp[f].ret /\ fd_state_map'[f] = "ready"
          /\ \A g \in Lfd \ {f} : /\ fd_redir_map'[g] = fd_redir_map[g]
                                  /\ fd_state_map'[g] = fd_state_map[g]
      BY <3>1 DEF BaseTypes, MapTypes
    <3>5. MapsAgree(f)'
      BY <1>1, <2>0, <3>2, <3>3, <3>4, ClientConstants DEF MapsAgree
    <3> QED
      BY <3>4, <3>5
  <2>3. CASE hvac_open_cb(f) /\ ~(rsp[f].ret > 0)
    <3>1. /\ fd_redir_map' = fd_redir_map /\ rsp[f].op = "open"
          /\ fd_state_map' = [fd_state_map EXCEPT ![f] = "error"]
      BY <2>3 DEF hvac_open_cb
    <3>2. fd_map[f] \in Path /\ thr[t].op = "open" /\ cb[f] = NoRsp
      BY <1>2, <3>1 DEF Answered
    <3>3. fd_redir_map[f] = 0
      BY <1>2, <2>0, <3>2 DEF TidyThread
    <3>4. MapsAgree(f)'
      BY <1>1, <2>0, <3>1, <3>2, <3>3, ClientConstants DEF MapsAgree
    <3> QED
      BY <3>1, <3>4 DEF BaseTypes, MapTypes
  <2> QED
    BY <2>1, <2>2, <2>3
<1> QED
  BY <1>1, <1>3, <1>4, <1>5, <1>6, TidyStep

LEMMA SignalTidy ==
  ASSUME BaseTypes, CallsInv, TidyInv, NEW f \in Lfd, Signal(f)
  PROVE  TidyInv'
<1>1. PICK t \in Thread : /\ thr[t].fd = f /\ thr' = [thr EXCEPT ![t] = thr'[t]]
                          /\ thr'[t].pc = "wait" /\ thr'[t].done
  BY SignalCalls
<1>2. /\ cb' = [cb EXCEPT ![f] = NoRsp]
      /\ UNCHANGED <<lfile, fd_map, fd_redir_map, fd_state_map, remote>>
  BY DEF Signal, mapVars
<1>3. TidyThread(t)'
  BY <1>1 DEF TidyThread, OpeningPc
<1>4. \A u \in Thread : u # t => thr'[u] = thr[u] /\ thr[u].fd # f
  BY <1>1, ClientConstants DEF CallsInv, OneCall, BaseTypes, CallTypes
<1>5. MapsAgree(f)' /\ \A g \in Lfd \ {f} : cb'[g] = cb[g]
  BY <1>2 DEF TidyInv, MapsAgree, BaseTypes, CallTypes
<1> QED
  BY <1>2, <1>3, <1>4, <1>5, TidyStep

\* The server does not change the file of a descriptor somebody holds.
LEMMA ServerTidy ==
  ASSUME BaseTypes, CallsInv, RemoteInv, TidyInv,
         \/ \E f \in Lfd : Server(f)
         \/ \E d \in Fd : ServerCloses(d)
  PROVE  TidyInv'
<1>1. UNCHANGED <<thr, lfile, fd_map, fd_redir_map, fd_state_map, cb>>
  BY DEF Server, ServerCloses, clientVars, mapVars, callVars
<1>2. remote \in [Fd -> FileType]
  BY DEF BaseTypes, RpcTypes
<1>3. \A d : Live(d) => remote'[d].path = remote[d].path
  <2>1. ASSUME NEW f \in Lfd, Server(f), NEW d, Live(d)
        PROVE  remote'[d].path = remote[d].path
    <3>1. PICK t \in Thread, r \in S!RpcOut :
             AnswersOpen(f, t, r) \/ AnswersRead(f, t, r)
      BY <2>1, ServerAnswers
    <3>2. d \in Fd /\ remote[d].path \in Path
      BY <2>1 DEF Live
    <3>3. CASE AnswersOpen(f, t, r)
      BY <1>2, <3>2, <3>3, ClientConstants DEF AnswersOpen
    <3>4. CASE AnswersRead(f, t, r)
      BY <1>2, <3>2, <3>4 DEF AnswersRead
    <3> QED
      BY <3>1, <3>3, <3>4
  <2>2. ASSUME NEW e \in Fd, ServerCloses(e), NEW d, Live(d)
        PROVE  remote'[d].path = remote[d].path
    BY <1>2, <2>2 DEF ServerCloses, S!ServeClose, Live
  <2> QED
    BY <2>1, <2>2
<1>4. \A g \in Lfd : fd_redir_map[g] # 0 => Live(fd_redir_map[g])
  BY DEF RemoteInv
<1> QED
  BY <1>1, <1>3, <1>4, TidyStep, ClientConstants

LEMMA NextTidy ==
  ASSUME Tidy
  PROVE  BaseTypes /\ CallsInv /\ RemoteInv /\ TidyInv /\ [Next]_vars => TidyInv'
<1> SUFFICES ASSUME BaseTypes, CallsInv, RemoteInv, TidyInv, [Next]_vars
             PROVE  TidyInv'
  OBVIOUS
<1>1. CASE Application
  <2>1. 0 \in -1 .. FileLen
    BY ClientConstants
  <2>2. ASSUME NEW f \in Lfd, fclose(f) PROVE TidyInv'
    BY <2>2 DEF fclose, Tidy
  <2>3. ASSUME NEW f \in Lfd, NEW o \in 0 .. FileLen, lseek(f, o) PROVE TidyInv'
    <3>1. /\ lfile' = [lfile EXCEPT ![f].off = o] /\ lfile \in [Lfd -> FileType]
          /\ UNCHANGED <<thr, fd_map, fd_redir_map, fd_state_map, remote, cb>>
      BY <2>3 DEF lseek, mapVars, callVars, BaseTypes, MapTypes
    <3>2. \A g \in Lfd : lfile'[g].path = lfile[g].path
      BY <3>1 DEF FileType
    <3> QED
      BY <3>1, <3>2, TidyStep, ClientConstants
  <2> QED
    BY <1>1, <2>1, <2>2, <2>3, openTidy, readcloseTidy DEF Application
<1>2. ASSUME NEW t \in Thread, Continue(t) PROVE TidyInv'
  <2>1. CASE AssertFails(t)
    <3>1. UNCHANGED <<thr, lfile, fd_map, fd_redir_map, fd_state_map, remote, cb>>
      BY <2>1 DEF AssertFails, mapVars, callVars
    <3> QED
      BY <3>1, TidyStep, ClientConstants
  <2> QED
    BY <1>2, <2>1, QuietTidy, FdMapInsertedTidy, hvac_remove_fdTidy, EndTidy,
       hvac_client_comm_gen_open_rpcTidy DEF Continue
<1>3. ASSUME NEW f \in Lfd, Callback(f) \/ Server(f) PROVE TidyInv'
  BY <1>3, CallbackTidy, SignalTidy, ServerTidy DEF Callback
<1>4. ASSUME NEW d \in Fd, ServerCloses(d) PROVE TidyInv'
  BY <1>4, ServerTidy
<1>5. CASE UNCHANGED vars
  <2>1. UNCHANGED <<thr, lfile, fd_map, fd_redir_map, fd_state_map, remote, cb>>
    BY <1>5 DEF vars, clientVars, mapVars, callVars
  <2> QED
    BY <2>1, TidyStep, ClientConstants
<1> QED
  BY <1>1, <1>2, <1>3, <1>4, <1>5 DEF Next

LEMMA InitTidy == Init => TidyInv
BY DEF Init, TidyInv, MapsAgree, TidyThread, OpeningPc, Idle

\* The layers that hold when nothing goes behind the library's back.
TidyIInv == BaseTypes /\ CallsInv /\ RemoteInv /\ OpensInv /\ TidyInv

LEMMA InitTidyIInv == Init => TidyIInv
BY InitCalls, InitRemote, InitOpens, InitTidy DEF TidyIInv

LEMMA NextTidyIInv ==
  ASSUME Tidy
  PROVE  TidyIInv /\ [Next]_vars => TidyIInv'
BY NextCalls, NextRemote, NextOpens, NextTidy DEF TidyIInv

LEMMA TidyInvariance ==
  ASSUME Tidy
  PROVE  Spec => []TidyIInv
BY InitTidyIInv, NextTidyIInv, PTL DEF Spec

\* When lookups do not race and no descriptor is closed behind the library's
\* back, a descriptor the kernel may hand out again is not in fd_map, has no
\* remote descriptor and no state, and fd_map names the file that is open,
\* even when HG_Forward fails, for an open, a read or a close.
THEOREM NoStale ==
  ASSUME Tidy
  PROVE  Spec => []NoStaleTracking
<1>1. TidyIInv => NoStaleTracking
  BY ClientConstants DEF TidyIInv, TidyInv, MapsAgree, NoStaleTracking, BaseTypes,
     MapTypes
<1> QED
  BY <1>1, TidyInvariance, PTL

-----------------------------------------------------------------------------
(* What reads return.                                                      *)

\* A step that concerns one descriptor f (None: no descriptor), and the
\* thread that uses it.
LEMMA ReadsStep ==
  ASSUME BaseTypes, CallsInv, ReadsInv, NEW f \in Lfd \cup {None},
         \A g \in Lfd \ {f} : /\ lfile'[g] = lfile[g] /\ pos'[g] = pos[g]
                              /\ fd_redir_map'[g] = fd_redir_map[g]
                              /\ cb'[g] = cb[g] /\ rsp'[g] = rsp[g]
                              /\ g \in app' <=> g \in app
                              /\ fd_redir_map[g] # 0
                                   => remote'[fd_redir_map[g]]
                                        = remote[fd_redir_map[g]],
         f \in Lfd /\ Unused(f)' => RealOff(f)' = pos'[f],
         \A u \in Thread : thr'[u] # thr[u] => thr[u].fd \in {f, None},
         \A u \in Thread : thr'[u] # thr[u] \/ (f # None /\ thr[u].fd = f)
                             => ReadInv(u)'
  PROVE  ReadsInv'
<1>0. \A u \in Thread : thr[u].fd \in Lfd \cup {None}
  BY DEF BaseTypes, CallTypes, ThreadType
<1>1. \A g \in Lfd \ {f} : RealOff(g)' = RealOff(g)
  BY DEF RealOff
<1>2. ASSUME NEW u \in Thread PROVE ReadInv(u)'
  <2>1. ThreadInv(u) /\ ReadInv(u)
    BY DEF CallsInv, ReadsInv
  <2>2. CASE thr'[u] = thr[u] /\ thr[u].fd = None
    <3>1. thr[u].op = "none" /\ thr[u].pc = "idle"
      BY <2>1, <2>2 DEF ThreadInv
    <3> QED
      BY <2>2, <3>1 DEF ReadInv, Reading
  <2>3. CASE thr'[u] = thr[u] /\ thr[u].fd # None /\ thr[u].fd # f
    <3>1. PICK g \in Lfd \ {f} : g = thr[u].fd
      BY <1>0, <2>3
    <3>2. Reply(u)' = Reply(u) /\ Reading(u)' = Reading(u)
      BY <2>3, <3>1 DEF Reply, Reading
    <3>3. Moved(u)' = Moved(u) /\ Expected(u)' = Expected(u)
      BY <2>3, <3>1, <3>2 DEF Moved, Expected
    <3> QED
      BY <1>1, <2>1, <2>3, <3>1, <3>2, <3>3 DEF ReadInv
  <2>4. CASE thr'[u] # thr[u] \/ (f # None /\ thr[u].fd = f)
    BY <2>4
  <2> QED
    BY <2>2, <2>3, <2>4
<1>3. ASSUME NEW g \in Lfd, Unused(g)' PROVE RealOff(g)' = pos'[g]
  <2>1. CASE g = f
    BY <1>3, <2>1
  <2>2. CASE g # f
    <3>1. Unused(g)
      BY <1>3, <2>2, ClientConstants DEF Unused
    <3> QED
      BY <1>1, <2>2, <3>1 DEF ReadsInv
  <2> QED
    BY <2>1, <2>2
<1> QED
  BY <1>2, <1>3 DEF ReadsInv

\* A thread inside open() that moves on: nothing has been read.
LEMMA OpenMovesReads ==
  ASSUME BaseTypes, CallsInv, ReadsInv, NEW t \in Thread, NEW f \in Lfd,
         thr[t].fd = f, thr[t].op = "open", thr'[t].op = "open", thr'[t].fd = f,
         thr'[t].pc # "local",
         \A u \in Thread : u # t => thr'[u] = thr[u] /\ thr[u].fd # f,
         UNCHANGED <<lfile, fd_redir_map, pos, cb, rsp, app, remote>>
  PROVE  ReadsInv'
<1>1. ReadInv(t) /\ Moved(t) = 0
  BY DEF ReadsInv, Moved, Reading
<1>2. ~Reading(t)' /\ Moved(t)' = 0 /\ RealOff(f)' = RealOff(f)
  BY DEF Moved, Reading, RealOff
<1>3. ReadInv(t)'
  BY <1>1, <1>2 DEF ReadInv
<1>4. ~Unused(f)'
  BY DEF Unused
<1> QED
  BY <1>3, <1>4, ReadsStep

\* The steps of open() that only move the thread on.
LEMMA OpeningReads ==
  ASSUME Exact, BaseTypes, CallsInv, ReadsInv, NEW t \in Thread,
         \/ hvac_track_file(t) \/ FdMapInserted(t) \/ CheckMercury(t)
         \/ hvac_init_comm(t) \/ hvac_client_comm_register_rpc(t)
         \/ hvac_client_comm_gen_open_rpc(t)
  PROVE  ReadsInv'
<1>1. thr[t].pc \in OpeningPc /\ thr[t].pc # "idle"
  BY DEF hvac_track_file, FdMapInserted, CheckMercury, hvac_init_comm,
     hvac_client_comm_register_rpc, hvac_client_comm_gen_open_rpc, At, OpeningPc
<1>2. thr[t].op = "open" /\ thr[t].out \in S!RpcOut
  BY <1>1, InCall DEF ThreadInv
<1>3. PICK f \in Lfd : f = thr[t].fd
  BY <1>1, InCall
<1>4. UNCHANGED <<lfile, fd_redir_map, pos, cb, rsp, app, remote>>
  BY DEF hvac_track_file, FdMapInserted, CheckMercury, hvac_init_comm,
     hvac_client_comm_register_rpc, hvac_client_comm_gen_open_rpc, Forward,
     ForwardFails, mapVars, callVars, appVars, rpcVars
<1>5. PICK pc \in Pc \ {"local"}, out \in S!RpcOut :
         \/ Goto(t, pc) /\ out = thr[t].out
         \/ thr' = [thr EXCEPT ![t].pc = pc, ![t].out = out]
  <2>0. {"inserting", "forward_open", "init", "register", "return"}
          \subseteq Pc \ {"local"}
    BY DEF Pc
  <2>1. CASE \/ CheckMercury(t) \/ hvac_init_comm(t)
             \/ hvac_client_comm_register_rpc(t)
    <3>1. \/ Goto(t, "forward_open") \/ Goto(t, "init") \/ Goto(t, "register")
      BY <2>1 DEF CheckMercury, hvac_init_comm, hvac_client_comm_register_rpc
    <3> QED
      BY <1>2, <2>0, <3>1
  <2>4. CASE hvac_track_file(t)
    <3>1. \/ Goto(t, "inserting")
          \/ thr' = [thr EXCEPT ![t].pc = "return", ![t].out = NoRsp]
      BY <2>4 DEF hvac_track_file, Finish
    <3> QED
      BY <1>2, <2>0, <3>1, Messages
  <2>2. CASE FdMapInserted(t)
    BY <1>2, <2>2 DEF FdMapInserted, Pc
  <2>3. CASE hvac_client_comm_gen_open_rpc(t)
    <3>1. Goto(t, "wait")
      BY <2>3 DEF hvac_client_comm_gen_open_rpc, Forward, ForwardFails, Exact
    <3> QED
      BY <1>2, <3>1 DEF Pc
  <2> QED
    BY <2>1, <2>2, <2>3, <2>4
<1>6. /\ thr'[t].pc = pc /\ thr'[t].op = "open" /\ thr'[t].fd = f
      /\ \A u \in Thread : u # t => thr'[u] = thr[u] /\ thr[u].fd # f
  BY <1>1, <1>2, <1>3, <1>5, OthersGo
<1> QED
  BY <1>2, <1>3, <1>4, <1>6, OpenMovesReads

LEMMA openReads ==
  ASSUME BaseTypes, CallsInv, TidyInv, ReadsInv, NEW t \in Thread, NEW p \in Path,
         open(t, p)
  PROVE  ReadsInv'
<1>1. PICK f \in Lfd :
        /\ Begin(t, "track", "open", f, 0) /\ lfile[f].path = NoPath
        /\ lfile' = [lfile EXCEPT ![f] = [path |-> p, off |-> 0]]
        /\ pos' = [pos EXCEPT ![f] = 0]
  BY DEF open
<1>2. UNCHANGED <<fd_map, fd_redir_map, remote, cb, rsp, app>>
  BY DEF open, mapVars, callVars, rpcVars
<1>3. fd_redir_map[f] = 0
  BY <1>1 DEF TidyInv, MapsAgree
<1>4. thr'[t].pc = "track" /\ thr'[t].op = "open" /\ thr'[t].fd = f
  BY <1>1 DEF Begin, Idle, BaseTypes, CallTypes
<1>5. /\ \A u \in Thread : u # t => thr'[u] = thr[u] /\ thr[u].fd # f
      /\ thr[t].fd = None
  BY <1>1, Others DEF Begin, At, CallsInv, ThreadInv
<1>6. /\ lfile'[f].off = 0 /\ pos'[f] = 0
      /\ \A g \in Lfd \ {f} : lfile'[g] = lfile[g] /\ pos'[g] = pos[g]
  BY <1>1 DEF BaseTypes, MapTypes, CallTypes
<1>7. ~Reading(t)' /\ Moved(t)' = 0 /\ RealOff(f)' = 0 /\ ~Unused(f)'
  BY <1>2, <1>3, <1>4, <1>6 DEF Reading, Moved, RealOff, Unused
<1>8. ReadInv(t)'
  BY <1>4, <1>6, <1>7 DEF ReadInv
<1> QED
  BY <1>2, <1>5, <1>6, <1>7, <1>8, ReadsStep

\* A read begins where the application left the descriptor; it is local only
\* if there is no remote descriptor.
LEMMA readReads ==
  ASSUME Tidy, BaseTypes, CallsInv, TidyInv, ReadsInv, NEW t \in Thread,
         NEW f \in Lfd, NEW o \in -1 .. FileLen, read(t, f, o)
  PROVE  ReadsInv'
<1>1. PICK pc \in {"forward_read", "local"} :
        /\ Begin(t, pc, "read", f, o) /\ f \in app
        /\ pc = "local" => fd_map[f] = NoPath \/ fd_redir_map[f] = 0
  BY FindFinds DEF read
<1>2. UNCHANGED <<lfile, pos, fd_redir_map, remote, cb, rsp, app>>
  BY DEF read, mapVars, callVars, rpcVars, appVars
<1>3. pc = "local" => fd_redir_map[f] = 0
  BY <1>1 DEF TidyInv, MapsAgree
<1>4. thr'[t].pc = pc /\ thr'[t].op = "read" /\ thr'[t].fd = f
  BY <1>1 DEF Begin, Idle, BaseTypes, CallTypes
<1>5. /\ \A u \in Thread : u # t => thr'[u] = thr[u] /\ thr[u].fd # f
      /\ thr[t].fd = None /\ Unused(f)
  BY <1>1, Others DEF Begin, At, CallsInv, ThreadInv, Unused
<1>6. RealOff(f) = pos[f] /\ pos[f] \in 0 .. FileLen
  BY <1>5 DEF ReadsInv, BaseTypes, CallTypes
<1>7. ~Reading(t)' /\ Moved(t)' = 0 /\ RealOff(f)' = RealOff(f) /\ ~Unused(f)'
  BY <1>2, <1>4 DEF Reading, Moved, RealOff, Unused
<1>8. ReadInv(t)'
  BY <1>2, <1>3, <1>4, <1>6, <1>7 DEF ReadInv
<1> QED
  BY <1>2, <1>5, <1>7, <1>8, ReadsStep

LEMMA closeReads ==
  ASSUME BaseTypes, CallsInv, ReadsInv, NEW t \in Thread, NEW f \in Lfd, close(t, f)
  PROVE  ReadsInv'
<1>1. PICK pc \in {"untrack", "close"} : Begin(t, pc, "close", f, 0)
  BY DEF close
<1>2. app' = app \ {f} /\ UNCHANGED <<lfile, pos, fd_redir_map, remote, cb, rsp>>
  BY DEF close, mapVars, callVars, rpcVars
<1>3. thr'[t].pc = pc /\ thr'[t].op = "close" /\ thr'[t].fd = f
  BY <1>1 DEF Begin, Idle, BaseTypes, CallTypes
<1>4. /\ \A u \in Thread : u # t => thr'[u] = thr[u] /\ thr[u].fd # f
      /\ thr[t].fd = None
  BY <1>1, Others DEF Begin, At, CallsInv, ThreadInv
<1>5. ~Reading(t)' /\ ~Unused(f)'
  BY <1>2, <1>3 DEF Reading, Unused
<1>6. ReadInv(t)'
  BY <1>2, <1>3, <1>5 DEF ReadInv
<1> QED
  BY <1>2, <1>4, <1>5, <1>6, ReadsStep

\* A read is sent exactly when there is a remote descriptor.
LEMMA hvac_client_comm_gen_read_rpcReads ==
  ASSUME Exact, BaseTypes, CallsInv, TidyInv, ReadsInv, NEW t \in Thread,
         hvac_client_comm_gen_read_rpc(t)
  PROVE  ReadsInv'
<1>1. thr[t].pc = "forward_read" /\ "forward" \notin Faults
  BY DEF hvac_client_comm_gen_read_rpc, At, Exact
<1>2. PICK f \in Lfd : f = thr[t].fd
  BY <1>1, InCall
<1>3. /\ ThreadInv(t) /\ thr[t].op = "read" /\ ~thr[t].done
      /\ thr[t].out \in S!RpcOut
  BY <1>1, InCall DEF ThreadInv
<1>4. UNCHANGED <<lfile, fd_redir_map, pos, cb, rsp, app, remote>>
  BY DEF hvac_client_comm_gen_read_rpc, Forward, ForwardFails, mapVars, appVars,
     rpcVars
<1>5. PICK pc \in {"wait", "local"} : /\ Goto(t, pc)
                                      /\ pc = "local" => fd_redir_map[f] = 0
  <2>1. ~Redirected(f) => fd_redir_map[f] = 0
    BY DEF Redirected, TidyInv, MapsAgree
  <2> QED
    BY <1>1, <1>2, <2>1 DEF hvac_client_comm_gen_read_rpc, Forward, ForwardFails
<1>6. pc \in Pc /\ Goto(t, pc)
  BY <1>5 DEF Pc
<1>7. /\ thr'[t].pc = pc /\ thr'[t].op = "read" /\ thr'[t].fd = f
      /\ ~thr'[t].done
      /\ \A u \in Thread : u # t => thr'[u] = thr[u] /\ thr[u].fd # f
  <2>1. /\ thr'[t].pc = pc /\ thr'[t].op = thr[t].op /\ thr'[t].fd = thr[t].fd
        /\ thr'[t].done = thr[t].done
        /\ \A u \in Thread : u # t => thr'[u] = thr[u] /\ thr[u].fd # thr[t].fd
    BY <1>1, <1>3, <1>6, OthersGo
  <2> QED
    BY <1>2, <1>3, <2>1
<1>8. cb[f] = NoRsp /\ rsp[f] = NoRsp
  BY <1>1, <1>2, NotWaiting DEF NoCallOn
<1>9. Moved(t) = 0 /\ ReadInv(t)
  BY <1>1 DEF Moved, Reading, ReadsInv
<1>10. (pc = "wait" => Reply(t)' = NoRsp) /\ (pc = "local" => ~Reading(t)')
  BY <1>4, <1>7, <1>8 DEF Reply, Reading
<1>11. Moved(t)' = 0 /\ RealOff(f)' = RealOff(f) /\ ~Unused(f)'
  BY <1>4, <1>7, <1>10, Messages DEF Moved, RealOff, Unused
<1>12. ReadInv(t)'
  <2>1. RealOff(f) = pos[f]
    <3>1. RealOff(f) = pos[f] + 0 /\ pos[f] \in 0 .. FileLen
      BY <1>2, <1>3, <1>9 DEF ReadInv, BaseTypes, CallTypes
    <3> QED
      BY <3>1
  <2>2. RealOff(f)' = pos'[f] + 0
    <3>1. RealOff(f)' = pos'[f] /\ pos'[f] \in 0 .. FileLen
      BY <1>4, <1>11, <2>1 DEF BaseTypes, CallTypes
    <3> QED
      BY <3>1
  <2>3. /\ Reading(t)' => Reply(t)' = NoRsp
        /\ thr'[t].pc # "return" /\ ~thr'[t].done
        /\ thr'[t].pc = "local" => fd_redir_map'[f] = 0
    <3>1. thr'[t].pc = pc /\ ~thr'[t].done /\ fd_redir_map' = fd_redir_map
      BY <1>4, <1>7
    <3>2. CASE pc = "wait"
      BY <1>10, <3>1, <3>2
    <3>3. CASE pc = "local"
      BY <1>5, <1>10, <3>1, <3>3
    <3> QED
      BY <3>2, <3>3
  <2> QED
    BY <1>7, <1>11, <2>2, <2>3 DEF ReadInv
<1> QED
  BY <1>2, <1>4, <1>7, <1>11, <1>12, ReadsStep

\* What a read expects is an answer of a read.
LEMMA ExpectedIs ==
  ASSUME BaseTypes, NEW t \in Thread, thr[t].fd \in Lfd
  PROVE  LET f == thr[t].fd
             o == IF thr[t].off = -1 THEN pos[f] ELSE thr[t].off
         IN  /\ Expected(t) \in S!RpcOut /\ Expected(t) # NoRsp
             /\ Expected(t).ret = IF o < FileLen THEN 1 ELSE 0
             /\ Expected(t).ret \in {0, 1} /\ o + Expected(t).ret \in 0 .. FileLen
<1> DEFINE f == thr[t].fd
           o == IF thr[t].off = -1 THEN pos[f] ELSE thr[t].off
<1>1. /\ lfile[f].path \in Path \cup {NoPath} /\ pos[f] \in 0 .. FileLen
      /\ thr[t].off \in -1 .. FileLen
  BY DEF BaseTypes, MapTypes, CallTypes, FileType, ThreadType
<1>2. o \in 0 .. FileLen
  BY <1>1, ClientConstants
<1> QED
  BY <1>1, <1>2, BlockAnswer DEF Expected

\* A signalled thread takes the answer it got: no read falls back to the
\* local file.
LEMMA hvac_wait_for_operationReads ==
  ASSUME BaseTypes, CallsInv, ReadsInv, NEW t \in Thread, hvac_wait_for_operation(t)
  PROVE  ReadsInv'
<1>1. thr[t].pc = "wait" /\ thr[t].done
  BY DEF hvac_wait_for_operation, At
<1>2. PICK f \in Lfd : f = thr[t].fd
  BY <1>1, InCall
<1>3. ThreadInv(t) /\ thr[t].out \in S!RpcOut /\ ReadInv(t)
  BY <1>1, InCall DEF ReadsInv
<1>4. UNCHANGED <<lfile, fd_redir_map, pos, cb, rsp, app, remote>>
  BY DEF hvac_wait_for_operation, callVars, mapVars, appVars, rpcVars
<1>5. Reply(t) = thr[t].out
  BY <1>1 DEF Reply
<1>6. thr[t].op = "read" => thr[t].out = Expected(t) /\ thr[t].out.ret # -1
  <2>1. ASSUME thr[t].op = "read" PROVE thr[t].out = Expected(t)
    BY <1>1, <1>3, <1>5, <2>1 DEF ReadInv, Reading
  <2> QED
    BY <1>2, <2>1, ExpectedIs
<1>7. Goto(t, "return") /\ "return" \in Pc
  BY <1>6 DEF hvac_wait_for_operation, Pc
<1>8. /\ thr'[t].pc = "return" /\ thr'[t].op = thr[t].op /\ thr'[t].fd = f
      /\ thr'[t].off = thr[t].off /\ thr'[t].out = thr[t].out
      /\ \A u \in Thread : u # t => thr'[u] = thr[u] /\ thr[u].fd # f
  <2>1. /\ thr'[t].pc = "return" /\ thr'[t].op = thr[t].op
        /\ thr'[t].fd = thr[t].fd /\ thr'[t].off = thr[t].off
        /\ thr'[t].out = thr[t].out
        /\ \A u \in Thread : u # t => thr'[u] = thr[u] /\ thr[u].fd # thr[t].fd
    BY <1>1, <1>7, OthersGoOn
  <2> QED
    BY <1>2, <2>1
<1>9. /\ Reply(t)' = Reply(t) /\ Reading(t)' = Reading(t)
      /\ Expected(t)' = Expected(t)
  BY <1>1, <1>2, <1>4, <1>5, <1>8 DEF Reply, Reading, Expected
<1>10. Moved(t)' = Moved(t) /\ RealOff(f)' = RealOff(f) /\ ~Unused(f)'
  BY <1>4, <1>8, <1>9 DEF Moved, RealOff, Unused
<1>11. ReadInv(t)'
  BY <1>1, <1>2, <1>3, <1>4, <1>8, <1>9, <1>10 DEF ReadInv
<1> QED
  BY <1>2, <1>4, <1>8, <1>10, <1>11, ReadsStep

\* __real_read and __real_pread: without a remote descriptor the kernel's
\* offset is where the application left it.
LEMMA LocalReadReads ==
  ASSUME BaseTypes, CallsInv, ReadsInv, NEW t \in Thread, LocalRead(t)
  PROVE  ReadsInv'
<1>1. thr[t].pc = "local"
  BY DEF LocalRead, At
<1>2. PICK f \in Lfd : f = thr[t].fd
  BY <1>1, InCall
<1>3. thr[t].op = "read" /\ ReadInv(t) /\ thr[t].off \in -1 .. FileLen
  BY <1>1, InCall DEF ThreadInv, ReadsInv
<1>4. lfile[f] \in FileType /\ pos[f] \in 0 .. FileLen
  BY DEF BaseTypes, MapTypes, CallTypes
<1>5. fd_redir_map[f] = 0 /\ lfile[f].off = pos[f]
  <2>1. fd_redir_map[f] = 0 /\ RealOff(f) = pos[f] + 0
    BY <1>1, <1>2, <1>3 DEF ReadInv, Moved, Reading
  <2> QED
    BY <1>4, <2>1 DEF RealOff
<1>6. UNCHANGED <<pos, fd_redir_map, remote, cb, rsp, app>>
  BY DEF LocalRead, mapVars, callVars, rpcVars, appVars
<1>7. PICK r \in S!RpcOut : r = Expected(t)
  BY <1>2, ExpectedIs
<1>8. r \in S!RpcOut /\ r # NoRsp /\ r.ret \in {0, 1}
  BY <1>2, <1>7, ExpectedIs
<1>9. /\ Finish(t, r)
      /\ lfile' = IF thr[t].off = -1 THEN [lfile EXCEPT ![f].off = @ + r.ret]
                  ELSE lfile
  BY <1>2, <1>5, <1>7 DEF LocalRead, Expected
<1>10. PICK pc \in Pc :
         pc = "return" /\ thr' = [thr EXCEPT ![t].pc = pc, ![t].out = r]
  BY <1>9 DEF Finish, Pc
<1>11. /\ thr'[t].pc = "return" /\ thr'[t].op = "read" /\ thr'[t].fd = f
       /\ thr'[t].off = thr[t].off /\ thr'[t].out = r
       /\ \A u \in Thread : u # t => thr'[u] = thr[u] /\ thr[u].fd # f
  <2>1. /\ r \in S!RpcOut
        /\ \/ Goto(t, pc) /\ r = thr[t].out
           \/ thr' = [thr EXCEPT ![t].pc = pc, ![t].out = r]
    BY <1>8, <1>10
  <2>2. /\ thr'[t].pc = pc /\ thr'[t].op = thr[t].op
        /\ thr'[t].fd = thr[t].fd /\ thr'[t].off = thr[t].off /\ thr'[t].out = r
        /\ \A u \in Thread : u # t => thr'[u] = thr[u] /\ thr[u].fd # thr[t].fd
    BY <1>1, <2>1, OthersGo
  <2> QED
    BY <1>2, <1>3, <1>10, <2>2
<1>12. /\ lfile'[f].path = lfile[f].path
       /\ lfile'[f].off = IF thr[t].off = -1 THEN lfile[f].off + r.ret
                          ELSE lfile[f].off
       /\ \A g \in Lfd \ {f} : lfile'[g] = lfile[g]
  BY <1>9 DEF BaseTypes, MapTypes, FileType
<1>13. Reading(t)' /\ Reply(t)' = r /\ Expected(t)' = r
  <2>1. Expected(t)' = Expected(t)
    BY <1>2, <1>6, <1>11, <1>12 DEF Expected
  <2> QED
    BY <1>7, <1>11, <2>1 DEF Reading, Reply
<1>14. RealOff(f)' = pos'[f] + Moved(t)'
  <2>1. Moved(t)' = IF thr[t].off = -1 THEN r.ret ELSE 0
    BY <1>11, <1>13 DEF Moved
  <2>2. RealOff(f)' = lfile'[f].off
    BY <1>5, <1>6 DEF RealOff
  <2> QED
    BY <1>4, <1>5, <1>6, <1>8, <1>12, <2>1, <2>2
<1>15. ReadInv(t)' /\ ~Unused(f)'
  BY <1>8, <1>11, <1>13, <1>14 DEF ReadInv, Unused
<1> QED
  BY <1>2, <1>6, <1>11, <1>12, <1>15, ReadsStep

\* The application sees what was read, and the offset that goes with it.
LEMMA ReturnReads ==
  ASSUME BaseTypes, CallsInv, ReadsInv, NEW t \in Thread, Return(t)
  PROVE  ReadsInv'
<1>1. thr[t].pc = "return"
  BY DEF Return, At
<1>2. PICK f \in Lfd : f = thr[t].fd
  BY <1>1, InCall
<1>3. thr[t].op \in {"open", "read"} /\ ReadInv(t)
  BY <1>1, InCall DEF ThreadInv, ReadsInv
<1>4. /\ thr' = [thr EXCEPT ![t] = Idle] /\ app' = app \cup {f}
      /\ pos' = IF thr[t].op = "read" /\ thr[t].off = -1 /\ pos[f] < FileLen
                THEN [pos EXCEPT ![f] = @ + 1] ELSE pos
      /\ UNCHANGED <<lfile, fd_redir_map, remote, cb, rsp>>
  BY <1>2 DEF Return, mapVars, callVars, rpcVars
<1>5. thr'[t] = Idle /\ \A u \in Thread : u # t => thr'[u] = thr[u] /\ thr[u].fd # f
  BY <1>2, <1>4, ClientConstants DEF CallsInv, OneCall, BaseTypes, CallTypes
<1>6. pos \in [Lfd -> 0 .. FileLen] /\ pos[f] \in 0 .. FileLen
  BY DEF BaseTypes, CallTypes
<1>7. RealOff(f)' = RealOff(f) /\ RealOff(f) = pos[f] + Moved(t)
  BY <1>2, <1>3, <1>4 DEF RealOff, ReadInv
<1>8. RealOff(f)' = pos'[f]
  <2>1. CASE thr[t].op = "read" /\ thr[t].off = -1
    <3>1. Reply(t) = Expected(t) /\ Reading(t)
      BY <1>1, <1>3, <2>1 DEF ReadInv, Reading
    <3>2. Expected(t).ret = IF pos[f] < FileLen THEN 1 ELSE 0
      BY <1>2, <2>1, ExpectedIs
    <3>3. Moved(t) = IF pos[f] < FileLen THEN 1 ELSE 0
      BY <2>1, <3>1, <3>2 DEF Moved
    <3>4. pos'[f] = IF pos[f] < FileLen THEN pos[f] + 1 ELSE pos[f]
      BY <1>4, <1>6, <2>1
    <3> QED
      BY <1>6, <1>7, <3>3, <3>4
  <2>2. CASE ~(thr[t].op = "read" /\ thr[t].off = -1)
    <3>1. Moved(t) = 0 /\ pos' = pos
      BY <1>4, <2>2 DEF Moved, Reading
    <3> QED
      BY <1>6, <1>7, <3>1
  <2> QED
    BY <2>1, <2>2
<1>9. ReadInv(t)'
  BY <1>5 DEF ReadInv, Reading, Idle
<1>10. \A g \in Lfd \ {f} : pos'[g] = pos[g] /\ (g \in app' <=> g \in app)
  BY <1>4, <1>6
<1> QED
  BY <1>2, <1>4, <1>5, <1>8, <1>9, <1>10, ReadsStep

\* A descriptor that is being closed is the application's no more.
LEMMA ClosingReads ==
  ASSUME BaseTypes, CallsInv, ReadsInv, NEW t \in Thread,
         hvac_remove_fd(t) \/ RealClose(t)
  PROVE  ReadsInv'
<1>1. thr[t].pc \in {"untrack", "close"}
  BY DEF hvac_remove_fd, RealClose, At
<1>2. PICK f \in Lfd : f = thr[t].fd
  BY <1>1, InCall
<1>3. thr[t].op = "close" /\ f \notin app /\ thr[t].out \in S!RpcOut
  <2>1. thr[t].op = "close" /\ ReadInv(t) /\ thr[t].out \in S!RpcOut
    BY <1>1, InCall DEF ThreadInv, ReadsInv
  <2> QED
    BY <1>2, <2>1 DEF ReadInv
<1>4. UNCHANGED <<pos, app, remote, cb, rsp>> /\ ~Unused(f)'
  BY <1>3 DEF hvac_remove_fd, RealClose, appVars, callVars, rpcVars, Unused
<1>5. CASE hvac_remove_fd(t)
  <2>1. /\ Goto(t, "close") /\ "close" \in Pc /\ lfile' = lfile
        /\ fd_redir_map' = [fd_redir_map EXCEPT ![f] = 0]
    BY <1>2, <1>5 DEF hvac_remove_fd, hvac_client_comm_gen_close_rpc, Pc
  <2>2. /\ thr'[t].pc = "close" /\ thr'[t].op = thr[t].op
        /\ thr'[t].fd = thr[t].fd
        /\ \A u \in Thread : u # t => thr'[u] = thr[u] /\ thr[u].fd # thr[t].fd
    BY <1>1, <1>3, <2>1, OthersGo
  <2>3. \A g \in Lfd \ {f} : fd_redir_map'[g] = fd_redir_map[g]
    BY <2>1 DEF BaseTypes, MapTypes
  <2>4. ReadInv(t)'
    BY <1>2, <1>3, <1>4, <2>2 DEF ReadInv, Reading
  <2> QED
    BY <1>2, <1>4, <2>1, <2>2, <2>3, <2>4, ReadsStep
<1>6. CASE RealClose(t)
  <2>1. /\ thr' = [thr EXCEPT ![t] = Idle] /\ fd_redir_map' = fd_redir_map
        /\ lfile' = [lfile EXCEPT ![f] = Unlinked]
    BY <1>2, <1>6 DEF RealClose, mapVars
  <2>2. thr'[t] = Idle
        /\ \A u \in Thread : u # t => thr'[u] = thr[u] /\ thr[u].fd # f
    BY <1>2, <2>1, ClientConstants DEF CallsInv, OneCall, BaseTypes, CallTypes
  <2>3. \A g \in Lfd \ {f} : lfile'[g] = lfile[g]
    BY <2>1 DEF BaseTypes, MapTypes
  <2>4. ReadInv(t)'
    BY <2>2 DEF ReadInv, Reading, Idle
  <2> QED
    BY <1>2, <1>4, <2>1, <2>2, <2>3, <2>4, ReadsStep
<1> QED
  BY <1>5, <1>6

\* A callback: a new remote descriptor starts where the local one is, and the
\* answer to a read only changes hands.
LEMMA CallbackReads ==
  ASSUME BaseTypes, CallsInv, RemoteInv, ReadsInv, NEW f \in Lfd,
         hvac_open_cb(f) \/ hvac_read_cb(f)
  PROVE  ReadsInv'
<1>1. /\ rsp[f] # NoRsp /\ cb' = [cb EXCEPT ![f] = rsp[f]]
      /\ rsp' = [rsp EXCEPT ![f] = NoRsp]
      /\ UNCHANGED <<lfile, thr, remote, app, pos>>
  BY DEF hvac_open_cb, hvac_read_cb, CallbackRuns, appVars
<1>2. PICK t \in Thread : /\ thr[t].pc = "wait" /\ thr[t].fd = f /\ ~thr[t].done
                          /\ Answered(f, t)
  BY <1>1, Waiter
<1>3. \A u \in Thread : u # t => thr[u].fd # f
  BY <1>2, ClientConstants DEF CallsInv, OneCall
<1>4. /\ cb'[f] = rsp[f] /\ rsp'[f] = NoRsp
      /\ \A g \in Lfd \ {f} : cb'[g] = cb[g] /\ rsp'[g] = rsp[g]
  BY <1>1 DEF BaseTypes, CallTypes, RpcTypes
<1>5. ReadInv(t) /\ cb[f] = NoRsp /\ rsp[f].op = thr[t].op /\ ~Unused(f)'
  BY <1>1, <1>2 DEF ReadsInv, Answered, Unused
<1>6. CASE hvac_read_cb(f)
  <2>1. fd_redir_map' = fd_redir_map
    BY <1>6 DEF hvac_read_cb
  <2>2. Reply(t)' = Reply(t)
    BY <1>1, <1>2, <1>4, <1>5 DEF Reply
  <2>3. /\ Reading(t)' = Reading(t) /\ Expected(t)' = Expected(t)
        /\ Moved(t)' = Moved(t) /\ RealOff(f)' = RealOff(f)
    BY <1>1, <2>1, <2>2 DEF Reading, Expected, Moved, RealOff
  <2>4. ReadInv(t)'
    BY <1>1, <1>2, <1>5, <2>1, <2>2, <2>3 DEF ReadInv
  <2> QED
    BY <1>1, <1>3, <1>4, <1>5, <2>1, <2>4, ReadsStep
<1>7. CASE hvac_open_cb(f)
  <2>1. thr[t].op = "open"
    BY <1>5, <1>7 DEF hvac_open_cb
  <2>2. Moved(t) = 0 /\ Moved(t)' = 0 /\ ~Reading(t)'
    BY <1>1, <2>1 DEF Moved, Reading
  <2>3. RealOff(f) = 0 /\ pos[f] = 0 /\ lfile[f].off = 0
    BY <1>2, <1>5, <2>1, <2>2 DEF ReadInv
  <2>4. /\ RealOff(f)' = 0
        /\ \A g \in Lfd \ {f} : fd_redir_map'[g] = fd_redir_map[g]
    <3>1. CASE rsp[f].ret > 0
      <4>1. Got(f) = rsp[f].ret /\ rsp[f].ret \in Int
        BY <1>7, <3>1 DEF hvac_open_cb, Got, BaseTypes, RpcTypes, S!RpcOut
      <4>2. Got(f) # 0
        BY <3>1, <4>1
      <4>3. remote[rsp[f].ret].off = 0 /\ rsp[f].ret # 0
        BY <4>1, <4>2 DEF RemoteInv
      <4>4. /\ fd_redir_map'[f] = rsp[f].ret
            /\ \A g \in Lfd \ {f} : fd_redir_map'[g] = fd_redir_map[g]
        BY <1>7, <3>1 DEF hvac_open_cb, BaseTypes, MapTypes
      <4> QED
        BY <1>1, <4>3, <4>4 DEF RealOff
    <3>2. CASE ~(rsp[f].ret > 0)
      <4>1. fd_redir_map' = fd_redir_map
        BY <1>7, <3>2 DEF hvac_open_cb
      <4> QED
        BY <1>1, <2>3, <4>1 DEF RealOff
    <3> QED
      BY <3>1, <3>2
  <2>5. ReadInv(t)'
    <3>1. RealOff(f)' = pos'[f] + Moved(t)' /\ pos'[f] = 0 /\ lfile'[f].off = 0
      BY <1>1, <2>2, <2>3, <2>4
    <3> QED
      BY <1>1, <1>2, <2>1, <2>2, <3>1 DEF ReadInv
  <2> QED
    BY <1>1, <1>3, <1>4, <1>5, <2>4, <2>5, ReadsStep
<1> QED
  BY <1>6, <1>7

LEMMA SignalReads ==
  ASSUME BaseTypes, CallsInv, ReadsInv, NEW f \in Lfd, Signal(f)
  PROVE  ReadsInv'
<1>1. PICK t \in Thread :
              /\ thr[t].pc = "wait" /\ thr[t].fd = f /\ ~thr[t].done
              /\ thr' = [thr EXCEPT ![t] = thr'[t]]
              /\ thr'[t].pc = "wait" /\ thr'[t].op = thr[t].op
              /\ thr'[t].fd = f /\ thr'[t].off = thr[t].off
              /\ thr'[t].done /\ thr'[t].out = cb[f]
  BY SignalCalls
<1>2. /\ cb[f] # NoRsp /\ cb' = [cb EXCEPT ![f] = NoRsp]
      /\ UNCHANGED <<lfile, fd_redir_map, remote, rsp, app, pos>>
  BY DEF Signal, mapVars, rpcVars, appVars
<1>3. /\ \A u \in Thread : u # t => thr'[u] = thr[u] /\ thr[u].fd # f
      /\ \A g \in Lfd \ {f} : cb'[g] = cb[g]
  BY <1>1, <1>2, ClientConstants DEF CallsInv, OneCall, BaseTypes, CallTypes
<1>4. Reply(t) = cb[f] /\ Reply(t)' = cb[f]
  BY <1>1, <1>2 DEF Reply
<1>5. /\ Reading(t)' = Reading(t) /\ Expected(t)' = Expected(t)
      /\ Moved(t)' = Moved(t) /\ RealOff(f)' = RealOff(f) /\ ~Unused(f)'
  BY <1>1, <1>2, <1>4 DEF Reading, Expected, Moved, RealOff, Unused
<1>6. ReadInv(t)'
  <2>1. ReadInv(t)
    BY DEF ReadsInv
  <2> QED
    BY <1>1, <1>2, <1>4, <1>5, <2>1 DEF ReadInv
<1> QED
  BY <1>1, <1>2, <1>3, <1>5, <1>6, ReadsStep

\* The server answers a read with what the application expects.
LEMMA ServerReads ==
  ASSUME BaseTypes, CallsInv, RemoteInv, TidyInv, ReadsInv, NEW f \in Lfd,
         Server(f)
  PROVE  ReadsInv'
<1>1. PICK t \in Thread, r \in S!RpcOut :
           /\ thr[t].pc = "wait" /\ thr[t].fd = f /\ ~thr[t].done
           /\ Sent(f, t) /\ rsp' = [rsp EXCEPT ![f] = r]
           /\ AnswersOpen(f, t, r) \/ AnswersRead(f, t, r)
           /\ UNCHANGED clientVars
  BY ServerAnswers
<1>2. UNCHANGED <<lfile, thr, fd_redir_map, cb, app, pos>>
  BY <1>1 DEF clientVars, mapVars, callVars, appVars
<1>3. /\ rsp[f] = NoRsp /\ cb[f] = NoRsp /\ rsp'[f] = r
      /\ \A g \in Lfd \ {f} : rsp'[g] = rsp[g]
  BY <1>1 DEF Sent, BaseTypes, RpcTypes
<1>4. ReadInv(t) /\ ~Unused(f)' /\ \A u \in Thread : u # t => thr[u].fd # f
  BY <1>1, <1>2, ClientConstants DEF CallsInv, OneCall, ReadsInv, Unused
<1>5. Reply(t) = NoRsp /\ Reply(t)' = r /\ Moved(t) = 0
  BY <1>1, <1>2, <1>3, Messages DEF Reply, Moved
<1>6. remote \in [Fd -> FileType] /\ pos[f] \in 0 .. FileLen
  BY DEF BaseTypes, RpcTypes, CallTypes
<1>7. CASE AnswersOpen(f, t, r)
  <2>1. \A g \in Lfd : fd_redir_map[g] # 0
                         => remote'[fd_redir_map[g]] = remote[fd_redir_map[g]]
    <3>1. \A g \in Lfd : fd_redir_map[g] # 0 => Live(fd_redir_map[g])
      BY DEF RemoteInv
    <3>2. ASSUME NEW d \in Fd, remote[d].path \in Path
          PROVE  remote'[d] = remote[d]
      BY <1>6, <1>7, <3>2, ClientConstants DEF AnswersOpen
    <3> QED
      BY <3>1, <3>2 DEF Live
  <2>2. thr[t].op = "open" /\ RealOff(f)' = RealOff(f)
    BY <1>2, <1>7, <2>1 DEF AnswersOpen, RealOff
  <2>3. ~Reading(t)' /\ Moved(t)' = 0
    BY <1>2, <2>2 DEF Reading, Moved
  <2>4. ReadInv(t)'
    BY <1>1, <1>2, <1>4, <1>5, <2>2, <2>3 DEF ReadInv
  <2> QED
    BY <1>2, <1>3, <1>4, <2>1, <2>4, ReadsStep
<1>8. CASE AnswersRead(f, t, r)
  <2>1. PICK d \in Fd : d = fd_redir_map[f] /\ d # 0
    BY <1>8, ClientConstants DEF AnswersRead
  <2>2. thr[t].op = "read" /\ RealOff(f) = remote[d].off /\ RealOff(f) = pos[f]
    <3>1. thr[t].op = "read" /\ RealOff(f) = remote[d].off
      BY <1>8, <2>1 DEF AnswersRead, RealOff
    <3>2. RealOff(f) = pos[f] + 0
      BY <1>1, <1>4, <1>5, <3>1 DEF ReadInv
    <3> QED
      BY <1>6, <3>1, <3>2
  <2>3. remote[d].path = lfile[f].path
    BY <2>1 DEF TidyInv, MapsAgree
  <2>4. r = Expected(t) /\ Expected(t)' = Expected(t)
    BY <1>1, <1>2, <1>8, <2>1, <2>2, <2>3 DEF AnswersRead, Expected
  <2>5. r.ret \in {0, 1} /\ r # NoRsp
    BY <1>1, <2>4, ExpectedIs
  <2>6. /\ remote'[d].off = IF thr[t].off = -1 THEN remote[d].off + r.ret
                            ELSE remote[d].off
        /\ \A e \in Fd : e # d => remote'[e] = remote[e]
    BY <1>6, <1>8, <2>1 DEF AnswersRead
  <2>7. RealOff(f)' = pos'[f] + Moved(t)'
    <3>1. Moved(t)' = IF thr[t].off = -1 THEN r.ret ELSE 0
      BY <1>1, <1>2, <1>5, <2>2 DEF Moved, Reading
    <3>2. RealOff(f)' = remote'[d].off /\ pos' = pos /\ remote[d].off = pos[f]
      BY <1>2, <2>1, <2>2 DEF RealOff
    <3> QED
      BY <1>6, <2>5, <2>6, <3>1, <3>2
  <2>8. ReadInv(t)'
    BY <1>1, <1>2, <1>5, <2>2, <2>4, <2>5, <2>7 DEF ReadInv
  <2>9. \A g \in Lfd \ {f} : fd_redir_map[g] # 0
                               => remote'[fd_redir_map[g]] = remote[fd_redir_map[g]]
    BY <2>1, <2>6 DEF RemoteInv, Live
  <2> QED
    BY <1>2, <1>3, <1>4, <2>8, <2>9, ReadsStep
<1> QED
  BY <1>1, <1>7, <1>8

\* The server closes only what nobody holds.
LEMMA ServerClosesReads ==
  ASSUME BaseTypes, CallsInv, RemoteInv, ReadsInv, NEW d \in Fd, ServerCloses(d)
  PROVE  ReadsInv'
<1>1. /\ d \in closeq /\ remote' = [remote EXCEPT ![d] = S!NotOpen]
      /\ UNCHANGED <<lfile, thr, fd_redir_map, cb, rsp, app, pos>>
  BY DEF ServerCloses, S!ServeClose, clientVars, mapVars, callVars, appVars
<1>2. \A e \in Fd : e # d => remote'[e] = remote[e]
  BY <1>1 DEF BaseTypes, RpcTypes
<1>3. \A g \in Lfd : fd_redir_map[g] # 0
                       => remote'[fd_redir_map[g]] = remote[fd_redir_map[g]]
  BY <1>1, <1>2 DEF RemoteInv, Live
<1> QED
  BY <1>1, <1>3, ReadsStep, ClientConstants

LEMMA NextReads ==
  ASSUME Exact
  PROVE  TidyIInv /\ ReadsInv /\ [Next]_vars => ReadsInv'
<1> SUFFICES ASSUME BaseTypes, CallsInv, RemoteInv, TidyInv, ReadsInv, [Next]_vars
             PROVE  ReadsInv'
  BY DEF TidyIInv
<1>0. Tidy
  BY DEF Exact, Tidy
<1>1. CASE Application
  <2>1. ASSUME NEW f \in Lfd, fclose(f) PROVE ReadsInv'
    BY <2>1 DEF fclose, Exact
  <2>2. ASSUME NEW f \in Lfd, NEW o \in 0 .. FileLen, lseek(f, o) PROVE ReadsInv'
    BY <2>2 DEF lseek, Exact
  <2> QED
    BY <1>0, <1>1, <2>1, <2>2, openReads, readReads, closeReads DEF Application
<1>2. ASSUME NEW t \in Thread, Continue(t) PROVE ReadsInv'
  <2>1. CASE AssertFails(t)
    <3>1. UNCHANGED <<lfile, thr, fd_redir_map, remote, cb, rsp, app, pos>>
      BY <2>1 DEF AssertFails, mapVars, callVars, rpcVars, appVars
    <3> QED
      BY <3>1, ReadsStep, ClientConstants
  <2> QED
    BY <1>2, <2>1, OpeningReads, hvac_client_comm_gen_read_rpcReads,
       hvac_wait_for_operationReads, LocalReadReads, ReturnReads, ClosingReads
       DEF Continue
<1>3. ASSUME NEW f \in Lfd, Callback(f) \/ Server(f) PROVE ReadsInv'
  BY <1>3, CallbackReads, SignalReads, ServerReads DEF Callback
<1>4. ASSUME NEW d \in Fd, ServerCloses(d) PROVE ReadsInv'
  BY <1>4, ServerClosesReads
<1>5. CASE UNCHANGED vars
  <2>1. UNCHANGED <<lfile, thr, fd_redir_map, remote, cb, rsp, app, pos>>
    BY <1>5 DEF vars, clientVars, mapVars, callVars, rpcVars, appVars
  <2> QED
    BY <2>1, ReadsStep, ClientConstants
<1> QED
  BY <1>1, <1>2, <1>3, <1>4, <1>5 DEF Next

LEMMA InitReads == Init => ReadsInv
BY DEF Init, ReadsInv, ReadInv, Reading, Idle, Unused

LEMMA ReadsFollow == ReadsInv => ReadsReturnTheFile
<1> SUFFICES ASSUME ReadsInv, NEW t \in Thread,
                    thr[t].pc = "return", thr[t].op = "read"
             PROVE  thr[t].out = Expected(t)
  BY DEF ReadsReturnTheFile
<1>1. ReadInv(t) /\ Reading(t) /\ Reply(t) = thr[t].out
  BY DEF ReadsInv, Reading, Reply
<1> QED
  BY <1>1 DEF ReadInv

\* When HG_Forward does not fail, lookups do not race and every call on the
\* descriptors is wrapped, read() and pread() return what they would return
\* without the library: the answer of the server, wherever it is on its way
\* back, and the kernel's file agree, and the offset of each is the one the
\* application has seen.
THEOREM ReadsAreRight ==
  ASSUME Exact
  PROVE  Spec => []ReadsReturnTheFile
<1>0. Tidy
  BY DEF Exact, Tidy
<1>1. Init => ReadsInv
  BY InitReads
<1>2. TidyIInv /\ ReadsInv /\ [Next]_vars => ReadsInv'
  BY NextReads
<1>3. ReadsInv => ReadsReturnTheFile
  BY ReadsFollow
<1>4. Spec => []TidyIInv
  BY <1>0, TidyInvariance
<1> QED
  BY <1>1, <1>2, <1>3, <1>4, PTL DEF Spec

=============================================================================
