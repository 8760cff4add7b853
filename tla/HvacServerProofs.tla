-------------------------- MODULE HvacServerProofs --------------------------
(***************************************************************************)
(* Proofs about HvacServer, for any number of callers, files, descriptors  *)
(* and directories, any file length, and with failing reads.               *)
(***************************************************************************)
EXTENDS HvacServer, TLAPS

\* The copy the mover is making is the mover's alone until it is published.
MoverInv ==
  /\ mover_pc \in {"copying", "assigning"} =>
       /\ local_list # <<>>
       /\ mover_dir \in Dir
       /\ burst[mover_dir].path = Head(local_list)
  /\ mover_pc = "copying" => burst[mover_dir].state = "partial"
  /\ mover_pc = "assigning" => burst[mover_dir].state = "complete"

\* An open descriptor is on the file fd_to_path names, or on a whole copy.
FdInv ==
  /\ \A f \in Fd : kfile[f].path # NoPath => fd_to_path[f] = kfile[f].path
  /\ \A f \in Fd : kfile[f].dir # Absent =>
       burst[kfile[f].dir] = [path |-> kfile[f].path, state |-> "complete"]
  /\ handler # NoHandler =>
       handler.path \in Path /\ handler.fd \in Fd
       /\ kfile[handler.fd].path = NoPath

\* What a caller may be waiting for.
CallOK(c) ==
  LET h == held[c] IN
  \/ h.call = NoReq
  \/ h.call.op = "open" /\ h.call.path \in Path /\ h.fd = 0
  \/ h.call.op = "read" /\ h.call.fd = h.fd /\ h.fd # 0
  \/ h.call.op = "seek" /\ h.call.fd = h.fd /\ h.fd # 0 /\ h.call.off \in Offset

\* A call is a request, then (for a read) a bulk push, then a response.
CallInv(c) ==
  /\ CallOK(c)
  /\ req[c] \in {NoReq, held[c].call}
  /\ held[c].call = NoReq \/ req[c] # NoReq => rsp[c] = NoRsp /\ bulk[c] = NoRsp
  /\ rsp[c] = NoRsp \/ bulk[c] = NoRsp
  /\ rsp[c] # NoRsp => rsp[c].op = held[c].call.op
  /\ rsp[c] # NoRsp /\ rsp[c].op = "open" => rsp[c].ret \in Fd \cup {Failed}
  /\ rsp[c] # NoRsp /\ rsp[c].op = "read" => rsp[c] = Answer(c)
  /\ bulk[c] # NoRsp => held[c].call.op = "read" /\ bulk[c] = Answer(c)

\* The offset the server's descriptor has while c owns it.
OffsetOf(c) ==
  IF rsp[c] # NoRsp THEN OffsetAfter(c, rsp[c])
  ELSE IF bulk[c] # NoRsp THEN OffsetAfter(c, bulk[c])
  ELSE held[c].off

\* The descriptor a caller owns is open on its file, at its offset.
OwnInv(c) ==
  /\ held[c].fd # 0 =>
       /\ held[c].path \in Path
       /\ kfile[held[c].fd].path = held[c].path
       /\ kfile[held[c].fd].off = OffsetOf(c)
  /\ Arriving(c) # {} =>
       /\ kfile[rsp[c].ret].path = held[c].call.path
       /\ kfile[rsp[c].ret].off = 0

IInv ==
  /\ TypeOK
  /\ MoverInv
  /\ CacheSound
  /\ FdInv
  /\ \A c \in Caller : CallInv(c)
  /\ \A c \in Caller : OwnInv(c)
  /\ DescriptorsAccounted

-----------------------------------------------------------------------------
\* The idle messages are messages.
LEMMA IdleTypes ==
  /\ NoReq \in RpcIn /\ NoRsp \in RpcOut /\ NoData \in Data
  /\ Closed \in [path : Paths0, dir : Dir \cup {Absent}, off : Offset]
  /\ NothingHeld \in Holding
<1>1. 0 \in Offset
  BY RpcConstants, ServerConstants DEF Offset
<1>2. NoData \in Data /\ NoReq \in RpcIn
  BY <1>1 DEF NoData, Data, NoReq, RpcIn, RpcOp, Paths0
<1> QED
  BY <1>1, <1>2 DEF NoRsp, RpcOut, RpcOp, Closed, NothingHeld, Holding, Paths0

\* The inductive invariant holds when the server starts.
LEMMA InitIInv == Init => IInv
<1> SUFFICES ASSUME Init PROVE IInv
  OBVIOUS
<1>1. TypeOK
  <2>1. /\ NoHandler \in [path : Paths0, fd : Fd \cup {0}]
        /\ Unused \in [path : Paths0, state : {"unused", "partial", "complete"}]
        /\ NoPath \in Paths0 /\ <<>> \in Seq(Path) /\ 0 \in Nat
    BY DEF NoHandler, Unused, Paths0
  <2> QED
    BY <2>1, IdleTypes DEF Init, RpcInit, TypeOK, RpcTypeOK, Holding
<1> USE RpcConstants, ServerConstants DEF Init, RpcInit, NoReq, NoData, NoRsp,
   NoHandler, Closed, Unused, NothingHeld, Failed
<1>2. MoverInv /\ CacheSound /\ FdInv
  BY DEF MoverInv, CacheSound, FdInv
<1>3. \A c \in Caller : CallInv(c) /\ OwnInv(c)
  BY DEF CallInv, CallOK, OwnInv, Arriving
<1>4. DescriptorsAccounted
  BY DEF DescriptorsAccounted, Owned, Arriving
<1> QED
  BY <1>1, <1>2, <1>3, <1>4 DEF IInv

(* The steps of the data mover leave what callers and handlers see alone.  *)

\* Every step of hvac_data_mover_fn, spurious wakeups included, preserves it.
LEMMA MoverStepIInv ==
  ASSUME IInv, MoverStep \/ SpuriousWakeup, UNCHANGED callerVars
  PROVE  IInv'
<1> USE RpcConstants, ServerConstants
<1>0. /\ TypeOK /\ MoverInv /\ CacheSound /\ FdInv /\ DescriptorsAccounted
      /\ \A c \in Caller : CallInv(c) /\ OwnInv(c)
  BY DEF IInv
<1>1. UNCHANGED <<ifVars, fdVars, handlerVars, callerVars>>
  BY DEF MoverStep, SpuriousWakeup, MoverWaits, MoverDrains, MoverCopies,
     MoverFails, MoverAssigns, MoverPublishes, handlerVars
<1>2. \A c \in Caller : CallInv(c)' /\ OwnInv(c)'
  BY <1>0, <1>1 DEF CallInv, CallOK, Answer, Wanted, OwnInv, OffsetOf,
     OffsetAfter, Arriving, ifVars, fdVars, handlerVars, callerVars
<1>3. DescriptorsAccounted'
  BY <1>0, <1>1 DEF DescriptorsAccounted, Owned, Arriving, ifVars, fdVars,
     callerVars
<1>4. TypeOK' /\ MoverInv' /\ CacheSound' /\ FdInv'
  <2> USE <1>0, <1>1 DEF TypeOK, RpcTypeOK, Holding, ifVars, fdVars,
     handlerVars, callerVars
  <2>1. CASE MoverWaits \/ SpuriousWakeup
    BY <2>1 DEF MoverWaits, SpuriousWakeup, moverVars, MoverInv,
       CacheSound, FdInv
  <2>2. CASE MoverDrains
    BY <2>2 DEF MoverDrains, MoverInv, CacheSound, FdInv
  <2>3. CASE MoverCopies
    BY <2>3 DEF MoverCopies, MoverInv, CacheSound, FdInv, Unused, Paths0
  <2>4. CASE MoverFails
    BY <2>4 DEF MoverFails, MoverInv, CacheSound, FdInv
  <2>5. CASE MoverAssigns
    BY <2>5 DEF MoverAssigns, MoverInv, CacheSound, FdInv
  <2>6. CASE MoverPublishes
    BY <2>6 DEF MoverPublishes, MoverInv, CacheSound, FdInv
  <2> QED
    BY <2>1, <2>2, <2>3, <2>4, <2>5, <2>6 DEF MoverStep
<1> QED
  BY <1>2, <1>3, <1>4 DEF IInv

-----------------------------------------------------------------------------
(* What each conjunct of IInv depends on.                                  *)

\* A caller none of whose variables changed keeps its invariants, provided
\* its descriptor did not move.
LEMMA CallerFrame ==
  ASSUME NEW c \in Caller, TypeOK, CallInv(c), OwnInv(c),
         held'[c] = held[c], req'[c] = req[c], rsp'[c] = rsp[c],
         bulk'[c] = bulk[c],
         \A f \in Owned(c) : kfile'[f].path = kfile[f].path
                             /\ kfile'[f].off = kfile[f].off
  PROVE  CallInv(c)' /\ OwnInv(c)' /\ Owned(c)' = Owned(c)
<1>1. CallInv(c)' /\ Owned(c)' = Owned(c)
  BY DEF CallInv, CallOK, Answer, Wanted, Owned, Arriving
<1>2. OwnInv(c)'
  BY DEF OwnInv, OffsetOf, OffsetAfter, Owned, Arriving, TypeOK, RpcTypeOK,
     Holding
<1> QED
  BY <1>1, <1>2

\* A hit in the unlocked map is a whole copy of the file, whatever the mover
\* is doing.
LEMMA LookupSound ==
  ASSUME TypeOK, MoverInv, CacheSound, NEW p \in Path,
         NEW hit \in Lookup(p), hit # Torn, hit # Absent
  PROVE  hit \in Dir /\ burst[hit] = [path |-> p, state |-> "complete"]
<1>1. CASE hit = path_cache_map[p]
  BY <1>1 DEF TypeOK, RpcTypeOK, Holding, CacheSound
<1>2. CASE hit # path_cache_map[p]
  <2>1. mover_pc = "assigning" /\ hit = mover_dir /\ p = Head(local_list)
    BY <1>2 DEF Lookup
  <2> QED
    BY <2>1 DEF MoverInv, TypeOK, RpcTypeOK, Holding
<1> QED
  BY <1>1, <1>2

\* hvac_open_rpc_handler preserves it, whatever the unlocked lookup returned.
LEMMA OpenIInv ==
  ASSUME IInv, NEW c \in Caller, hvac_open_rpc_handler(c),
         UNCHANGED callerVars
  PROVE  IInv'
<1> USE RpcConstants, ServerConstants
<1> DEFINE p == req[c].path
<1>0. /\ TypeOK /\ MoverInv /\ CacheSound /\ FdInv /\ DescriptorsAccounted
      /\ \A d \in Caller : CallInv(d) /\ OwnInv(d)
  BY DEF IInv
<1>1. /\ req[c] = held[c].call /\ p \in Path /\ held[c].fd = 0
      /\ rsp[c] = NoRsp /\ bulk[c] = NoRsp
  BY <1>0 DEF hvac_open_rpc_handler, CallInv, CallOK, NoReq
<1> DEFINE Opens(hit, ret) ==
        /\ kfile' = IF ret = Failed THEN kfile
                    ELSE [kfile EXCEPT ![ret] =
                            [path |-> p, dir |-> hit, off |-> 0]]
        /\ fd_to_path' = [fd_to_path EXCEPT ![ret] = p]
        /\ Respond(c, Rsp("open", ret, NoData))
<1>2a. PICK hit \in Lookup(p) : \E ret \in OpenResults(hit) : Opens(hit, ret)
  BY DEF hvac_open_rpc_handler
<1>2. PICK ret \in OpenResults(hit) : Opens(hit, ret)
  BY <1>2a
<1>3. UNCHANGED <<closeq, moverVars, queueVars, handlerVars, callerVars>>
  BY DEF hvac_open_rpc_handler
<1>4. /\ ret \in Fd \cup {Failed}
      /\ ret # Failed => ret \in FreeFd /\ hit # Torn
  BY <1>2 DEF OpenResults, FreeFd
<1>5. hit # Torn => /\ hit \in Dir \cup {Absent}
                    /\ hit # Absent =>
                         burst[hit] = [path |-> p, state |-> "complete"]
  BY <1>0, <1>1, <1>2, LookupSound
<1>6. Failed \notin Fd /\ 0 \in Offset /\ Failed \in Int /\ Fd \subseteq Int
  BY DEF Failed, Offset
<1>7. TypeOK'
  <2>1. req' \in [Caller -> RpcIn] /\ rsp' \in [Caller -> RpcOut]
    BY <1>0, <1>2, <1>4, <1>6, IdleTypes
       DEF TypeOK, RpcTypeOK, Holding, Respond, Rsp, RpcOut, RpcOp
  <2>2. kfile' \in [Fd -> [path : Paths0, dir : Dir \cup {Absent},
                           off : Offset]]
    BY <1>0, <1>1, <1>2, <1>4, <1>5, <1>6 DEF TypeOK, RpcTypeOK, Holding, Paths0
  <2>3. fd_to_path' \in [Fd \cup {Failed} -> Paths0]
    BY <1>0, <1>1, <1>2, <1>4 DEF TypeOK, RpcTypeOK, Holding, Paths0
  <2> QED
    BY <1>0, <1>3, <2>1, <2>2, <2>3
       DEF TypeOK, RpcTypeOK, Holding, moverVars, queueVars,
          handlerVars, callerVars
<1>8. MoverInv' /\ CacheSound'
  BY <1>0, <1>3 DEF MoverInv, CacheSound, moverVars, queueVars
<1>9. FdInv'
  <2>1. handler = NoHandler
    BY DEF hvac_open_rpc_handler, HandlerIdle
  <2> QED
    BY <1>0, <1>1, <1>2, <1>3, <1>4, <1>5, <1>6, <2>1
       DEF FdInv, TypeOK, RpcTypeOK, Holding, moverVars, handlerVars
<1>10. /\ CallInv(c)' /\ OwnInv(c)' /\ Owned(c) = {}
       /\ Owned(c)' = IF ret = Failed THEN {} ELSE {ret}
  BY <1>0, <1>1, <1>2, <1>3, <1>4, <1>6
     DEF CallInv, CallOK, OwnInv, Owned, Arriving, Respond, Rsp, NoRsp,
        NoReq, TypeOK, RpcTypeOK, Holding, handlerVars, callerVars
<1>11. \A d \in Caller \ {c} : CallInv(d)' /\ OwnInv(d)' /\ Owned(d)' = Owned(d)
  <2> SUFFICES ASSUME NEW d \in Caller \ {c}
               PROVE  CallInv(d)' /\ OwnInv(d)' /\ Owned(d)' = Owned(d)
    OBVIOUS
  <2>1. \A f \in Owned(d) : kfile'[f] = kfile[f]
    BY <1>0, <1>2, <1>4
       DEF DescriptorsAccounted, FreeFd, TypeOK, RpcTypeOK, Holding
  <2> QED
    BY <1>0, <1>2, <1>3, <2>1, CallerFrame
       DEF Respond, TypeOK, RpcTypeOK, Holding, handlerVars, callerVars
<1>12. DescriptorsAccounted'
  <2>1. \A f \in Fd : kfile'[f].path # NoPath
                        <=> kfile[f].path # NoPath \/ f \in Owned(c)'
    BY <1>0, <1>1, <1>2, <1>4, <1>6, <1>10 DEF TypeOK, RpcTypeOK, Holding
  <2>2. \A f \in Owned(c)' : f \in Fd /\ kfile[f].path = NoPath
    BY <1>4, <1>10 DEF FreeFd
  <2>3. \A f \in Fd : kfile'[f].path # NoPath
                        <=> f \in closeq' \/ \E d \in Caller : f \in Owned(d)'
    BY <1>0, <1>3, <1>10, <1>11, <2>1 DEF DescriptorsAccounted
  <2>4. \A d \in Caller : Owned(d)' \cap closeq' = {}
    BY <1>0, <1>3, <1>10, <1>11, <2>2 DEF DescriptorsAccounted
  <2>5. \A d, e \in Caller : d # e => Owned(d)' \cap Owned(e)' = {}
    <3>1. \A d \in Caller \ {c} : Owned(d)' \cap Owned(c)' = {}
      <4> SUFFICES ASSUME NEW d \in Caller \ {c},
                          NEW f \in Owned(d)', f \in Owned(c)'
                   PROVE  FALSE
        OBVIOUS
      <4>1. f \in Fd /\ kfile[f].path = NoPath /\ f \in Owned(d)
        BY <1>11, <2>2
      <4> QED
        BY <1>0, <4>1 DEF DescriptorsAccounted
    <3>2. \A d, e \in Caller \ {c} : d # e => Owned(d)' \cap Owned(e)' = {}
      BY <1>0, <1>11 DEF DescriptorsAccounted
    <3> QED
      BY <3>1, <3>2
  <2> QED
    BY <2>3, <2>4, <2>5 DEF DescriptorsAccounted
<1> QED
  BY <1>7, <1>8, <1>9, <1>10, <1>11, <1>12 DEF IInv

\* Moving a descriptor's offset changes nothing else.
LEMMA OffsetMoves ==
  ASSUME TypeOK, NEW f \in Fd, NEW n \in Offset,
         kfile' = [kfile EXCEPT ![f].off = n]
  PROVE  /\ kfile' \in [Fd -> [path : Paths0, dir : Dir \cup {Absent},
                               off : Offset]]
         /\ \A g \in Fd : kfile'[g].path = kfile[g].path
                           /\ kfile'[g].dir = kfile[g].dir
         /\ \A g \in Fd \ {f} : kfile'[g].off = kfile[g].off
         /\ kfile'[f].off = n
<1> DEFINE K == [path : Paths0, dir : Dir \cup {Absent}, off : Offset]
<1>1. kfile \in [Fd -> K] /\ kfile[f] \in K
  BY DEF TypeOK, RpcTypeOK, Holding
<1>2. [kfile[f] EXCEPT !.off = n] \in K
  BY <1>1
<1>3. kfile' = [kfile EXCEPT ![f] = [kfile[f] EXCEPT !.off = n]]
  OBVIOUS
<1>4. kfile' \in [Fd -> K]
  BY <1>1, <1>2, <1>3
<1> QED
  BY <1>1, <1>2, <1>3, <1>4

\* Ownership does not change where neither the owners nor the set of open
\* descriptors do.
LEMMA AccountFrame ==
  ASSUME DescriptorsAccounted, closeq' = closeq,
         \A d \in Caller : Owned(d)' = Owned(d),
         \A f \in Fd : kfile'[f].path = kfile[f].path
  PROVE  DescriptorsAccounted'
BY DEF DescriptorsAccounted

\* A read request is answered with the caller's file at the caller's offset,
\* from the original or from a copy.
LEMMA ReadAnswers ==
  ASSUME IInv, NEW c \in Caller, req[c].op = "read"
  PROVE  LET f == req[c].fd
             o == ReadOffset(c)
         IN  /\ req[c] = held[c].call /\ rsp[c] = NoRsp /\ bulk[c] = NoRsp
             /\ f = held[c].fd /\ f \in Fd /\ f \in Owned(c)
             /\ kfile[f].path = held[c].path /\ kfile[f].path \in Path
             /\ kfile[f].off = held[c].off
             /\ o = Wanted(c) /\ o \in Offset
             /\ Rsp("read", BytesAt(f, o), BlockAt(f, o)) = Answer(c)
             /\ BytesAt(f, o) = IF o < FileLen THEN 1 ELSE 0
<1> USE RpcConstants, ServerConstants
<1> DEFINE f == req[c].fd
           o == ReadOffset(c)
<1>0. /\ TypeOK /\ FdInv /\ CallInv(c) /\ OwnInv(c)
  BY DEF IInv
<1>1. /\ req[c] = held[c].call /\ rsp[c] = NoRsp /\ bulk[c] = NoRsp
      /\ f = held[c].fd /\ f # 0
  BY <1>0 DEF CallInv, CallOK, NoReq
<1>2. f \in Fd
  BY <1>0, <1>1 DEF TypeOK, RpcTypeOK, Holding, RpcIn
<1>3. /\ kfile[f].path = held[c].path /\ kfile[f].path \in Path
      /\ kfile[f].off = held[c].off
  BY <1>0, <1>1 DEF OwnInv, OffsetOf
<1>4. o = Wanted(c) /\ o \in Offset
  BY <1>0, <1>1, <1>2, <1>3 DEF ReadOffset, Wanted, TypeOK, RpcTypeOK,
     Holding, RpcIn
<1>5. Source(f) = held[c].path /\ Whole(f)
  <2>1. CASE kfile[f].dir = Absent
    BY <1>3, <2>1 DEF Source, Whole
  <2>2. CASE kfile[f].dir # Absent
    <3>1. burst[kfile[f].dir] = [path |-> kfile[f].path, state |-> "complete"]
      BY <1>0, <1>2, <2>2 DEF FdInv
    <3> QED
      BY <1>3, <2>2, <3>1 DEF Source, Whole
  <2> QED
    BY <2>1, <2>2
<1>6. f \in Owned(c)
  BY <1>1 DEF Owned
<1>7. BytesAt(f, o) = IF o < FileLen THEN 1 ELSE 0
  BY <1>5 DEF BytesAt
<1>8. Rsp("read", BytesAt(f, o), BlockAt(f, o)) = Answer(c)
  BY <1>4, <1>5, <1>7 DEF BlockAt, Answer
<1> QED
  BY <1>1, <1>2, <1>3, <1>4, <1>6, <1>7, <1>8

\* hvac_rpc_handler preserves it, whether the read succeeds or aborts.
LEMMA ReadIInv ==
  ASSUME IInv, NEW c \in Caller, hvac_rpc_handler(c), UNCHANGED callerVars
  PROVE  IInv'
<1> USE RpcConstants, ServerConstants
<1> DEFINE f == req[c].fd
           o == ReadOffset(c)
<1>0. /\ TypeOK /\ MoverInv /\ CacheSound /\ FdInv /\ DescriptorsAccounted
      /\ \A d \in Caller : CallInv(d) /\ OwnInv(d)
  BY DEF IInv
<1>1. UNCHANGED <<rsp, closeq, fd_to_path, moverVars, queueVars, handler,
                  callerVars>>
  BY DEF hvac_rpc_handler
<1>2. CASE ReadFails(c)
  <2>1. /\ crashed' \in {"no", "descriptor", "io"}
        /\ UNCHANGED <<req, kfile, bulk>>
    BY <1>2 DEF ReadFails
  <2>2. TypeOK' /\ MoverInv' /\ CacheSound' /\ FdInv'
    BY <1>0, <1>1, <2>1 DEF TypeOK, RpcTypeOK, Holding, MoverInv,
       CacheSound, FdInv, moverVars, queueVars, callerVars
  <2>3. \A d \in Caller : CallInv(d)' /\ OwnInv(d)' /\ Owned(d)' = Owned(d)
    BY <1>0, <1>1, <2>1, CallerFrame DEF callerVars
  <2>4. DescriptorsAccounted'
    BY <1>0, <1>1, <2>1, <2>3, AccountFrame
  <2> QED
    BY <2>2, <2>3, <2>4 DEF IInv
<1>3. CASE ReadOk(c)
  <2>1. /\ req[c] = held[c].call /\ rsp[c] = NoRsp /\ bulk[c] = NoRsp
        /\ f = held[c].fd /\ f \in Fd /\ f \in Owned(c)
        /\ kfile[f].path = held[c].path /\ kfile[f].path \in Path
        /\ kfile[f].off = held[c].off
        /\ o = Wanted(c) /\ o \in Offset
        /\ Rsp("read", BytesAt(f, o), BlockAt(f, o)) = Answer(c)
        /\ BytesAt(f, o) = IF o < FileLen THEN 1 ELSE 0
        /\ req[c].op = "read"
    BY ReadAnswers DEF hvac_rpc_handler
  <2>2. /\ bulk' = [bulk EXCEPT ![c] = Answer(c)]
        /\ kfile' = IF req[c].off = Sequential
                    THEN [kfile EXCEPT ![f].off = @ + BytesAt(f, o)] ELSE kfile
        /\ req' = [req EXCEPT ![c] = NoReq]
        /\ UNCHANGED crashed
    BY <1>3, <2>1 DEF ReadOk
  <2>3. Answer(c) \in RpcOut /\ Answer(c) # NoRsp
    BY <1>0, <2>1, IdleTypes
       DEF Answer, Rsp, NoRsp, RpcOut, RpcOp, Data, TypeOK, RpcTypeOK,
          Holding, Paths0, Offset
  <2>4. req[c].off = Sequential =>
          o = kfile[f].off /\ kfile[f].off + BytesAt(f, o) \in Offset
    BY <2>1 DEF ReadOffset, Offset
  <2>5. /\ kfile' \in [Fd -> [path : Paths0, dir : Dir \cup {Absent},
                              off : Offset]]
        /\ \A g \in Fd : kfile'[g].path = kfile[g].path
                          /\ kfile'[g].dir = kfile[g].dir
        /\ \A g \in Fd \ {f} : kfile'[g].off = kfile[g].off
        /\ kfile'[f].off = IF req[c].off = Sequential
                            THEN kfile[f].off + BytesAt(f, o)
                            ELSE kfile[f].off
    <3>1. CASE req[c].off = Sequential
      <4> DEFINE n == kfile[f].off + BytesAt(f, o)
      <4>1. kfile' = [kfile EXCEPT ![f].off = n] /\ n \in Offset /\ f \in Fd
        BY <2>1, <2>2, <2>4, <3>1
      <4> HIDE DEF n, f
      <4>2. /\ kfile' \in [Fd -> [path : Paths0, dir : Dir \cup {Absent},
                                 off : Offset]]
            /\ \A g \in Fd : kfile'[g].path = kfile[g].path
                              /\ kfile'[g].dir = kfile[g].dir
            /\ \A g \in Fd \ {f} : kfile'[g].off = kfile[g].off
            /\ kfile'[f].off = n
        BY <1>0, <4>1, OffsetMoves
      <4> QED
        BY <3>1, <4>2 DEF n
    <3>2. CASE req[c].off # Sequential
      BY <1>0, <2>2, <3>2 DEF TypeOK, RpcTypeOK, Holding
    <3> QED
      BY <3>1, <3>2
  <2>6. TypeOK'
    BY <1>0, <1>1, <2>2, <2>3, <2>5, IdleTypes
       DEF TypeOK, RpcTypeOK, Holding, moverVars, queueVars, callerVars
  <2>7. MoverInv' /\ CacheSound' /\ FdInv'
    <3>1. MoverInv' /\ CacheSound'
      BY <1>0, <1>1 DEF MoverInv, CacheSound, moverVars, queueVars
    <3>2. FdInv'
      BY <1>0, <1>1, <2>5 DEF FdInv, moverVars
    <3> QED
      BY <3>1, <3>2
  <2>8. CallInv(c)' /\ Owned(c)' = Owned(c)
    BY <1>0, <1>1, <2>1, <2>2, <2>3
       DEF CallInv, CallOK, Answer, Wanted, Owned, Arriving, NoReq,
          NoRsp, TypeOK, RpcTypeOK, Holding, callerVars
  <2>9. OwnInv(c)'
    BY <1>0, <1>1, <2>1, <2>2, <2>3, <2>5
       DEF OwnInv, OffsetOf, OffsetAfter, Arriving, Answer, Rsp, NoRsp,
          TypeOK, RpcTypeOK, Holding, callerVars
  <2>10. \A d \in Caller \ {c} :
           CallInv(d)' /\ OwnInv(d)' /\ Owned(d)' = Owned(d)
    <3> SUFFICES ASSUME NEW d \in Caller \ {c}
                 PROVE  CallInv(d)' /\ OwnInv(d)' /\ Owned(d)' = Owned(d)
      OBVIOUS
    <3>1. f \notin Owned(d)
      BY <1>0, <2>1 DEF DescriptorsAccounted
    <3>2. \A g \in Owned(d) : kfile'[g].path = kfile[g].path
                              /\ kfile'[g].off = kfile[g].off
      <4>1. Owned(d) \subseteq Fd
        BY <1>0 DEF Owned, Arriving, CallInv, NoRsp, TypeOK, RpcTypeOK, Holding
      <4> QED
        BY <2>5, <3>1, <4>1
    <3> QED
      BY <1>0, <1>1, <2>2, <3>2, CallerFrame DEF TypeOK, RpcTypeOK,
         Holding, callerVars
  <2>11. DescriptorsAccounted'
    <3>1. \A d \in Caller : Owned(d)' = Owned(d)
      BY <2>8, <2>10
    <3> QED
      BY <1>0, <1>1, <2>5, <3>1, AccountFrame
  <2> QED
    BY <2>6, <2>7, <2>8, <2>9, <2>10, <2>11 DEF IInv
<1> QED
  BY <1>2, <1>3 DEF hvac_rpc_handler

\* hvac_rpc_handler_bulk_cb, which sends the response, preserves it.
LEMMA BulkIInv ==
  ASSUME IInv, NEW c \in Caller, hvac_rpc_handler_bulk_cb(c),
         UNCHANGED callerVars
  PROVE  IInv'
<1> USE RpcConstants, ServerConstants
<1>0. /\ TypeOK /\ MoverInv /\ CacheSound /\ FdInv /\ DescriptorsAccounted
      /\ \A d \in Caller : CallInv(d) /\ OwnInv(d)
  BY DEF IInv
<1>1. /\ bulk[c] # NoRsp
      /\ rsp' = [rsp EXCEPT ![c] = bulk[c]]
      /\ bulk' = [bulk EXCEPT ![c] = NoRsp]
      /\ UNCHANGED <<req, closeq, fdVars, moverVars, queueVars, handler,
                     crashed, callerVars>>
  BY DEF hvac_rpc_handler_bulk_cb
<1>2. /\ held[c].call.op = "read" /\ bulk[c] = Answer(c) /\ rsp[c] = NoRsp
      /\ req[c] = NoReq /\ held[c].call # NoReq
  BY <1>0, <1>1 DEF CallInv, NoReq
<1>3. bulk[c].op = "read"
  BY <1>2 DEF Answer, Rsp
<1>4. TypeOK'
  BY <1>0, <1>1, IdleTypes
     DEF TypeOK, RpcTypeOK, Holding, fdVars, moverVars, queueVars, callerVars
<1>5. MoverInv' /\ CacheSound' /\ FdInv'
  BY <1>0, <1>1 DEF MoverInv, CacheSound, FdInv, fdVars, moverVars, queueVars
<1>6. CallInv(c)' /\ Owned(c)' = Owned(c)
  <2>1. /\ rsp'[c] = Answer(c) /\ bulk'[c] = NoRsp /\ req'[c] = NoReq
        /\ held' = held /\ Answer(c)' = Answer(c) /\ CallOK(c)' = CallOK(c)
    BY <1>0, <1>1, <1>2 DEF TypeOK, RpcTypeOK, Holding, callerVars,
       Answer, Wanted, CallOK
  <2>2. rsp'[c].op = "read" /\ rsp[c].op = "none"
    BY <1>2, <1>3, <2>1 DEF NoRsp
  <2>3. Owned(c)' = Owned(c)
    BY <2>1, <2>2 DEF Owned, Arriving
  <2> QED
    BY <1>0, <1>2, <2>1, <2>2, <2>3 DEF CallInv
<1>7. OwnInv(c)'
  BY <1>0, <1>1, <1>2, <1>3
     DEF OwnInv, OffsetOf, OffsetAfter, Arriving, TypeOK, RpcTypeOK,
        Holding, callerVars, fdVars, NoRsp
<1>8. \A d \in Caller \ {c} : CallInv(d)' /\ OwnInv(d)' /\ Owned(d)' = Owned(d)
  BY <1>0, <1>1, CallerFrame DEF TypeOK, RpcTypeOK, Holding, fdVars, callerVars
<1>9. DescriptorsAccounted'
  <2>1. \A d \in Caller : Owned(d)' = Owned(d)
    BY <1>6, <1>8
  <2> QED
    BY <1>0, <1>1, <2>1, AccountFrame DEF fdVars
<1> QED
  BY <1>4, <1>5, <1>6, <1>7, <1>8, <1>9 DEF IInv

\* A push or a response that fails ends the server, and nothing else changes.
LEMMA PushFailsIInv ==
  ASSUME IInv, NEW c \in Caller, PushFails(c), UNCHANGED callerVars
  PROVE  IInv'
<1>0. /\ TypeOK /\ MoverInv /\ CacheSound /\ FdInv /\ DescriptorsAccounted
      /\ \A d \in Caller : CallInv(d) /\ OwnInv(d)
  BY DEF IInv
<1>1. /\ crashed' = "io"
      /\ UNCHANGED <<req, rsp, closeq, kfile, fd_to_path, moverVars, queueVars,
                     handler, bulk, callerVars>>
  BY DEF PushFails, ifVars, fdVars
<1>2. TypeOK' /\ MoverInv' /\ CacheSound' /\ FdInv'
  BY <1>0, <1>1 DEF TypeOK, RpcTypeOK, Holding, MoverInv, CacheSound, FdInv,
     moverVars, queueVars, callerVars
<1>3. \A d \in Caller : CallInv(d)' /\ OwnInv(d)' /\ Owned(d)' = Owned(d)
  BY <1>0, <1>1, CallerFrame DEF callerVars
<1>4. DescriptorsAccounted'
  BY <1>0, <1>1, <1>3, AccountFrame
<1> QED
  BY <1>2, <1>3, <1>4 DEF IInv

\* The descriptors of two callers are different, and all are descriptors.
LEMMA OwnedApart ==
  ASSUME IInv, NEW c \in Caller, NEW d \in Caller \ {c}
  PROVE  Owned(d) \subseteq Fd /\ Owned(c) \cap Owned(d) = {}
<1>1. Owned(d) \subseteq Fd
  BY DEF IInv, Owned, Arriving, CallInv, NoRsp, TypeOK, RpcTypeOK, Holding
<1>2. Owned(c) \cap Owned(d) = {}
  BY DEF IInv, DescriptorsAccounted
<1> QED
  BY <1>1, <1>2

\* hvac_seek_rpc_handler preserves it.
LEMMA SeekIInv ==
  ASSUME IInv, NEW c \in Caller, hvac_seek_rpc_handler(c),
         UNCHANGED callerVars
  PROVE  IInv'
<1> USE RpcConstants, ServerConstants
<1> DEFINE f == req[c].fd
           n == req[c].off
<1>0. /\ TypeOK /\ MoverInv /\ CacheSound /\ FdInv /\ DescriptorsAccounted
      /\ \A d \in Caller : CallInv(d) /\ OwnInv(d)
  BY DEF IInv
<1>1. /\ req[c] = held[c].call /\ req[c].op = "seek" /\ rsp[c] = NoRsp
      /\ bulk[c] = NoRsp /\ f = held[c].fd /\ f # 0 /\ n \in Offset
  BY <1>0 DEF hvac_seek_rpc_handler, CallInv, CallOK, NoReq
<1>2. /\ f \in Fd /\ f \in Owned(c)
      /\ kfile[f].path = held[c].path /\ kfile[f].path # NoPath
  BY <1>0, <1>1 DEF TypeOK, RpcTypeOK, Holding, RpcIn, OwnInv, Owned
<1>3. /\ kfile' = [kfile EXCEPT ![f].off = n]
      /\ req' = [req EXCEPT ![c] = NoReq]
      /\ rsp' = [rsp EXCEPT ![c] = Rsp("seek", n, NoData)]
      /\ UNCHANGED <<closeq, fd_to_path, moverVars, queueVars, handlerVars,
                     callerVars>>
  BY <1>2 DEF hvac_seek_rpc_handler, Respond
<1>4. /\ kfile' \in [Fd -> [path : Paths0, dir : Dir \cup {Absent},
                           off : Offset]]
      /\ \A g \in Fd : kfile'[g].path = kfile[g].path
                        /\ kfile'[g].dir = kfile[g].dir
      /\ \A g \in Fd \ {f} : kfile'[g].off = kfile[g].off
      /\ kfile'[f].off = n
  <2>1. f \in Fd /\ n \in Offset /\ kfile' = [kfile EXCEPT ![f].off = n]
    BY <1>1, <1>2, <1>3
  <2> HIDE DEF f, n
  <2> QED
    BY <1>0, <2>1, OffsetMoves
<1>5. TypeOK'
  <2>1. Rsp("seek", n, NoData) \in RpcOut
    BY <1>1, IdleTypes DEF Rsp, RpcOut, RpcOp, Offset
  <2> QED
    BY <1>0, <1>3, <1>4, <2>1, IdleTypes
       DEF TypeOK, RpcTypeOK, Holding, moverVars, queueVars,
          handlerVars, callerVars
<1>6. MoverInv' /\ CacheSound'
  BY <1>0, <1>3 DEF MoverInv, CacheSound, moverVars, queueVars
<1>7. FdInv'
  BY <1>0, <1>3, <1>4 DEF FdInv, moverVars, handlerVars
<1>8. CallInv(c)' /\ Owned(c)' = Owned(c)
  BY <1>0, <1>1, <1>3
     DEF CallInv, CallOK, Rsp, NoReq, NoRsp, Owned, Arriving, TypeOK,
        RpcTypeOK, Holding, handlerVars, callerVars
<1>9. OwnInv(c)'
  BY <1>0, <1>1, <1>2, <1>3, <1>4
     DEF OwnInv, OffsetOf, OffsetAfter, Arriving, Rsp, NoRsp, TypeOK,
        RpcTypeOK, Holding, callerVars
<1>10. \A d \in Caller \ {c} :
         CallInv(d)' /\ OwnInv(d)' /\ Owned(d)' = Owned(d)
  <2> SUFFICES ASSUME NEW d \in Caller \ {c}
               PROVE  CallInv(d)' /\ OwnInv(d)' /\ Owned(d)' = Owned(d)
    OBVIOUS
  <2>1. \A g \in Owned(d) : kfile'[g].path = kfile[g].path
                            /\ kfile'[g].off = kfile[g].off
    BY <1>2, <1>4, OwnedApart
  <2> QED
    BY <1>0, <1>3, <2>1, CallerFrame DEF TypeOK, RpcTypeOK, Holding,
       handlerVars, callerVars
<1>11. DescriptorsAccounted'
  <2>1. \A d \in Caller : Owned(d)' = Owned(d)
    BY <1>8, <1>10
  <2> QED
    BY <1>0, <1>3, <1>4, <2>1, AccountFrame
<1> QED
  BY <1>5, <1>6, <1>7, <1>8, <1>9, <1>10, <1>11 DEF IInv

\* The close handler up to its lookup preserves it.
LEMMA CloseIInv ==
  ASSUME IInv, NEW f \in Fd, hvac_close_rpc_handler(f), UNCHANGED callerVars
  PROVE  IInv'
<1> USE RpcConstants, ServerConstants
<1> DEFINE p == fd_to_path[f]
<1>0. /\ TypeOK /\ MoverInv /\ CacheSound /\ FdInv /\ DescriptorsAccounted
      /\ \A d \in Caller : CallInv(d) /\ OwnInv(d)
  BY DEF IInv
<1>1. /\ f \in closeq /\ kfile[f].path # NoPath /\ handler = NoHandler
      /\ p = kfile[f].path /\ p \in Path
  BY <1>0 DEF hvac_close_rpc_handler, HandlerIdle, DescriptorsAccounted,
     FdInv, TypeOK, RpcTypeOK, Holding, Paths0
<1>2. /\ closeq' = closeq \ {f} /\ crashed' = crashed
      /\ CloseAndLookup(f)
      /\ UNCHANGED <<req, rsp, moverVars, queueVars, bulk, callerVars>>
  BY <1>1 DEF hvac_close_rpc_handler, BadFd
<1>3. /\ kfile' = [kfile EXCEPT ![f] = Closed]
      /\ \/ handler' = [path |-> p, fd |-> f] /\ fd_to_path' = fd_to_path
         \/ handler' = handler /\ fd_to_path' = [fd_to_path EXCEPT ![f] = NoPath]
  BY <1>2 DEF CloseAndLookup
<1>4. TypeOK'
  <2>1. kfile' \in [Fd -> [path : Paths0, dir : Dir \cup {Absent},
                           off : Offset]]
    BY <1>0, <1>3, IdleTypes DEF TypeOK, RpcTypeOK, Holding
  <2>2. /\ handler' \in [path : Paths0, fd : Fd \cup {0}]
        /\ fd_to_path' \in [Fd \cup {Failed} -> Paths0]
    <3>1. p \in Paths0 /\ NoPath \in Paths0
      BY <1>1 DEF Paths0
    <3> HIDE DEF p
    <3>2. [path |-> p, fd |-> f] \in [path : Paths0, fd : Fd \cup {0}]
      BY <3>1
    <3>3. [fd_to_path EXCEPT ![f] = NoPath] \in [Fd \cup {Failed} -> Paths0]
      BY <1>0, <3>1 DEF TypeOK, RpcTypeOK, Holding
    <3> QED
      BY <1>0, <1>3, <3>2, <3>3 DEF TypeOK, RpcTypeOK, Holding
  <2> QED
    BY <1>0, <1>2, <2>1, <2>2
       DEF TypeOK, RpcTypeOK, Holding, moverVars, queueVars, callerVars
<1>5. MoverInv' /\ CacheSound'
  BY <1>0, <1>2 DEF MoverInv, CacheSound, moverVars, queueVars
<1>6. FdInv'
  BY <1>0, <1>1, <1>2, <1>3 DEF FdInv, TypeOK, RpcTypeOK, Holding, Closed,
     moverVars
<1>7. \A d \in Caller : CallInv(d)' /\ OwnInv(d)' /\ Owned(d)' = Owned(d)
  <2> SUFFICES ASSUME NEW d \in Caller
               PROVE  CallInv(d)' /\ OwnInv(d)' /\ Owned(d)' = Owned(d)
    OBVIOUS
  <2>1. \A g \in Owned(d) : kfile'[g] = kfile[g]
    BY <1>0, <1>1, <1>3 DEF DescriptorsAccounted, TypeOK, RpcTypeOK, Holding
  <2> QED
    BY <1>0, <1>2, <2>1, CallerFrame DEF callerVars
<1>8. DescriptorsAccounted'
  <2>1. \A g \in Fd : kfile'[g].path # NoPath
                        <=> kfile[g].path # NoPath /\ g # f
    BY <1>0, <1>3 DEF TypeOK, RpcTypeOK, Holding, Closed
  <2>2. \A d \in Caller : f \notin Owned(d)
    BY <1>0, <1>1 DEF DescriptorsAccounted
  <2>3. \A g \in Fd : kfile'[g].path # NoPath
                        <=> g \in closeq' \/ \E d \in Caller : g \in Owned(d)'
    <3> SUFFICES ASSUME NEW g \in Fd
                 PROVE  kfile'[g].path # NoPath
                        <=> g \in closeq' \/ \E d \in Caller : g \in Owned(d)'
      OBVIOUS
    <3>1. kfile[g].path # NoPath
            <=> g \in closeq \/ \E d \in Caller : g \in Owned(d)
      BY <1>0 DEF DescriptorsAccounted
    <3>2. \A d \in Caller : g \in Owned(d)' <=> g \in Owned(d)
      BY <1>7
    <3>3. CASE g = f
      BY <1>2, <2>1, <2>2, <3>2, <3>3
    <3>4. CASE g # f
      BY <1>2, <2>1, <3>1, <3>2, <3>4
    <3> QED
      BY <3>3, <3>4
  <2>4. \A d \in Caller : Owned(d)' \cap closeq' = {}
    BY <1>0, <1>2, <1>7 DEF DescriptorsAccounted
  <2>5. \A d, e \in Caller : d # e => Owned(d)' \cap Owned(e)' = {}
    BY <1>0, <1>7 DEF DescriptorsAccounted
  <2> QED
    BY <2>3, <2>4, <2>5 DEF DescriptorsAccounted
<1> QED
  BY <1>4, <1>5, <1>6, <1>7, <1>8 DEF IInv

\* The rest of the close handler, push and erase, preserves it.
LEMMA CloseQueuesIInv ==
  ASSUME IInv, CloseQueuesPath, UNCHANGED callerVars
  PROVE  IInv'
<1> USE RpcConstants, ServerConstants
<1>0. /\ TypeOK /\ MoverInv /\ CacheSound /\ FdInv /\ DescriptorsAccounted
      /\ \A d \in Caller : CallInv(d) /\ OwnInv(d)
  BY DEF IInv
<1>1. /\ handler # NoHandler
      /\ data_queue' = Append(data_queue, handler.path)
      /\ mover_pc' = IF mover_pc = "waiting" THEN "signalled" ELSE mover_pc
      /\ fd_to_path' = [fd_to_path EXCEPT ![handler.fd] = NoPath]
      /\ handler' = NoHandler
      /\ UNCHANGED <<ifVars, kfile, moverVars, bulk, crashed, callerVars>>
  BY DEF CloseQueuesPath, pthread_cond_signal
<1>2. /\ handler.path \in Path /\ handler.fd \in Fd
      /\ kfile[handler.fd].path = NoPath
  BY <1>0, <1>1 DEF FdInv
<1>3. TypeOK'
  BY <1>0, <1>1, <1>2
     DEF TypeOK, RpcTypeOK, Holding, NoHandler, Paths0, ifVars,
        moverVars, callerVars
<1>4. MoverInv' /\ CacheSound'
  BY <1>0, <1>1 DEF MoverInv, CacheSound, TypeOK, RpcTypeOK, Holding, moverVars
<1>5. FdInv'
  BY <1>0, <1>1, <1>2 DEF FdInv, TypeOK, RpcTypeOK, Holding, moverVars
<1>6. \A d \in Caller : CallInv(d)' /\ OwnInv(d)' /\ Owned(d)' = Owned(d)
  BY <1>0, <1>1, CallerFrame DEF ifVars, callerVars
<1>7. DescriptorsAccounted'
  BY <1>0, <1>1, <1>6, AccountFrame DEF ifVars
<1> QED
  BY <1>3, <1>4, <1>5, <1>6, <1>7 DEF IInv

-----------------------------------------------------------------------------
(* The callers' steps.                                                     *)

\* A call that c may make in its present state.
MayCall(c, r) ==
  /\ r \in RpcIn /\ r # NoReq
  /\ \/ r.op = "open" /\ r.path \in Path /\ held[c].fd = 0
     \/ r.op = "read" /\ r.fd = held[c].fd /\ held[c].fd # 0
     \/ r.op = "seek" /\ r.fd = held[c].fd /\ held[c].fd # 0 /\ r.off \in Offset

\* A caller that sends an open, read or seek RPC preserves it.
LEMMA CallsIInv ==
  ASSUME IInv, NEW c \in Caller, NEW r, MayCall(c, r), Calls(c, r), UNCHANGED serverVars,
         held' = [held EXCEPT ![c].call = r], opens' \in Nat
  PROVE  IInv'
<1> USE RpcConstants, ServerConstants
<1>0. /\ TypeOK /\ MoverInv /\ CacheSound /\ FdInv /\ DescriptorsAccounted
      /\ \A d \in Caller : CallInv(d) /\ OwnInv(d)
  BY DEF IInv
<1>1. /\ held[c].call = NoReq
      /\ req' = [req EXCEPT ![c] = r]
      /\ UNCHANGED <<rsp, closeq, fdVars, moverVars, queueVars, handlerVars>>
  BY DEF Calls, serverVars
<1>2. /\ rsp[c] = NoRsp /\ bulk[c] = NoRsp
  BY <1>0, <1>1 DEF CallInv
<1>3. /\ held' \in [Caller -> Holding]
      /\ held'[c].fd = held[c].fd /\ held'[c].path = held[c].path
      /\ held'[c].off = held[c].off /\ held'[c].call = r
      /\ \A d \in Caller \ {c} : held'[d] = held[d]
  <2>1. held \in [Caller -> Holding] /\ r \in RpcIn
    BY <1>0 DEF TypeOK, RpcTypeOK, MayCall
  <2> QED
    BY <2>1 DEF Holding
<1>4. TypeOK'
  BY <1>0, <1>1, <1>3
     DEF TypeOK, RpcTypeOK, Holding, MayCall, fdVars, moverVars,
        queueVars, handlerVars
<1>5. MoverInv' /\ CacheSound' /\ FdInv'
  BY <1>0, <1>1 DEF MoverInv, CacheSound, FdInv, fdVars, moverVars,
     queueVars, handlerVars
<1>6. CallInv(c)'
  BY <1>0, <1>1, <1>2, <1>3
     DEF CallInv, CallOK, MayCall, TypeOK, RpcTypeOK, Holding, handlerVars
<1>7. OwnInv(c)' /\ Owned(c)' = Owned(c)
  BY <1>0, <1>1, <1>2, <1>3
     DEF OwnInv, OffsetOf, Owned, Arriving, NoRsp, fdVars, handlerVars
<1>8. \A d \in Caller \ {c} : CallInv(d)' /\ OwnInv(d)' /\ Owned(d)' = Owned(d)
  BY <1>0, <1>1, <1>3, CallerFrame DEF TypeOK, RpcTypeOK, Holding, fdVars,
     handlerVars
<1>9. DescriptorsAccounted'
  <2>1. \A d \in Caller : Owned(d)' = Owned(d)
    BY <1>7, <1>8
  <2> QED
    BY <1>0, <1>1, <2>1, AccountFrame DEF fdVars
<1> QED
  BY <1>4, <1>5, <1>6, <1>7, <1>8, <1>9 DEF IInv

\* A caller that sends its close RPC preserves it.
LEMMA ClientCloseIInv ==
  ASSUME IInv, NEW c \in Caller, ClientClose(c), UNCHANGED serverVars
  PROVE  IInv'
<1> USE RpcConstants, ServerConstants
<1> DEFINE f == held[c].fd
<1>0. /\ TypeOK /\ MoverInv /\ CacheSound /\ FdInv /\ DescriptorsAccounted
      /\ \A d \in Caller : CallInv(d) /\ OwnInv(d)
  BY DEF IInv
<1>1. /\ f # 0 /\ held[c].call = NoReq
      /\ closeq' = closeq \cup {f}
      /\ held' = [held EXCEPT ![c] = NothingHeld]
      /\ UNCHANGED <<req, rsp, fdVars, moverVars, queueVars, handlerVars, opens>>
  BY DEF ClientClose, serverVars
<1>2. /\ f \in Fd /\ rsp[c] = NoRsp /\ bulk[c] = NoRsp /\ req[c] = NoReq
      /\ Owned(c) = {f}
  BY <1>0, <1>1 DEF TypeOK, RpcTypeOK, Holding, CallInv, Owned, Arriving, NoRsp
<1>3. TypeOK'
  BY <1>0, <1>1, <1>2, IdleTypes
     DEF TypeOK, RpcTypeOK, Holding, fdVars, moverVars, queueVars, handlerVars
<1>4. MoverInv' /\ CacheSound' /\ FdInv'
  BY <1>0, <1>1 DEF MoverInv, CacheSound, FdInv, fdVars, moverVars,
     queueVars, handlerVars
<1>5. held'[c] = NothingHeld /\ \A d \in Caller \ {c} : held'[d] = held[d]
  BY <1>0, <1>1 DEF TypeOK, RpcTypeOK, Holding
<1>6. CallInv(c)' /\ OwnInv(c)' /\ Owned(c)' = {}
  BY <1>1, <1>2, <1>5
     DEF CallInv, CallOK, OwnInv, Owned, Arriving, NothingHeld, NoRsp,
        handlerVars
<1>7. \A d \in Caller \ {c} : CallInv(d)' /\ OwnInv(d)' /\ Owned(d)' = Owned(d)
  BY <1>0, <1>1, <1>5, CallerFrame DEF fdVars, handlerVars
<1>8. DescriptorsAccounted'
  <2>1. \A g \in Fd : kfile'[g].path # NoPath
                        <=> g \in closeq' \/ \E d \in Caller : g \in Owned(d)'
    <3> SUFFICES ASSUME NEW g \in Fd
                 PROVE  kfile'[g].path # NoPath
                        <=> g \in closeq' \/ \E d \in Caller : g \in Owned(d)'
      OBVIOUS
    <3>1. kfile'[g].path # NoPath
            <=> g \in closeq \/ \E d \in Caller : g \in Owned(d)
      BY <1>0, <1>1 DEF DescriptorsAccounted, fdVars
    <3>2. \A d \in Caller \ {c} : g \in Owned(d)' <=> g \in Owned(d)
      BY <1>7
    <3> QED
      BY <1>1, <1>2, <1>6, <3>1, <3>2
  <2>2. \A d \in Caller : Owned(d)' \cap closeq' = {}
    <3>1. \A d \in Caller \ {c} : f \notin Owned(d) /\ Owned(d) \cap closeq = {}
      BY <1>0, <1>2 DEF DescriptorsAccounted
    <3>2. \A d \in Caller \ {c} : Owned(d)' \cap closeq' = {}
      BY <1>1, <1>7, <3>1
    <3> QED
      BY <1>6, <3>2
  <2>3. \A d, e \in Caller : d # e => Owned(d)' \cap Owned(e)' = {}
    <3>1. \A d, e \in Caller \ {c} : d # e => Owned(d)' \cap Owned(e)' = {}
      BY <1>0, <1>7 DEF DescriptorsAccounted
    <3> QED
      BY <1>6, <3>1
  <2> QED
    BY <2>1, <2>2, <2>3 DEF DescriptorsAccounted
<1> QED
  BY <1>3, <1>4, <1>6, <1>7, <1>8 DEF IInv

\* A caller that takes its response preserves it.
LEMMA ClientRecvIInv ==
  ASSUME IInv, NEW c \in Caller, ClientRecv(c), UNCHANGED serverVars
  PROVE  IInv'
<1> USE RpcConstants, ServerConstants
<1> DEFINE r == rsp[c]
           k == held[c].call
<1>0. /\ TypeOK /\ MoverInv /\ CacheSound /\ FdInv /\ DescriptorsAccounted
      /\ \A d \in Caller : CallInv(d) /\ OwnInv(d)
  BY DEF IInv
<1>1. /\ r # NoRsp
      /\ rsp' = [rsp EXCEPT ![c] = NoRsp]
      /\ UNCHANGED <<req, closeq, fdVars, moverVars, queueVars, handlerVars, opens>>
  BY DEF ClientRecv, serverVars
<1>2. /\ req[c] = NoReq /\ bulk[c] = NoRsp /\ k # NoReq /\ r.op = k.op
  BY <1>0, <1>1 DEF CallInv
<1>3. /\ rsp'[c] = NoRsp /\ bulk'[c] = NoRsp /\ req'[c] = NoReq
      /\ \A d \in Caller \ {c} : held'[d] = held[d] /\ rsp'[d] = rsp[d]
                                  /\ bulk'[d] = bulk[d] /\ req'[d] = req[d]
  BY <1>0, <1>1, <1>2 DEF ClientRecv, TypeOK, RpcTypeOK, Holding, handlerVars
<1>4. /\ held' \in [Caller -> Holding]
      /\ CallInv(c)' /\ OwnInv(c)' /\ Owned(c)' = Owned(c)
  <2>1. CASE r.op # "open"
    <3>1. k.op \in {"read", "seek"} /\ held[c].fd # 0
      BY <1>0, <1>2, <2>1 DEF CallInv, CallOK
    <3>2. OffsetAfter(c, r) \in Offset
      <4>1. CASE k.op = "seek"
        BY <1>0, <1>2, <4>1 DEF OffsetAfter, CallInv, CallOK
      <4>2. CASE k.op = "read"
        <5>1. r = Answer(c) /\ held[c].off \in Offset
          BY <1>0, <1>1, <1>2, <4>2 DEF CallInv, TypeOK, RpcTypeOK, Holding
        <5>2. k.off = Sequential => held[c].off + r.ret \in Offset
          BY <5>1 DEF Answer, Wanted, Rsp, Offset
        <5> QED
          BY <4>2, <5>1, <5>2 DEF OffsetAfter
      <4> QED
        BY <3>1, <4>1, <4>2
    <3>3. held' = [held EXCEPT ![c] = [held[c] EXCEPT
                     !.off = OffsetAfter(c, r), !.call = NoReq]]
      BY <2>1 DEF ClientRecv
    <3>4. /\ held' \in [Caller -> Holding]
          /\ held'[c].fd = held[c].fd /\ held'[c].path = held[c].path
          /\ held'[c].off = OffsetAfter(c, r) /\ held'[c].call = NoReq
      BY <1>0, <3>2, <3>3, IdleTypes DEF TypeOK, RpcTypeOK, Holding
    <3>5. CallInv(c)'
      BY <1>3, <3>4 DEF CallInv, CallOK
    <3>6. Owned(c)' = Owned(c) /\ Arriving(c)' = {}
      BY <1>3, <2>1, <3>4 DEF Owned, Arriving, NoRsp
    <3>7. OwnInv(c)'
      BY <1>0, <1>1, <1>3, <3>1, <3>4, <3>6 DEF OwnInv, OffsetOf, fdVars
    <3> QED
      BY <3>4, <3>5, <3>6, <3>7
  <2>2. CASE r.op = "open" /\ r.ret = Failed
    <3>1. held' = [held EXCEPT ![c] = NothingHeld] /\ held[c].fd = 0
      BY <1>0, <1>2, <2>2 DEF ClientRecv, CallInv, CallOK
    <3>2. /\ held' \in [Caller -> Holding]
          /\ held'[c] = NothingHeld
      BY <1>0, <3>1, IdleTypes DEF TypeOK, RpcTypeOK, Holding
    <3>3. CallInv(c)' /\ OwnInv(c)' /\ Owned(c)' = Owned(c)
      BY <1>3, <2>2, <3>1, <3>2
         DEF CallInv, CallOK, OwnInv, Owned, Arriving, NothingHeld, NoRsp
    <3> QED
      BY <3>2, <3>3
  <2>3. CASE r.op = "open" /\ r.ret # Failed
    <3> DEFINE h == [fd |-> r.ret, path |-> k.path, off |-> 0, call |-> NoReq]
    <3>1. held' = [held EXCEPT ![c] = h] /\ held[c].fd = 0
      BY <1>0, <1>2, <2>3 DEF ClientRecv, CallInv, CallOK
    <3>2. r.ret \in Fd /\ r.ret # 0 /\ k.path \in Path /\ Arriving(c) = {r.ret}
      BY <1>0, <1>1, <1>2, <2>3 DEF CallInv, CallOK, Arriving
    <3>3. h \in Holding
      BY <3>2, IdleTypes DEF Paths0, Offset, Holding
    <3>4. /\ held' \in [Caller -> Holding]
          /\ held'[c] = h
      BY <1>0, <3>1, <3>3 DEF TypeOK, RpcTypeOK, Holding
    <3>5. CallInv(c)'
      BY <1>3, <3>4 DEF CallInv, CallOK
    <3>6. Owned(c)' = Owned(c) /\ Arriving(c)' = {}
      BY <1>3, <3>1, <3>2, <3>4 DEF Owned, Arriving, NoRsp
    <3>7. OwnInv(c)'
      <4>1. kfile[r.ret].path = k.path /\ kfile[r.ret].off = 0 /\ kfile' = kfile
        BY <1>0, <1>1, <3>2 DEF OwnInv, fdVars
      <4>2. OffsetOf(c)' = 0
        BY <1>3, <3>4 DEF OffsetOf
      <4> QED
        BY <3>2, <3>4, <3>6, <4>1, <4>2 DEF OwnInv
    <3> QED
      BY <3>4, <3>5, <3>6, <3>7
  <2> QED
    BY <2>1, <2>2, <2>3
<1>5. TypeOK'
  BY <1>0, <1>1, <1>4, IdleTypes
     DEF TypeOK, RpcTypeOK, Holding, fdVars, moverVars, queueVars, handlerVars
<1>6. MoverInv' /\ CacheSound' /\ FdInv'
  BY <1>0, <1>1 DEF MoverInv, CacheSound, FdInv, fdVars, moverVars,
     queueVars, handlerVars
<1>7. \A d \in Caller \ {c} : CallInv(d)' /\ OwnInv(d)' /\ Owned(d)' = Owned(d)
  BY <1>0, <1>1, <1>3, CallerFrame DEF fdVars
<1>8. DescriptorsAccounted'
  <2>1. \A d \in Caller : Owned(d)' = Owned(d)
    BY <1>4, <1>7
  <2> QED
    BY <1>0, <1>1, <2>1, AccountFrame DEF fdVars
<1> QED
  BY <1>4, <1>5, <1>6, <1>7, <1>8 DEF IInv

-----------------------------------------------------------------------------
\* Every step of the server and of its callers preserves it.
LEMMA NextIInv == IInv /\ [Next]_vars => IInv'
<1> SUFFICES ASSUME IInv, [Next]_vars PROVE IInv'
  OBVIOUS
<1>0. TypeOK
  BY DEF IInv
<1>1. CASE ServerNext /\ UNCHANGED callerVars
  BY <1>1, OpenIInv, ReadIInv, BulkIInv, PushFailsIInv, SeekIInv, CloseIInv,
     CloseQueuesIInv, MoverStepIInv DEF ServerNext, Handler
<1>2. CASE CallerNext /\ UNCHANGED serverVars
  <2> PICK c \in Caller :
        \/ \E p \in Path : ClientOpen(c, p)
        \/ \E o \in Offset \cup {Sequential} : ClientRead(c, o)
        \/ \E o \in Offset : ClientSeek(c, o)
        \/ ClientClose(c)
        \/ ClientRecv(c)
    BY <1>2 DEF CallerNext
  <2>0. /\ held[c].fd \in Fd \cup {0} /\ 0 \in Offset /\ opens \in Nat
        /\ UNCHANGED serverVars
    BY <1>0, <1>2, RpcConstants, ServerConstants DEF TypeOK, RpcTypeOK, Holding,
       Offset
  <2>1. ASSUME NEW p \in Path, ClientOpen(c, p) PROVE IInv'
    <3>1. MayCall(c, OpenReq(p))
      BY <2>0, <2>1 DEF MayCall, ClientOpen, OpenReq, NoReq, RpcIn,
         RpcOp, Paths0
    <3>2. opens' \in Nat /\ Calls(c, OpenReq(p))
          /\ held' = [held EXCEPT ![c].call = OpenReq(p)]
      BY <2>0, <2>1 DEF ClientOpen
    <3> QED
      BY <2>0, <3>1, <3>2, CallsIInv
  <2>2. ASSUME NEW o \in Offset \cup {Sequential}, ClientRead(c, o) PROVE IInv'
    <3>1. MayCall(c, ReadReq(held[c].fd, o))
      BY <2>0, <2>2 DEF MayCall, ClientRead, ReadReq, NoReq, RpcIn,
         RpcOp, Paths0
    <3> QED
      BY <2>0, <2>2, <3>1, CallsIInv DEF ClientRead
  <2>3. ASSUME NEW o \in Offset, ClientSeek(c, o) PROVE IInv'
    <3>1. MayCall(c, SeekReq(held[c].fd, o))
      BY <2>0, <2>3 DEF MayCall, ClientSeek, SeekReq, NoReq, RpcIn,
         RpcOp, Paths0
    <3> QED
      BY <2>0, <2>3, <3>1, CallsIInv DEF ClientSeek
  <2> QED
    BY <2>0, <2>1, <2>2, <2>3, ClientCloseIInv, ClientRecvIInv
<1>3. CASE UNCHANGED vars
  <2> USE <1>3 DEF vars, rpcVars, serverVars, ifVars, fdVars, moverVars, queueVars, handlerVars,
     callerVars
  <2>1. TypeOK' /\ MoverInv' /\ CacheSound' /\ FdInv'
    BY DEF IInv, TypeOK, RpcTypeOK, Holding, MoverInv, CacheSound, FdInv
  <2>2. \A d \in Caller : CallInv(d)' /\ OwnInv(d)' /\ Owned(d)' = Owned(d)
    BY CallerFrame DEF IInv
  <2>3. DescriptorsAccounted'
    BY <2>2, AccountFrame DEF IInv
  <2> QED
    BY <2>1, <2>2, <2>3 DEF IInv
<1> QED
  BY <1>1, <1>2, <1>3 DEF Next

\* IInv is an invariant of the server and its callers.
THEOREM Invariance == Spec => []IInv
BY InitIInv, NextIInv, PTL DEF Spec

\* Every variable keeps its type: in particular data_queue holds only files,
\* and no descriptor's offset leaves its file.
THEOREM TypeCorrect == Spec => []TypeOK
<1>1. IInv => TypeOK
  BY DEF IInv
<1> QED
  BY <1>1, Invariance, PTL

\* path_cache_map names only whole copies of the right file.
THEOREM CacheIsSound == Spec => []CacheSound
<1>1. IInv => CacheSound
  BY DEF IInv
<1> QED
  BY <1>1, Invariance, PTL

\* No client can tell a read served by the cache from a read of the original.
THEOREM Transparency == Spec => []ReadsAreTransparent
<1>1. IInv => ReadsAreTransparent
  BY DEF IInv, CallInv, Answer, ReadsAreTransparent, NoRsp
<1> QED
  BY <1>1, Invariance, PTL

\* No remote descriptor leaks, is shared, or is closed under its owner.
THEOREM Accounting == Spec => []DescriptorsAccounted
<1>1. IInv => DescriptorsAccounted
  BY DEF IInv
<1> QED
  BY <1>1, Invariance, PTL

LEMMA InitNoDescriptorAbort == Init => NoDescriptorAbort
BY DEF Init, NoDescriptorAbort

LEMMA NextNoDescriptorAbort ==
  IInv /\ NoDescriptorAbort /\ [Next]_vars => NoDescriptorAbort'
<1> SUFFICES ASSUME IInv, NoDescriptorAbort, [Next]_vars
             PROVE  NoDescriptorAbort'
  OBVIOUS
<1> USE DEF NoDescriptorAbort
<1>1. ASSUME NEW c \in Caller, hvac_rpc_handler(c) PROVE NoDescriptorAbort'
  <2>1. req[c].fd \in Fd /\ kfile[req[c].fd].path \in Path
    BY <1>1, ReadAnswers DEF hvac_rpc_handler
  <2>2. ~BadFd(req[c].fd)
    BY <2>1, RpcConstants DEF BadFd
  <2> QED
    BY <1>1, <2>2 DEF hvac_rpc_handler, ReadOk, ReadFails
<1>2. ASSUME NEW f \in Fd, hvac_close_rpc_handler(f) PROVE NoDescriptorAbort'
  <2>1. ~BadFd(f)
    BY <1>2 DEF hvac_close_rpc_handler, BadFd, IInv, DescriptorsAccounted
  <2> QED
    BY <1>2, <2>1 DEF hvac_close_rpc_handler
<1>3. ASSUME NEW c \in Caller, Handler(c) PROVE NoDescriptorAbort'
  BY <1>1, <1>3 DEF Handler, hvac_open_rpc_handler, PushFails,
     hvac_rpc_handler_bulk_cb, hvac_seek_rpc_handler, handlerVars
<1>4. CASE CloseQueuesPath \/ MoverStep \/ SpuriousWakeup
  BY <1>4 DEF CloseQueuesPath, SpuriousWakeup, MoverStep, MoverWaits,
     MoverDrains, MoverCopies, MoverFails, MoverAssigns, MoverPublishes,
     handlerVars
<1>5. CASE CallerNext /\ UNCHANGED serverVars
  BY <1>5 DEF CallerNext, ClientOpen, ClientRead, ClientSeek,
     ClientClose, ClientRecv, Calls, serverVars, handlerVars
<1>6. CASE UNCHANGED vars
  BY <1>6 DEF vars, serverVars, handlerVars
<1> QED
  BY <1>2, <1>3, <1>4, <1>5, <1>6 DEF Next, ServerNext

\* Every read and every close a handler receives names a descriptor that is
\* open, so neither assert that guards against one that is not can fail,
\* with failing allocations, reads and pushes allowed.
THEOREM DescriptorAsserts == Spec => []NoDescriptorAbort
BY InitNoDescriptorAbort, NextNoDescriptorAbort, Invariance, PTL DEF Spec

-----------------------------------------------------------------------------
(* The way of a path through the two queues.                               *)

\* What appending, concatenating and popping do to the paths in a queue.
LEMMA RangeOfParts ==
  ASSUME NEW S, NEW s \in Seq(S), NEW t \in Seq(S), NEW e \in S
  PROVE  /\ Range(s) \subseteq Range(s \o t)
         /\ Range(t) \subseteq Range(s \o t)
         /\ Range(Append(s, e)) = Range(s) \cup {e}
         /\ s # <<>> => /\ Head(s) \in Range(s)
                        /\ Range(s) \subseteq {Head(s)} \cup Range(Tail(s))
<1>1. Range(Append(s, e)) = Range(s) \cup {e}
  BY DEF Range
<1>2. Range(s) \subseteq Range(s \o t)
  BY DEF Range
<1>3. ASSUME NEW i \in DOMAIN t PROVE t[i] \in Range(s \o t)
  <2>1. Len(s) + i \in DOMAIN (s \o t) /\ (s \o t)[Len(s) + i] = t[i]
    BY <1>3
  <2> QED
    BY <2>1 DEF Range
<1>4. Range(t) \subseteq Range(s \o t)
  BY <1>3 DEF Range
<1>5. ASSUME s # <<>>, NEW i \in DOMAIN s
      PROVE  s[i] \in {Head(s)} \cup Range(Tail(s))
  <2>1. CASE i = 1
    BY <2>1
  <2>2. CASE i # 1
    <3>1. i - 1 \in DOMAIN Tail(s) /\ Tail(s)[i - 1] = s[i]
      BY <1>5, <2>2
    <3> QED
      BY <3>1 DEF Range
  <2> QED
    BY <2>1, <2>2
<1>6. s # <<>> => Range(s) \subseteq {Head(s)} \cup Range(Tail(s))
  BY <1>5 DEF Range
<1>7. s # <<>> => Head(s) \in Range(s)
  BY DEF Range
<1> QED
  BY <1>1, <1>2, <1>4, <1>6, <1>7

\* A path that stops being tracked in a step is cached after it, or was the
\* one the mover was working on.
LEMMA TrackedStep ==
  ASSUME IInv, [Next]_vars, NEW p \in Tracked, p \notin Tracked'
  PROVE  \/ path_cache_map'[p] # Absent
         \/ local_list # <<>> /\ p = Head(local_list)
<1> DEFINE InQueue == p \in Range(data_queue)
           InList  == p \in Range(local_list)
           IsOpen  == \E f \in Fd : kfile[f].path = p
<1>0. /\ TypeOK /\ MoverInv /\ FdInv /\ DescriptorsAccounted
      /\ \A c \in Caller : CallInv(c) /\ OwnInv(c)
  BY DEF IInv
<1>1. p # NoPath /\ (InQueue \/ InList \/ p = handler.path \/ IsOpen)
  BY DEF Tracked, Pending
<1>2. ~InQueue' /\ ~InList' /\ p # handler'.path /\ ~IsOpen'
  BY <1>1 DEF Tracked, Pending
<1>4. ASSUME NEW c \in Caller, Handler(c) PROVE FALSE
  <2>1. UNCHANGED <<data_queue, local_list, handler>>
    BY <1>4 DEF Handler, hvac_open_rpc_handler, hvac_rpc_handler,
       hvac_rpc_handler_bulk_cb, PushFails, hvac_seek_rpc_handler,
       moverVars, queueVars, handlerVars
  <2>2. \A f \in Fd : kfile[f].path \in {NoPath, kfile'[f].path}
    <3>1. CASE hvac_open_rpc_handler(c)
      BY <1>0, <3>1 DEF hvac_open_rpc_handler, OpenResults, FreeFd,
         TypeOK, RpcTypeOK, Holding
    <3>2. CASE hvac_rpc_handler(c)
      BY <1>0, <3>2 DEF hvac_rpc_handler, ReadOk, ReadFails, TypeOK,
         RpcTypeOK, Holding
    <3>3. CASE hvac_rpc_handler_bulk_cb(c) \/ PushFails(c)
      BY <3>3 DEF hvac_rpc_handler_bulk_cb, PushFails, fdVars
    <3>4. CASE hvac_seek_rpc_handler(c)
      BY <1>0, <3>4 DEF hvac_seek_rpc_handler, TypeOK, RpcTypeOK, Holding
    <3> QED
      BY <1>4, <3>1, <3>2, <3>3, <3>4 DEF Handler
  <2> QED
    BY <1>1, <1>2, <2>1, <2>2
<1>5. ASSUME NEW f \in Fd, hvac_close_rpc_handler(f)
      PROVE  path_cache_map'[p] # Absent
  <2>1. /\ kfile[f].path # NoPath /\ fd_to_path[f] = kfile[f].path
        /\ handler = NoHandler
    BY <1>0, <1>5 DEF hvac_close_rpc_handler, HandlerIdle,
       DescriptorsAccounted, FdInv
  <2>2. /\ CloseAndLookup(f)
        /\ UNCHANGED <<data_queue, local_list, path_cache_map>>
    BY <1>5, <2>1 DEF hvac_close_rpc_handler, BadFd, moverVars, queueVars
  <2>3. kfile' = [kfile EXCEPT ![f] = Closed]
    BY <2>2 DEF CloseAndLookup
  <2>4. p = kfile[f].path
    BY <1>0, <1>1, <1>2, <2>1, <2>2, <2>3 DEF NoHandler, TypeOK,
       RpcTypeOK, Holding
  <2>5. PICK hit \in Lookup(p) : hit # Absent
    BY <1>2, <2>1, <2>2, <2>4 DEF CloseAndLookup
  <2>6. CASE hit = path_cache_map[p]
    BY <2>2, <2>5, <2>6
  <2>7. CASE hit # path_cache_map[p]
    <3>1. mover_pc = "assigning" /\ p = Head(local_list)
      BY <2>5, <2>7 DEF Lookup
    <3>2. local_list # <<>> /\ local_list \in Seq(Path)
      BY <1>0, <3>1 DEF MoverInv, TypeOK, RpcTypeOK, Holding
    <3>3. InList
      BY <3>1, <3>2 DEF Range
    <3> QED
      BY <1>2, <2>2, <3>3
  <2> QED
    BY <2>6, <2>7
<1>6. CASE CloseQueuesPath
  <2>1. /\ data_queue' = Append(data_queue, handler.path)
        /\ handler.path \in Path /\ data_queue \in Seq(Path)
        /\ UNCHANGED <<kfile, local_list>>
    BY <1>0, <1>6 DEF CloseQueuesPath, FdInv, TypeOK, RpcTypeOK, Holding,
       moverVars
  <2>2. Range(data_queue') = Range(data_queue) \cup {handler.path}
    BY <2>1, RangeOfParts
  <2> QED
    BY <1>1, <1>2, <2>1, <2>2
<1>7. CASE MoverDrains
  <2>1. /\ local_list' = local_list \o data_queue
        /\ data_queue \in Seq(Path) /\ local_list \in Seq(Path)
        /\ UNCHANGED <<kfile, handler>>
    BY <1>0, <1>7 DEF MoverDrains, TypeOK, RpcTypeOK, Holding, fdVars,
       handlerVars
  <2>2. CASE Path = {}
    BY <1>1, <1>2, <2>1, <2>2 DEF Range
  <2>3. CASE Path # {}
    BY <1>1, <1>2, <2>1, <2>3, RangeOfParts
  <2> QED
    BY <2>2, <2>3
<1>8. CASE MoverFails \/ MoverPublishes
  <2>1. /\ local_list' = Tail(local_list) /\ local_list # <<>>
        /\ local_list \in Seq(Path)
        /\ UNCHANGED <<kfile, handler, data_queue>>
    BY <1>0, <1>8 DEF MoverFails, MoverPublishes, MoverInv, TypeOK,
       RpcTypeOK, Holding, fdVars, handlerVars
  <2>2. Head(local_list) \in Path
    BY <2>1
  <2>3. Range(local_list) \subseteq {Head(local_list)} \cup Range(Tail(local_list))
    BY <2>1, <2>2, RangeOfParts
  <2> QED
    BY <1>1, <1>2, <2>1, <2>3
<1>9. CASE MoverWaits \/ SpuriousWakeup \/ MoverCopies \/ MoverAssigns
  BY <1>1, <1>2, <1>9 DEF MoverWaits, SpuriousWakeup, MoverCopies,
     MoverAssigns, fdVars, handlerVars, moverVars
<1>10. CASE (CallerNext /\ UNCHANGED serverVars) \/ UNCHANGED vars
  BY <1>1, <1>2, <1>10 DEF CallerNext, ClientOpen, ClientRead, ClientSeek,
     ClientClose, ClientRecv, Calls, vars, serverVars, fdVars, moverVars, queueVars,
     handlerVars
<1> QED
  BY <1>4, <1>5, <1>6, <1>7, <1>8, <1>9, <1>10
     DEF Next, ServerNext, MoverStep

\* Neither thread drops a path: a file that was opened is on its way to the
\* cache until it is there or the mover has tried to copy it.
THEOREM NothingForgotten == Spec => NoFileForgotten
<1>1. IInv /\ [Next]_vars =>
        [\A p \in Tracked \ Tracked' :
           \/ path_cache_map'[p] # Absent
           \/ local_list # <<>> /\ p = Head(local_list)]_vars
  BY TrackedStep
<1> QED
  BY <1>1, Invariance, PTL DEF Spec, NoFileForgotten

-----------------------------------------------------------------------------
(* HvacServer implements FileService: for any number of callers, files and *)
(* descriptors, callers cannot tell the server, with its cache, its mover  *)
(* and its bulk transfers, from one that performs each RPC atomically.     *)

\* The messages of the two specifications are the same.
LEMMA SameMessages ==
  /\ FS!NoReq = NoReq /\ FS!NoRsp = NoRsp /\ FS!NoData = NoData
  /\ FS!Failed = Failed /\ FS!Sequential = Sequential
  /\ FS!NothingHeld = NothingHeld /\ FS!Offset = Offset
  /\ \A op, ret, data : FS!Rsp(op, ret, data) = Rsp(op, ret, data)
  /\ \A p : FS!OpenReq(p) = OpenReq(p)
  /\ \A f, o : FS!ReadReq(f, o) = ReadReq(f, o)
  /\ \A f, o : FS!SeekReq(f, o) = SeekReq(f, o)
BY DEF FS!NoReq, NoReq, FS!NoRsp, NoRsp, FS!NoData, NoData, FS!Failed, Failed,
   FS!Sequential, Sequential, FS!NothingHeld, NothingHeld, FS!Offset, Offset,
   FS!Rsp, Rsp, FS!OpenReq, OpenReq, FS!ReadReq, ReadReq, FS!SeekReq, SeekReq

\* Initially nothing is open and nothing is in flight.
LEMMA InitRefines == Init => FS!Init
<1> SUFFICES ASSUME Init PROVE FS!Init
  OBVIOUS
<1>1. rspBar = [c \in Caller |-> NoRsp]
  BY DEF Init, RpcInit, rspBar
<1>2. remoteBar = [f \in Fd |-> FS!NotOpen]
  BY DEF Init, remoteBar, Closed, FS!NotOpen
<1> QED
  BY <1>1, <1>2, SameMessages DEF Init, RpcInit, FS!Init, FS!RpcInit

\* How the mapped response buffer follows rsp and bulk.
LEMMA BarKept ==
  ASSUME UNCHANGED <<rsp, bulk>>
  PROVE  rspBar' = rspBar
BY DEF rspBar

\* A handler that answers at once shows its response.
LEMMA BarFollowsRsp ==
  ASSUME TypeOK, NEW c \in Caller, NEW r, bulk[c] = NoRsp, UNCHANGED bulk,
         rsp' = [rsp EXCEPT ![c] = r]
  PROVE  rspBar' = [rspBar EXCEPT ![c] = r]
BY DEF rspBar, TypeOK, RpcTypeOK

\* A read shows its response when its push starts.
LEMMA BarFollowsBulk ==
  ASSUME TypeOK, NEW c \in Caller, NEW r, r # NoRsp, UNCHANGED rsp,
         bulk' = [bulk EXCEPT ![c] = r]
  PROVE  rspBar' = [rspBar EXCEPT ![c] = r]
BY DEF rspBar, TypeOK, RpcTypeOK

\* The table of open files does not change where the descriptors do not.
LEMMA RemoteKept ==
  ASSUME UNCHANGED kfile
  PROVE  remoteBar' = remoteBar
BY DEF remoteBar

\* An open handler is one ServeOpen, whatever the lookup returned.
LEMMA OpenRefines ==
  ASSUME IInv, NEW c \in Caller, hvac_open_rpc_handler(c)
  PROVE  FS!ServeOpen(c)
<1>0. TypeOK /\ CallInv(c)
  BY DEF IInv
<1>1. PICK hit \in Lookup(req[c].path) : \E ret \in OpenResults(hit) :
         /\ kfile' = IF ret = Failed THEN kfile
                     ELSE [kfile EXCEPT ![ret] =
                             [path |-> req[c].path, dir |-> hit, off |-> 0]]
         /\ Respond(c, Rsp("open", ret, NoData))
  BY DEF hvac_open_rpc_handler
<1>2. PICK ret \in OpenResults(hit) :
         /\ kfile' = IF ret = Failed THEN kfile
                     ELSE [kfile EXCEPT ![ret] =
                             [path |-> req[c].path, dir |-> hit, off |-> 0]]
         /\ Respond(c, Rsp("open", ret, NoData))
  BY <1>1
<1>3. bulk[c] = NoRsp /\ req[c].op = "open" /\ UNCHANGED <<closeq, bulk>>
  BY <1>0 DEF hvac_open_rpc_handler, CallInv, NoReq, handlerVars
<1>4. FS!Respond(c, FS!Rsp("open", ret, FS!NoData))
  BY <1>0, <1>2, <1>3, BarFollowsRsp, SameMessages DEF Respond, FS!Respond
<1>5. CASE ret = Failed
  <2>1. remoteBar' = remoteBar
    BY <1>2, <1>5, RemoteKept
  <2> QED
    BY <1>3, <1>4, <1>5, <2>1, SameMessages DEF FS!ServeOpen
<1>6. CASE ret # Failed
  <2>1. ret \in Fd /\ kfile[ret].path = NoPath
    BY <1>6 DEF OpenResults, FreeFd
  <2>2. /\ remoteBar[ret].path = NoPath
        /\ remoteBar' = [remoteBar EXCEPT ![ret] =
                           [path |-> req[c].path, off |-> 0]]
    BY <1>0, <1>2, <1>6, <2>1 DEF remoteBar, TypeOK
  <2> QED
    BY <1>3, <1>4, <2>1, <2>2 DEF FS!ServeOpen
<1> QED
  BY <1>5, <1>6

\* A successful read is one ServeRead when its push starts: the copy it may
\* come from holds what the original holds.
LEMMA ReadRefines ==
  ASSUME IInv, NEW c \in Caller, req[c].op = "read", ReadOk(c),
         UNCHANGED <<rsp, closeq>>
  PROVE  FS!ServeRead(c)
<1> DEFINE f == req[c].fd
           o == ReadOffset(c)
           r == Rsp("read", BytesAt(f, o), BlockAt(f, o))
<1>0. TypeOK
  BY DEF IInv
<1>1. /\ f \in Fd /\ kfile[f].path \in Path /\ o \in Offset
      /\ kfile[f].path = held[c].path /\ o = Wanted(c) /\ r = Answer(c)
      /\ kfile[f].off \in Offset
  BY <1>0, ReadAnswers DEF TypeOK
<1>2. r = FS!BlockOf(kfile[f].path, o)
  BY <1>1, SameMessages DEF Answer, FS!BlockOf
<1>3. /\ bulk' = [bulk EXCEPT ![c] = r]
      /\ req' = [req EXCEPT ![c] = NoReq]
      /\ kfile' = IF req[c].off = Sequential
                  THEN [kfile EXCEPT ![f].off = @ + BytesAt(f, o)] ELSE kfile
      /\ kfile[f].path # NoPath
  BY DEF ReadOk
<1>4. r # NoRsp /\ r.ret = BytesAt(f, o)
  BY DEF Rsp, NoRsp
<1> HIDE DEF r
<1>5. FS!Respond(c, r)
  BY <1>0, <1>3, <1>4, BarFollowsBulk, SameMessages DEF FS!Respond
<1>6. /\ remoteBar[f].path = kfile[f].path /\ remoteBar[f].off = kfile[f].off
      /\ remoteBar[f].path # NoPath
  BY <1>1, <1>3 DEF remoteBar
<1>7. CASE req[c].off = Sequential
  <2>1. o = kfile[f].off
    BY <1>7 DEF ReadOffset
  <2>2. kfile' = [kfile EXCEPT ![f] = [kfile[f] EXCEPT !.off = @ + BytesAt(f, o)]]
    BY <1>3, <1>7
  <2>3. /\ kfile'[f].path = kfile[f].path
        /\ kfile'[f].off = kfile[f].off + BytesAt(f, o)
        /\ \A g \in Fd \ {f} : kfile'[g] = kfile[g]
    BY <1>0, <1>1, <2>2 DEF TypeOK
  <2>4. remoteBar' = [remoteBar EXCEPT ![f] =
                        [path |-> remoteBar[f].path,
                         off |-> remoteBar[f].off + r.ret]]
    BY <1>4, <1>6, <2>3 DEF remoteBar
  <2> QED
    BY <1>1, <1>2, <1>5, <1>6, <1>7, <2>1, <2>4, SameMessages DEF FS!ServeRead
<1>8. CASE req[c].off # Sequential
  <2>1. o = req[c].off /\ remoteBar' = remoteBar
    BY <1>3, <1>8, RemoteKept DEF ReadOffset
  <2> QED
    BY <1>1, <1>2, <1>5, <1>6, <1>8, <2>1, SameMessages DEF FS!ServeRead
<1> QED
  BY <1>7, <1>8

\* A seek is one ServeSeek: the descriptor it names is open.
LEMMA SeekRefines ==
  ASSUME IInv, NEW c \in Caller, hvac_seek_rpc_handler(c)
  PROVE  FS!ServeSeek(c)
<1> DEFINE f == req[c].fd
           n == req[c].off
<1>0. TypeOK /\ CallInv(c) /\ OwnInv(c)
  BY DEF IInv
<1>1. /\ req[c].op = "seek" /\ req[c] = held[c].call /\ bulk[c] = NoRsp
      /\ held[c].call.fd = held[c].fd /\ held[c].fd # 0
  BY <1>0 DEF hvac_seek_rpc_handler, CallInv, CallOK, NoReq
<1>2. f \in Fd /\ kfile[f].path \in Path /\ kfile[f].path # NoPath
  BY <1>0, <1>1, RpcConstants DEF OwnInv, TypeOK, RpcTypeOK, Holding
<1>3. /\ kfile' = [kfile EXCEPT ![f].off = n]
      /\ Respond(c, Rsp("seek", n, NoData))
      /\ UNCHANGED <<closeq, bulk>>
  BY <1>2 DEF hvac_seek_rpc_handler, handlerVars
<1>4. FS!Respond(c, FS!Rsp("seek", n, FS!NoData))
  BY <1>0, <1>1, <1>3, BarFollowsRsp, SameMessages DEF Respond, FS!Respond
<1>5. kfile' = [kfile EXCEPT ![f] = [kfile[f] EXCEPT !.off = n]]
  BY <1>3
<1>6. /\ kfile'[f].path = kfile[f].path /\ kfile'[f].off = n
      /\ \A g \in Fd \ {f} : kfile'[g] = kfile[g]
  BY <1>0, <1>2, <1>5 DEF TypeOK
<1>7. /\ remoteBar[f].path = kfile[f].path
      /\ remoteBar' = [remoteBar EXCEPT ![f] =
                         [path |-> remoteBar[f].path, off |-> n]]
  BY <1>2, <1>6 DEF remoteBar
<1> QED
  BY <1>1, <1>2, <1>3, <1>4, <1>7, SameMessages DEF FS!ServeSeek

\* A close is one ServeClose, whether or not it goes on to queue the path.
LEMMA CloseRefines ==
  ASSUME IInv, NEW f \in Fd, hvac_close_rpc_handler(f)
  PROVE  FS!ServeClose(f)
<1>0. TypeOK
  BY DEF IInv
<1>1. f \in closeq /\ kfile[f].path # NoPath
  BY DEF hvac_close_rpc_handler, IInv, DescriptorsAccounted
<1>2. /\ kfile' = [kfile EXCEPT ![f] = Closed] /\ closeq' = closeq \ {f}
      /\ UNCHANGED <<req, rsp, bulk>>
  BY <1>1 DEF hvac_close_rpc_handler, CloseAndLookup, BadFd
<1>3. /\ remoteBar[f].path # NoPath
      /\ remoteBar' = [remoteBar EXCEPT ![f] = FS!NotOpen]
  BY <1>0, <1>1, <1>2 DEF remoteBar, TypeOK, Closed, FS!NotOpen
<1> QED
  BY <1>1, <1>2, <1>3, BarKept DEF FS!ServeClose

\* The end of a bulk push is invisible, and so is a read or a push that
\* kills the server.
LEMMA HiddenReads ==
  ASSUME IInv, NEW c \in Caller,
         \/ hvac_rpc_handler_bulk_cb(c)
         \/ PushFails(c)
         \/ hvac_rpc_handler(c) /\ ReadFails(c)
  PROVE  UNCHANGED <<req, rspBar, closeq, remoteBar>>
<1>1. CASE hvac_rpc_handler_bulk_cb(c)
  <2>1. /\ rsp' = [rsp EXCEPT ![c] = bulk[c]] /\ bulk[c] # NoRsp
        /\ bulk' = [bulk EXCEPT ![c] = NoRsp]
        /\ UNCHANGED <<req, closeq, kfile>>
    BY <1>1 DEF hvac_rpc_handler_bulk_cb, fdVars
  <2>2. rspBar' = rspBar
    BY <2>1 DEF rspBar, IInv, TypeOK, RpcTypeOK
  <2> QED
    BY <2>1, <2>2, RemoteKept
<1>2. CASE hvac_rpc_handler(c) /\ ReadFails(c)
  BY <1>2, BarKept, RemoteKept DEF hvac_rpc_handler, ReadFails
<1>3. CASE PushFails(c)
  BY <1>3, BarKept, RemoteKept DEF PushFails, ifVars, fdVars
<1> QED
  BY <1>1, <1>2, <1>3

\* Nothing of the mover, nor of the queue it is fed from, is visible.
LEMMA HiddenSteps ==
  ASSUME CloseQueuesPath \/ MoverStep \/ SpuriousWakeup
  PROVE  UNCHANGED <<req, rspBar, closeq, remoteBar>>
<1>1. UNCHANGED <<req, rsp, bulk, closeq, kfile>>
  BY DEF CloseQueuesPath, MoverStep, SpuriousWakeup, MoverWaits,
     MoverDrains, MoverCopies, MoverFails, MoverAssigns, MoverPublishes,
     ifVars, fdVars, handlerVars
<1> QED
  BY <1>1, BarKept, RemoteKept

\* Callers are the same in both specifications; the answer they take is the
\* one the mapping shows.
LEMMA CallersRefine ==
  ASSUME IInv, CallerNext, UNCHANGED serverVars
  PROVE  FS!CallerNext /\ UNCHANGED remoteBar
<1>0. /\ TypeOK /\ \A c \in Caller : CallInv(c)
      /\ UNCHANGED <<kfile, bulk>> /\ remoteBar' = remoteBar
  BY RemoteKept DEF IInv, serverVars, fdVars, handlerVars
<1>1. ASSUME NEW c \in Caller, NEW r, Calls(c, r)
      PROVE  FS!Calls(c, r)
  BY <1>0, <1>1, BarKept, SameMessages DEF Calls, FS!Calls
<1>2. ASSUME NEW c \in Caller, ClientRecv(c)
      PROVE  FS!ClientRecv(c)
  <2>1. rsp[c] # NoRsp /\ bulk[c] = NoRsp /\ rspBar[c] = rsp[c]
    BY <1>0, <1>2 DEF ClientRecv, CallInv, rspBar
  <2>2. rspBar' = [rspBar EXCEPT ![c] = NoRsp]
    BY <1>0, <1>2, <2>1, BarFollowsRsp DEF ClientRecv
  <2>3. FS!OffsetAfter(c, rsp[c]) = OffsetAfter(c, rsp[c])
    BY SameMessages DEF OffsetAfter, FS!OffsetAfter
  <2> QED
    BY <1>2, <2>1, <2>2, <2>3, SameMessages DEF ClientRecv, FS!ClientRecv
<1>3. PICK c \in Caller :
        \/ \E p \in Path : ClientOpen(c, p)
        \/ \E o \in Offset \cup {Sequential} : ClientRead(c, o)
        \/ \E o \in Offset : ClientSeek(c, o)
        \/ ClientClose(c)
        \/ ClientRecv(c)
  BY DEF CallerNext
<1>4. ASSUME NEW p \in Path, ClientOpen(c, p)
      PROVE  FS!ClientOpen(c, p)
  BY <1>1, <1>4, SameMessages DEF ClientOpen, FS!ClientOpen
<1>5. ASSUME NEW o \in Offset \cup {Sequential}, ClientRead(c, o)
      PROVE  FS!ClientRead(c, o)
  BY <1>1, <1>5, SameMessages DEF ClientRead, FS!ClientRead
<1>6. ASSUME NEW o \in Offset, ClientSeek(c, o)
      PROVE  FS!ClientSeek(c, o)
  BY <1>1, <1>6, SameMessages DEF ClientSeek, FS!ClientSeek
<1>7. ASSUME ClientClose(c)
      PROVE  FS!ClientClose(c)
  BY <1>0, <1>7, BarKept, SameMessages DEF ClientClose, FS!ClientClose
<1> QED
  BY <1>0, <1>2, <1>3, <1>4, <1>5, <1>6, <1>7, SameMessages DEF FS!CallerNext

\* A server step serves an RPC, or is invisible.
LEMMA ServerRefines ==
  ASSUME IInv, ServerNext
  PROVE  FS!ServiceNext \/ UNCHANGED <<req, rspBar, closeq, remoteBar>>
<1>1. ASSUME NEW c \in Caller, Handler(c)
      PROVE  FS!Serve(c) \/ UNCHANGED <<req, rspBar, closeq, remoteBar>>
  <2>1. CASE hvac_rpc_handler(c) /\ ~ReadFails(c)
    <3>1. req[c].op = "read" /\ ReadOk(c) /\ UNCHANGED <<rsp, closeq>>
      BY <2>1 DEF hvac_rpc_handler
    <3> QED
      BY <3>1, ReadRefines DEF FS!Serve
  <2>2. CASE hvac_open_rpc_handler(c) \/ hvac_seek_rpc_handler(c)
    BY <2>2, OpenRefines, SeekRefines DEF FS!Serve
  <2>3. CASE \/ hvac_rpc_handler_bulk_cb(c) \/ PushFails(c)
             \/ hvac_rpc_handler(c) /\ ReadFails(c)
    BY <2>3, HiddenReads
  <2> QED
    BY <1>1, <2>1, <2>2, <2>3 DEF Handler
<1>2. ASSUME NEW f \in Fd, hvac_close_rpc_handler(f)
      PROVE  FS!ServeClose(f)
  BY <1>2, CloseRefines
<1> QED
  BY <1>1, <1>2, HiddenSteps DEF ServerNext, FS!ServiceNext

\* Every step maps to a step of the file service, or to none.
LEMMA NextRefines ==
  IInv /\ [Next]_vars => [FS!Next]_FS!vars
<1> SUFFICES ASSUME IInv, [Next]_vars PROVE [FS!Next]_FS!vars
  OBVIOUS
<1>1. CASE ServerNext /\ UNCHANGED callerVars
  <2>1. FS!ServiceNext \/ UNCHANGED <<req, rspBar, closeq, remoteBar>>
    BY <1>1, ServerRefines
  <2>2. UNCHANGED <<held, opens>>
    BY <1>1 DEF callerVars
  <2> QED
    BY <2>1, <2>2 DEF FS!Next, FS!vars, FS!rpcVars, FS!ifVars, FS!callerVars
<1>2. CASE CallerNext /\ UNCHANGED serverVars
  BY <1>2, CallersRefine DEF FS!Next
<1>3. CASE UNCHANGED vars
  <2>1. UNCHANGED <<ifVars, callerVars, kfile, bulk>>
    BY <1>3 DEF vars, rpcVars, serverVars, fdVars, handlerVars
  <2> QED
    BY <2>1, BarKept, RemoteKept DEF ifVars, callerVars, FS!vars, FS!rpcVars,
       FS!ifVars, FS!callerVars
<1> QED
  BY <1>1, <1>2, <1>3 DEF Next

\* hvac_server implements the file service: callers see every RPC performed
\* atomically on the original files, whatever the data mover is doing.
THEOREM Refinement == Spec => ImplementsFileService
BY InitRefines, NextRefines, Invariance, PTL
   DEF Spec, ImplementsFileService, FS!Spec
=============================================================================
