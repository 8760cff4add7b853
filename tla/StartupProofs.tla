--------------------------- MODULE StartupProofs ---------------------------
(***************************************************************************)
(* Proofs about Startup, for any number of client processes, servers,      *)
(* files and restarts.                                                     *)
(***************************************************************************)
EXTENDS Startup, FiniteSets, FiniteSetTheorems, WellFoundedInduction, TLAPS

-----------------------------------------------------------------------------
(* The ports file.                                                         *)

\* Line i is the first of rank r.
IsFirst(i, r) == i \in LinesOf(r) /\ \A j \in LinesOf(r) : i <= j

\* A set of naturals that is not empty has a least element.
LEMMA LeastElement ==
  ASSUME NEW S \in SUBSET Nat, S # {}
  PROVE  \E i \in S : \A j \in S : i <= j
<1> DEFINE R == OpToRel(<, Nat)
<1>1. IsWellFoundedOn(R, Nat)
  BY NatLessThanWellFounded
<1>2. \A x, y \in Nat : y < x => <<y, x>> \in R
  BY DEF OpToRel
<1> HIDE DEF R
<1>3. PICK i \in S : \A j \in S : ~(<<j, i>> \in R)
  BY <1>1, WFMin
<1>4. ASSUME NEW j \in S
      PROVE  i <= j
  <2>1. ~(j < i)
    BY <1>2, <1>3
  <2> QED
    BY <2>1
<1> QED
  BY <1>4

\* FirstMatch reads the first line of the rank.
LEMMA FirstMatchIsFirst ==
  ASSUME NEW r \in Rank, LinesOf(r) # {}, ports \in Seq(Line)
  PROVE  \E i \in 1 .. Len(ports) : IsFirst(i, r) /\ FirstMatch(r) = ports[i].addr
<1>1. LinesOf(r) \in SUBSET Nat /\ LinesOf(r) \subseteq 1 .. Len(ports)
  BY DEF LinesOf
<1>2. \E i \in LinesOf(r) : \A j \in LinesOf(r) : i <= j
  BY <1>1, LeastElement
<1> DEFINE i == CHOOSE i \in LinesOf(r) : \A j \in LinesOf(r) : i <= j
<1>3. i \in LinesOf(r) /\ \A j \in LinesOf(r) : i <= j
  BY <1>2
<1>4. FirstMatch(r) = ports[i].addr
  BY DEF FirstMatch
<1> QED
  BY <1>1, <1>3, <1>4 DEF IsFirst

\* A line at the end does not change which line is the first of a rank that
\* has one.
LEMMA AppendKeepsFirst ==
  ASSUME ports \in Seq(Line), NEW l \in Line, ports' = Append(ports, l),
         NEW r \in Rank, NEW i \in 1 .. Len(ports), IsFirst(i, r)
  PROVE  i \in 1 .. Len(ports') /\ IsFirst(i, r)' /\ ports'[i] = ports[i]
<1>1. /\ Len(ports') = Len(ports) + 1 /\ Len(ports) \in Nat
      /\ \A j \in 1 .. Len(ports) : ports'[j] = ports[j]
  OBVIOUS
<1>2. i \in LinesOf(r)'
  BY <1>1 DEF IsFirst, LinesOf
<1>3. ASSUME NEW j \in LinesOf(r)'
      PROVE  i <= j
  BY <1>1, <1>3 DEF IsFirst, LinesOf
<1> QED
  BY <1>1, <1>2, <1>3 DEF IsFirst

-----------------------------------------------------------------------------
(* The inductive invariant.                                                *)

\* A server that runs has been started.  Every line names an address of its
\* own rank.  As long as no server has stopped, it is the address of the
\* running one, and a server that says it has posted its address has.
PortsInv ==
  /\ \A r \in Started : stage[r] # "down" => proc[r] \in 1 .. MaxStarts
  /\ \A i \in 1 .. Len(ports) : ports[i].addr.rank = ports[i].rank
  /\ ~stopped =>
       /\ \A i \in 1 .. Len(ports) :
            /\ stage[ports[i].rank] = "posted"
            /\ ports[i].addr.start = proc[ports[i].rank]
       /\ \A r \in Started : stage[r] = "posted" => LinesOf(r) # {}

\* A cached address is the first one posted for its rank.
CacheInv ==
  \A c \in Client, r \in Rank :
    address_cache[c][r] # None =>
      \E i \in 1 .. Len(ports) :
        IsFirst(i, r) /\ address_cache[c][r] = ports[i].addr

\* The server that opened a file is the one the cache names for the file,
\* and a call goes to the server the cache names for its rank.
CallInv(c) ==
  /\ file[c].owner # None =>
       file[c].path \in Path
       /\ file[c].owner = address_cache[c][Host(file[c].path)]
  /\ file[c] # NoFile => g_mercury_init[c]
  /\ call[c].op # "none" =>
       /\ g_mercury_init[c]
       /\ call[c].to = address_cache[c][call[c].rank]
  /\ call[c].op \in {"open", "read", "close"} =>
       file[c].path \in Path /\ call[c].rank = Host(file[c].path)

Cached(c) == {r \in Rank : address_cache[c][r] # None}

\* A process that came after all servers were ready has leaked one stream for
\* every address it knows and one for every rank it asked for in vain; it is
\* alive unless those were too many.
PromptInv(c) ==
  ~stopped /\ ~early[c] =>
    /\ dead[c] => unknown[c] > MaxStreams - ServerCount
    /\ ~dead[c] => streams[c] = Cardinality(Cached(c)) + unknown[c]
    /\ g_mercury_init[c] => \A r \in Rank : Ready(r)

IInv ==
  /\ TypeOK /\ PortsInv /\ CacheInv
  /\ \A c \in Client : CallInv(c) /\ PromptInv(c)

LEMMA RpcCount == Len(RpcOrder) = 3
  BY DEF RpcOrder

LEMMA HostType == ASSUME NEW p \in Path PROVE Host(p) \in Rank
  BY StartupConstants DEF Host, Rank

\* What a line of the file holds.
LEMMA LineType ==
  ASSUME TypeOK, NEW i \in 1 .. Len(ports)
  PROVE  /\ ports[i].rank \in Started /\ ports[i].addr \in Addr
         /\ ports[i].addr # None
<1>1. ports[i] \in Line
  BY DEF TypeOK
<1> QED
  BY <1>1, StartupConstants DEF Line

LEMMA InitIInv == Init => IInv
<1> SUFFICES ASSUME Init PROVE IInv
  OBVIOUS
<1>1. TypeOK
  <2>1. 0 \in 0 .. MaxStarts /\ 0 \in 0 .. Len(RpcOrder) /\ 0 \in 0 .. MaxStreams
        /\ 0 \in Rank /\ None \in Addr0 /\ <<>> \in Seq(Line)
    BY RpcCount, StartupConstants DEF Addr0, Rank
  <2>2. /\ NoCall \in [op : {"none", "open", "read", "close"},
                       rank : Rank, to : Addr0]
        /\ NoFile \in [path : Path \cup {None}, owner : Addr0]
    BY <2>1 DEF NoCall, NoFile
  <2> QED
    BY <2>1, <2>2 DEF Init, TypeOK
<1>2. PortsInv
  BY DEF Init, PortsInv
<1>3. CacheInv
  BY DEF Init, CacheInv
<1>4. ASSUME NEW c \in Client PROVE CallInv(c)
  BY DEF Init, CallInv, NoCall, NoFile
<1>5. ASSUME NEW c \in Client PROVE PromptInv(c)
  <2>1. Cached(c) = {}
    BY DEF Init, Cached
  <2>2. streams[c] = Cardinality(Cached(c)) + unknown[c]
    BY <2>1, FS_EmptySet DEF Init
  <2> QED
    BY <2>2 DEF Init, PromptInv
<1> QED
  BY <1>1, <1>2, <1>3, <1>4, <1>5 DEF IInv

-----------------------------------------------------------------------------
(* The servers.                                                            *)

\* A step that leaves the clients alone keeps CallInv, and keeps PromptInv
\* unless it takes readiness away.
LEMMA ClientsKeep ==
  ASSUME IInv, UNCHANGED clientVars,
         ~stopped' => ~stopped /\ \A r \in Rank : Ready(r) => Ready(r)'
  PROVE  \A c \in Client : CallInv(c)' /\ PromptInv(c)'
<1> SUFFICES ASSUME NEW c \in Client PROVE CallInv(c)' /\ PromptInv(c)'
  OBVIOUS
<1>1. CallInv(c)'
  BY DEF IInv, CallInv, clientVars, lookupVars, Host, NoFile
<1>2. Cached(c)' = Cached(c)
  BY DEF Cached, clientVars, lookupVars
<1>3. PromptInv(c)'
  BY <1>2 DEF IInv, PromptInv, clientVars, lookupVars
<1> QED
  BY <1>1, <1>3

LEMMA ServerStartIInv ==
  ASSUME IInv, NEW r \in Started, hvac_init_comm(r)
  PROVE  IInv'
<1>1. TypeOK'
  BY StartupConstants
     DEF IInv, TypeOK, hvac_init_comm, clientVars, lookupVars
<1>2. PortsInv'
  <2>1. ASSUME ~stopped
        PROVE  \A i \in 1 .. Len(ports) : ports[i].rank # r
    BY <2>1 DEF IInv, PortsInv, hvac_init_comm
  <2>3. \A i \in 1 .. Len(ports) : ports[i].rank \in Started
    BY LineType DEF IInv
  <2>4. ports' = ports /\ stopped' = stopped /\ \A q \in Started : LinesOf(q)' = LinesOf(q)
    BY DEF hvac_init_comm, LinesOf
  <2>5. \A q \in Started : q # r => stage'[q] = stage[q] /\ proc'[q] = proc[q]
    BY DEF IInv, TypeOK, hvac_init_comm
  <2>6. stage'[r] = "listening" /\ proc'[r] \in 1 .. MaxStarts
    BY StartupConstants DEF IInv, TypeOK, hvac_init_comm
  <2> QED
    BY <2>1, <2>3, <2>4, <2>5, <2>6 DEF IInv, PortsInv
<1>3. CacheInv'
  BY DEF IInv, CacheInv, hvac_init_comm, clientVars, lookupVars, IsFirst, LinesOf
<1>4. ASSUME NEW q \in Rank, Ready(q) PROVE Ready(q)'
  BY <1>4 DEF IInv, TypeOK, hvac_init_comm, Ready
<1>5. \A c \in Client : CallInv(c)' /\ PromptInv(c)'
  BY <1>4, ClientsKeep DEF hvac_init_comm
<1> QED
  BY <1>1, <1>2, <1>3, <1>5 DEF IInv

LEMMA RegisterIInv ==
  ASSUME IInv, NEW r \in Started, RegisterRpc(r)
  PROVE  IInv'
<1>1. TypeOK'
  <2>1. registered[r] + 1 \in 0 .. Len(RpcOrder)
    <3>1. registered[r] \in 0 .. Len(RpcOrder) /\ registered[r] < Len(RpcOrder)
      BY DEF IInv, TypeOK, RegisterRpc
    <3> QED
      BY <3>1, RpcCount
  <2>2. registered' \in [Started -> 0 .. Len(RpcOrder)]
    BY <2>1 DEF IInv, TypeOK, RegisterRpc
  <2> QED
    BY <2>2 DEF IInv, TypeOK, RegisterRpc, clientVars, lookupVars
<1>2. PortsInv'
  BY DEF IInv, PortsInv, RegisterRpc, LinesOf
<1>3. CacheInv'
  BY DEF IInv, CacheInv, RegisterRpc, clientVars, lookupVars, IsFirst, LinesOf
<1>4. ASSUME NEW q \in Rank, Ready(q) PROVE Ready(q)'
  BY <1>4, RpcCount DEF IInv, TypeOK, RegisterRpc, Ready
<1>5. \A c \in Client : CallInv(c)' /\ PromptInv(c)'
  BY <1>4, ClientsKeep DEF RegisterRpc
<1> QED
  BY <1>1, <1>2, <1>3, <1>5 DEF IInv

LEMMA StopIInv ==
  ASSUME IInv, NEW r \in Started, Stop(r)
  PROVE  IInv'
<1>1. TypeOK'
  BY RpcCount DEF IInv, TypeOK, Stop, clientVars, lookupVars
<1>2. PortsInv'
  BY DEF IInv, PortsInv, Stop
<1>3. CacheInv'
  BY DEF IInv, CacheInv, Stop, clientVars, lookupVars, IsFirst, LinesOf
<1>4. \A c \in Client : CallInv(c)' /\ PromptInv(c)'
  BY ClientsKeep DEF Stop
<1> QED
  BY <1>1, <1>2, <1>3, <1>4 DEF IInv

LEMMA ListAddrIInv ==
  ASSUME IInv, NEW r \in Started, hvac_comm_list_addr(r)
  PROVE  IInv'
<1> DEFINE l == [rank |-> r, addr |-> AddrOf(r)]
<1>1. l \in Line /\ l.rank = r /\ l.addr.rank = r /\ l.addr.start = proc[r]
  BY DEF IInv, PortsInv, hvac_comm_list_addr, Line, Addr, AddrOf
<1>2. ports \in Seq(Line) /\ ports' = Append(ports, l)
  BY DEF IInv, TypeOK, hvac_comm_list_addr
<1> HIDE DEF l
<1>3. /\ Len(ports') = Len(ports) + 1 /\ Len(ports) \in Nat
      /\ ports' \in Seq(Line)
      /\ \A j \in 1 .. Len(ports) : ports'[j] = ports[j]
      /\ ports'[Len(ports) + 1] = l
  BY <1>1, <1>2
<1>4. /\ stage' \in [Started -> {"down", "listening", "posted"}]
      /\ stage'[r] = "posted"
      /\ \A q \in Started : q # r => stage'[q] = stage[q]
      /\ proc' = proc /\ registered' = registered /\ stopped' = stopped
  BY DEF IInv, TypeOK, hvac_comm_list_addr
<1>5. TypeOK'
  BY <1>3, <1>4 DEF IInv, TypeOK, hvac_comm_list_addr, clientVars, lookupVars
<1>6. PortsInv'
  <2>1. \A q \in Started : stage'[q] # "down" => proc'[q] \in 1 .. MaxStarts
    BY <1>4 DEF IInv, PortsInv, hvac_comm_list_addr
  <2>2. ASSUME NEW i \in 1 .. Len(ports')
        PROVE  /\ ports'[i].addr.rank = ports'[i].rank
               /\ ~stopped' => /\ stage'[ports'[i].rank] = "posted"
                               /\ ports'[i].addr.start = proc'[ports'[i].rank]
    <3>1. CASE i \in 1 .. Len(ports)
      <4>1. ports[i].rank \in Started
        BY <3>1, LineType DEF IInv
      <4> QED
        BY <3>1, <4>1, <1>3, <1>4 DEF IInv, PortsInv
    <3>2. CASE i = Len(ports) + 1
      BY <3>2, <1>1, <1>3, <1>4
    <3> QED
      BY <3>1, <3>2, <1>3
  <2>3. ASSUME NEW q \in Started, ~stopped, stage'[q] = "posted"
        PROVE  LinesOf(q)' # {}
    <3>1. CASE q = r
      <4>1. Len(ports) + 1 \in LinesOf(r)'
        BY <1>1, <1>3 DEF LinesOf
      <4> QED
        BY <3>1, <4>1
    <3>2. CASE q # r
      <4>1. PICK i \in 1 .. Len(ports) : ports[i].rank = q
        BY <2>3, <3>2, <1>4 DEF IInv, PortsInv, LinesOf
      <4>2. i \in LinesOf(q)'
        BY <4>1, <1>3 DEF LinesOf
      <4> QED
        BY <4>2
    <3> QED
      BY <3>1, <3>2
  <2> QED
    BY <2>1, <2>2, <2>3, <1>4 DEF PortsInv
<1>7. CacheInv'
  <2> SUFFICES ASSUME NEW c \in Client, NEW q \in Rank,
                      address_cache[c][q] # None
               PROVE  \E i \in 1 .. Len(ports') :
                        IsFirst(i, q)' /\ address_cache[c][q] = ports'[i].addr
    BY DEF CacheInv, hvac_comm_list_addr, clientVars, lookupVars
  <2>1. PICK i \in 1 .. Len(ports) :
          IsFirst(i, q) /\ address_cache[c][q] = ports[i].addr
    BY DEF IInv, CacheInv
  <2>2. i \in 1 .. Len(ports') /\ IsFirst(i, q)' /\ ports'[i] = ports[i]
    BY <2>1, <1>1, <1>2, AppendKeepsFirst
  <2> QED
    BY <2>1, <2>2
<1>8. ASSUME NEW q \in Rank, Ready(q) PROVE Ready(q)'
  BY <1>4, <1>8 DEF Ready
<1>9. \A c \in Client : CallInv(c)' /\ PromptInv(c)'
  BY <1>4, <1>8, ClientsKeep DEF hvac_comm_list_addr
<1> QED
  BY <1>5, <1>6, <1>7, <1>9 DEF IInv

-----------------------------------------------------------------------------
(* The lookup.                                                             *)

\* A scan of the file finds the first address of the rank, if any.
LEMMA FirstMatchType ==
  ASSUME TypeOK, NEW r \in Rank
  PROVE  /\ FirstMatch(r) \in Addr0
         /\ FirstMatch(r) # None =>
              \E i \in 1 .. Len(ports) :
                IsFirst(i, r) /\ FirstMatch(r) = ports[i].addr
         /\ LinesOf(r) # {} => FirstMatch(r) # None
<1>1. CASE LinesOf(r) = {}
  BY <1>1 DEF FirstMatch, Addr0
<1>2. CASE LinesOf(r) # {}
  <2>1. PICK i \in 1 .. Len(ports) :
          IsFirst(i, r) /\ FirstMatch(r) = ports[i].addr
    BY <1>2, FirstMatchIsFirst DEF TypeOK
  <2>2. ports[i].addr \in Addr /\ ports[i].addr # None
    BY LineType
  <2> QED
    BY <2>1, <2>2 DEF Addr0
<1> QED
  BY <1>1, <1>2

\* What every lookup keeps: types, other processes, and known addresses.
LookupKeeps(c, r) ==
  /\ address_cache' \in [Client -> [Rank -> Addr0]]
  /\ streams' \in [Client -> 0 .. MaxStreams]
  /\ dead' \in [Client -> BOOLEAN]
  /\ \A d \in Client : d # c =>
       /\ address_cache'[d] = address_cache[d]
       /\ streams'[d] = streams[d] /\ dead'[d] = dead[d]
  /\ \A q \in Rank : q # r \/ address_cache[c][q] # None =>
       address_cache'[c][q] = address_cache[c][q]
  /\ address_cache[c][r] = None =>
       address_cache'[c][r] \in {None, FirstMatch(r)}

LEMMA ScanKeeps ==
  ASSUME IInv, NEW c \in Client, NEW r \in Rank,
         address_cache[c][r] = None, Scan(c, r)
  PROVE  LookupKeeps(c, r) /\ address_cache'[c][r] = FirstMatch(r)
<1>1. FirstMatch(r) \in Addr0
  BY FirstMatchType DEF IInv
<1>2. /\ address_cache' \in [Client -> [Rank -> Addr0]]
      /\ address_cache'[c][r] = FirstMatch(r)
      /\ \A q \in Rank : q # r => address_cache'[c][q] = address_cache[c][q]
      /\ \A d \in Client : d # c => address_cache'[d] = address_cache[d]
  BY <1>1 DEF IInv, TypeOK, Scan
<1>3. streams[c] + 1 \in 0 .. MaxStreams
  <2>1. streams[c] \in 0 .. MaxStreams /\ streams[c] # MaxStreams
    BY DEF IInv, TypeOK, Scan, Unreadable
  <2> QED
    BY <2>1, StartupConstants
<1>4. /\ streams' \in [Client -> 0 .. MaxStreams]
      /\ \A d \in Client : d # c => streams'[d] = streams[d]
  BY <1>3 DEF IInv, TypeOK, Scan
<1>5. dead' = dead /\ dead \in [Client -> BOOLEAN]
  BY DEF IInv, TypeOK, Scan
<1> QED
  BY <1>2, <1>4, <1>5 DEF LookupKeeps

LEMMA CrashKeeps ==
  ASSUME IInv, NEW c \in Client, NEW r \in Rank, Crash(c)
  PROVE  LookupKeeps(c, r)
<1>1. dead' \in [Client -> BOOLEAN] /\ \A d \in Client : d # c => dead'[d] = dead[d]
  BY DEF IInv, TypeOK, Crash
<1> QED
  BY <1>1 DEF IInv, TypeOK, Crash, LookupKeeps

\* A lookup either crashes the process or sends the call to the address that
\* is then in the cache.
LEMMA Lookup ==
  ASSUME IInv, NEW c \in Client, NEW op, NEW r \in Rank,
         hvac_client_comm_lookup_addr(c, op, r)
  PROVE  /\ LookupKeeps(c, r)
         /\ \/ call' = call
            \/ call' = [call EXCEPT ![c] =
                          [op |-> op, rank |-> r, to |-> address_cache'[c][r]]]
<1>1. CASE address_cache[c][r] # None /\ UNCHANGED lookupVars
  BY <1>1 DEF IInv, TypeOK, hvac_client_comm_lookup_addr, LookupKeeps, lookupVars
<1>2. CASE address_cache[c][r] = None /\ Scan(c, r)
  BY <1>2, ScanKeeps DEF hvac_client_comm_lookup_addr
<1>3. CASE address_cache[c][r] = None /\ Crash(c) /\ call' = call
  BY <1>3, CrashKeeps
<1> QED
  BY <1>1, <1>2, <1>3 DEF hvac_client_comm_lookup_addr

\* The cache stays right.
LEMMA LookupCache ==
  ASSUME IInv, NEW c \in Client, NEW r \in Rank, LookupKeeps(c, r),
         ports' = ports
  PROVE  CacheInv'
<1> SUFFICES ASSUME NEW d \in Client, NEW q \in Rank,
                    address_cache'[d][q] # None
             PROVE  \E i \in 1 .. Len(ports) :
                      IsFirst(i, q) /\ address_cache'[d][q] = ports[i].addr
  BY DEF CacheInv, IsFirst, LinesOf
<1>1. CASE address_cache'[d][q] = address_cache[d][q]
  BY <1>1 DEF IInv, CacheInv
<1>2. CASE d = c /\ q = r /\ address_cache[c][r] = None
  BY <1>2, FirstMatchType DEF IInv, LookupKeeps
<1> QED
  BY <1>1, <1>2 DEF LookupKeeps

\* A scan finds the file, and the rank in it, when all servers are ready.
LEMMA ReadyFound ==
  ASSUME IInv, ~stopped, \A q \in Rank : Ready(q), NEW r \in Rank
  PROVE  LinesOf(r) # {} /\ FirstMatch(r) # None /\ ports # <<>>
<1>1. LinesOf(r) # {}
  BY DEF IInv, PortsInv, Ready
<1> QED
  BY <1>1, FirstMatchType DEF IInv, LinesOf

\* The ranks whose address c knows, and that it does not know them all if r
\* is not among them.
LEMMA CachedRanks ==
  ASSUME NEW c \in Client
  PROVE  /\ IsFiniteSet(Cached(c)) /\ Cardinality(Cached(c)) \in Nat
         /\ Cardinality(Cached(c)) <= ServerCount
         /\ \A r \in Rank \ Cached(c) : Cardinality(Cached(c)) < ServerCount
<1>1. IsFiniteSet(Rank) /\ Cardinality(Rank) = ServerCount
  <2>1. 0 \in Int /\ ServerCount - 1 \in Int /\ ServerCount - 1 - 0 + 1 = ServerCount
    BY StartupConstants
  <2> QED
    BY <2>1, FS_Interval, StartupConstants DEF Rank
<1>2. Cached(c) \subseteq Rank /\ IsFiniteSet(Cached(c))
  BY <1>1, FS_Subset DEF Cached
<1>3. Cardinality(Cached(c)) <= Cardinality(Rank)
      /\ (Cardinality(Cached(c)) = Cardinality(Rank) => Cached(c) = Rank)
  BY <1>1, <1>2, FS_Subset
<1>4. Cardinality(Cached(c)) \in Nat
  BY <1>2, FS_CardinalityType
<1>5. ASSUME NEW r \in Rank \ Cached(c)
      PROVE  Cardinality(Cached(c)) < ServerCount
  <2>1. Cached(c) # Rank
    OBVIOUS
  <2> QED
    BY <1>1, <1>3, <1>4, <2>1, StartupConstants
<1> QED
  BY <1>1, <1>2, <1>3, <1>4, <1>5

\* What PromptInv says of the streams of a process, after a lookup.
Solvent(c) ==
  /\ dead'[c] => unknown[c] > MaxStreams - ServerCount
  /\ ~dead'[c] => streams'[c] = Cardinality(Cached(c)') + unknown[c]

\* A lookup that is not answered by the cache, by a process that was not
\* early, in a job whose servers are all ready: the file is there, and streams
\* are left unless too many ranks were asked for in vain.
LEMMA ScanPrompt ==
  ASSUME IInv, NEW c \in Client, NEW r \in Rank, ~dead[c],
         address_cache[c][r] = None,
         Scan(c, r) \/ (Unreadable(c) /\ Crash(c)),
         ~stopped, ~early[c], \A q \in Rank : Ready(q)
  PROVE  Solvent(c)
<1>1. /\ streams[c] = Cardinality(Cached(c)) + unknown[c] /\ unknown[c] \in Nat
      /\ dead \in [Client -> BOOLEAN]
  BY DEF IInv, PromptInv, TypeOK
<1>2. r \notin Cached(c)
  BY DEF Cached
<1>3. /\ Cardinality(Cached(c)) \in Nat /\ Cardinality(Cached(c)) < ServerCount
      /\ IsFiniteSet(Cached(c))
  BY <1>2, CachedRanks
<1>4. CASE Unreadable(c) /\ Crash(c)
  <2>1. streams[c] = MaxStreams /\ dead'[c]
    BY <1>1, <1>4, ReadyFound DEF Unreadable, Crash
  <2>2. unknown[c] > MaxStreams - ServerCount
    BY <1>1, <1>3, <2>1, StartupConstants
  <2> QED
    BY <2>1, <2>2 DEF Solvent
<1>5. CASE Scan(c, r)
  <2>1. address_cache'[c][r] # None /\ LookupKeeps(c, r)
    BY <1>5, ReadyFound, ScanKeeps
  <2>2. Cached(c)' = Cached(c) \cup {r}
    BY <2>1 DEF Cached, LookupKeeps
  <2>3. Cardinality(Cached(c) \cup {r}) = Cardinality(Cached(c)) + 1
    BY <1>2, <1>3, FS_AddElement
  <2>4. streams'[c] = streams[c] + 1 /\ dead' = dead
    BY <1>5 DEF IInv, TypeOK, Scan
  <2> QED
    BY <1>1, <1>3, <2>2, <2>3, <2>4 DEF Solvent
<1> QED
  BY <1>4, <1>5

\* The same for any lookup.
LEMMA LookupPrompt ==
  ASSUME IInv, NEW c \in Client, NEW op, NEW r \in Rank, ~dead[c],
         hvac_client_comm_lookup_addr(c, op, r),
         ~stopped, ~early[c], \A q \in Rank : Ready(q)
  PROVE  Solvent(c)
<1>1. CASE address_cache[c][r] # None
  <2>1. address_cache' = address_cache /\ streams' = streams /\ dead' = dead
    BY <1>1 DEF hvac_client_comm_lookup_addr, lookupVars, Scan, Crash
  <2> QED
    BY <2>1 DEF IInv, PromptInv, Solvent, Cached
<1>2. CASE address_cache[c][r] = None
  <2>1. Scan(c, r) \/ (Unreadable(c) /\ Crash(c))
    BY <1>2 DEF hvac_client_comm_lookup_addr
  <2> QED
    BY <1>2, <2>1, ScanPrompt
<1> QED
  BY <1>1, <1>2

-----------------------------------------------------------------------------
(* The processes.                                                          *)

\* Only the calls of process c change.
LEMMA OthersKeep ==
  ASSUME IInv, NEW c \in Client, NEW d \in Client, d # c, UNCHANGED serverVars,
         address_cache'[d] = address_cache[d], streams'[d] = streams[d],
         dead'[d] = dead[d], call'[d] = call[d], file'[d] = file[d],
         g_mercury_init'[d] = g_mercury_init[d], early'[d] = early[d],
         unknown'[d] = unknown[d]
  PROVE  CallInv(d)' /\ PromptInv(d)'
<1>1. CallInv(d)'
  BY DEF IInv, CallInv, Host, NoFile
<1>2. Cached(d)' = Cached(d)
  BY DEF Cached
<1>3. \A r \in Rank : Ready(r)' = Ready(r)
  BY DEF Ready, serverVars
<1>4. PromptInv(d)'
  BY <1>2, <1>3 DEF IInv, PromptInv, serverVars
<1> QED
  BY <1>1, <1>4

\* Nor do the servers.
LEMMA ServersKeep ==
  ASSUME IInv, UNCHANGED serverVars
  PROVE  PortsInv' /\ \A r \in Rank : Ready(r)' = Ready(r)
<1>1. PortsInv'
  BY DEF IInv, PortsInv, LinesOf, serverVars
<1> QED
  BY <1>1 DEF Ready, serverVars

CallType == [op : {"none", "open", "read", "close"},
             rank : Rank, to : Addr0]

\* What a lookup on behalf of op leaves to be shown: CallInv and PromptInv of
\* the process itself.
LEMMA LookupIInv ==
  ASSUME IInv, NEW c \in Client, NEW op \in {"open", "read", "close"},
         NEW r \in Rank, hvac_client_comm_lookup_addr(c, op, r),
         UNCHANGED serverVars,
         file' \in [Client -> [path : Path \cup {None}, owner : Addr0]],
         g_mercury_init' \in [Client -> BOOLEAN],
         early' \in [Client -> BOOLEAN], unknown' = unknown,
         \A d \in Client : d # c =>
           /\ file'[d] = file[d] /\ g_mercury_init'[d] = g_mercury_init[d]
           /\ early'[d] = early[d],
         CallInv(c)', PromptInv(c)'
  PROVE  IInv'
<1>1. LookupKeeps(c, r)
  BY Lookup
<1>2. call' \in [Client -> CallType] /\ \A d \in Client : d # c => call'[d] = call[d]
  <2>1. call \in [Client -> CallType] /\ address_cache'[c][r] \in Addr0
    BY <1>1 DEF IInv, TypeOK, CallType, LookupKeeps
  <2>2. [op |-> op, rank |-> r, to |-> address_cache'[c][r]] \in CallType
    BY <2>1 DEF CallType
  <2>3. \/ call' = call
        \/ call' = [call EXCEPT ![c] =
                      [op |-> op, rank |-> r, to |-> address_cache'[c][r]]]
    BY Lookup
  <2> QED
    BY <2>1, <2>2, <2>3
<1>3. TypeOK'
  BY <1>1, <1>2 DEF IInv, TypeOK, LookupKeeps, CallType, serverVars
<1>4. CacheInv'
  BY <1>1, LookupCache DEF serverVars
<1>5. ASSUME NEW d \in Client, d # c
      PROVE  CallInv(d)' /\ PromptInv(d)'
  BY <1>1, <1>2, <1>5, OthersKeep DEF LookupKeeps
<1> QED
  BY <1>3, <1>4, <1>5, ServersKeep DEF IInv

\* The same for a lookup that leaves the file alone.
LEMMA CallOnFileIInv ==
  ASSUME IInv, NEW c \in Client, NEW op \in {"read", "close"},
         NEW r \in Rank, hvac_client_comm_lookup_addr(c, op, r),
         call[c] = NoCall, g_mercury_init[c],
         file[c].path \in Path, r = Host(file[c].path),
         ~dead[c], UNCHANGED <<serverVars, g_mercury_init, file, early, unknown>>
  PROVE  IInv'
<1>1. /\ LookupKeeps(c, r)
      /\ \/ call' = call
         \/ call' = [call EXCEPT ![c] =
                       [op |-> op, rank |-> r, to |-> address_cache'[c][r]]]
  BY Lookup
<1>2. \/ call'[c] = NoCall
      \/ call'[c] = [op |-> op, rank |-> r, to |-> address_cache'[c][r]]
  BY <1>1 DEF IInv, TypeOK
<1>3. CallInv(c)'
  <2>1. file[c].owner # None =>
          /\ file[c].path \in Path
          /\ file[c].owner = address_cache'[c][Host(file[c].path)]
    BY <1>1, HostType DEF IInv, CallInv, LookupKeeps
  <2> QED
    BY <1>2, <2>1 DEF IInv, CallInv, NoCall, NoFile, Host
<1>4. PromptInv(c)'
  <2> SUFFICES ASSUME ~stopped, ~early[c]
               PROVE  Solvent(c) /\ \A q \in Rank : Ready(q)
    BY ServersKeep DEF PromptInv, Solvent, serverVars
  <2>1. \A q \in Rank : Ready(q)
    BY DEF IInv, PromptInv
  <2> QED
    BY <2>1, LookupPrompt
<1> QED
  BY <1>3, <1>4, LookupIInv DEF IInv, TypeOK

LEMMA OpenIInv ==
  ASSUME IInv, NEW c \in Client, NEW p \in Path, open(c, p)
  PROVE  IInv'
<1> DEFINE r == Host(p)
<1>1. r \in Rank
  BY HostType
<1>2. hvac_client_comm_lookup_addr(c, "open", r)
  BY DEF open
<1> HIDE DEF r
<1>3. /\ LookupKeeps(c, r)
      /\ \/ call' = call
         \/ call' = [call EXCEPT ![c] =
                       [op |-> "open", rank |-> r, to |-> address_cache'[c][r]]]
  BY <1>1, <1>2, Lookup
<1>4. \/ call'[c] = NoCall
      \/ call'[c] = [op |-> "open", rank |-> r, to |-> address_cache'[c][r]]
  BY <1>3 DEF IInv, TypeOK, open, Free
<1>5. /\ file'[c] = [path |-> p, owner |-> None] /\ g_mercury_init'[c] = TRUE
      /\ file' \in [Client -> [path : Path \cup {None}, owner : Addr0]]
      /\ g_mercury_init' \in [Client -> BOOLEAN]
      /\ \A d \in Client : d # c =>
           file'[d] = file[d] /\ g_mercury_init'[d] = g_mercury_init[d]
  BY DEF IInv, TypeOK, open, NoFile, Addr0
<1>6. /\ early' \in [Client -> BOOLEAN]
      /\ \A d \in Client : d # c => early'[d] = early[d]
      /\ ~early'[c] => ~early[c] /\ \A q \in Rank : Ready(q)
  BY DEF IInv, TypeOK, open
<1>7. CallInv(c)'
  BY <1>4, <1>5 DEF CallInv, NoCall, r, Host
<1>8. UNCHANGED <<serverVars, unknown>>
  BY DEF open
<1>9. PromptInv(c)'
  <2> SUFFICES ASSUME ~stopped, ~early'[c]
               PROVE  Solvent(c) /\ \A q \in Rank : Ready(q)
    BY <1>8, ServersKeep DEF PromptInv, Solvent, serverVars
  <2>1. ~dead[c]
    BY DEF open, Free
  <2> QED
    BY <1>1, <1>2, <1>6, <2>1, LookupPrompt
<1> QED
  BY <1>1, <1>2, <1>5, <1>6, <1>7, <1>8, <1>9, LookupIInv

LEMMA ReadIInv ==
  ASSUME IInv, NEW c \in Client, read(c)
  PROVE  IInv'
<1>1. file[c].path \in Path /\ g_mercury_init[c] /\ call[c] = NoCall /\ ~dead[c]
  BY DEF IInv, CallInv, read, NoFile, Free
<1>2. Host(file[c].path) \in Rank
  BY <1>1, HostType
<1> QED
  BY <1>1, <1>2, CallOnFileIInv DEF read

LEMMA CloseIInv ==
  ASSUME IInv, NEW c \in Client, close(c)
  PROVE  IInv'
<1>1. file[c].path \in Path
  <2>1. file[c] \in [path : Path \cup {None}, owner : Addr0]
    BY DEF IInv, TypeOK
  <2>2. CASE file[c].path = None
    <3>1. file[c].owner = None
      BY <2>2, StartupConstants DEF IInv, CallInv
    <3>2. file[c] = [path |-> None, owner |-> None]
      BY <2>1, <2>2, <3>1
    <3> QED
      BY <3>2 DEF close, NoFile
  <2> QED
    BY <2>1, <2>2
<1>2. g_mercury_init[c] /\ call[c] = NoCall /\ ~dead[c]
  BY DEF IInv, CallInv, close, Free
<1>3. Host(file[c].path) \in Rank
  BY <1>1, HostType
<1> QED
  BY <1>1, <1>2, <1>3, CallOnFileIInv DEF close

\* A step of c that changes no call and no file, but perhaps what c knows of
\* the servers.
LEMMA QuietIInv ==
  ASSUME IInv, NEW c \in Client, NEW r \in Rank, LookupKeeps(c, r),
         UNCHANGED <<serverVars, g_mercury_init, call, file>>, call[c] = NoCall,
         early' \in [Client -> BOOLEAN], unknown' \in [Client -> Nat],
         \A d \in Client : d # c => early'[d] = early[d] /\ unknown'[d] = unknown[d],
         PromptInv(c)'
  PROVE  IInv'
<1>1. TypeOK'
  BY DEF IInv, TypeOK, LookupKeeps, serverVars
<1>2. CacheInv'
  BY LookupCache DEF serverVars
<1>3. CallInv(c)'
  <2>1. file[c].owner # None =>
          /\ file[c].path \in Path
          /\ file[c].owner = address_cache'[c][Host(file[c].path)]
    BY HostType DEF IInv, CallInv, LookupKeeps
  <2> QED
    BY <2>1 DEF IInv, CallInv, NoCall, NoFile, Host
<1>4. ASSUME NEW d \in Client, d # c
      PROVE  CallInv(d)' /\ PromptInv(d)'
  BY <1>4, OthersKeep DEF LookupKeeps
<1> QED
  BY <1>1, <1>2, <1>3, <1>4, ServersKeep DEF IInv

LEMMA StatsIInv ==
  ASSUME IInv, NEW c \in Client, NEW r \in Rank, request_stats(c, r)
  PROVE  IInv'
<1>1. /\ ~dead[c] /\ call[c] = NoCall /\ g_mercury_init[c]
      /\ UNCHANGED <<serverVars, g_mercury_init, call, file, early, unknown>>
  BY DEF request_stats, Free
<1>2. CASE address_cache[c][r] # None /\ UNCHANGED lookupVars
  <2>1. LookupKeeps(c, r) /\ Cached(c)' = Cached(c)
    BY <1>2 DEF IInv, TypeOK, LookupKeeps, lookupVars, Cached
  <2>2. PromptInv(c)'
    BY <1>1, <1>2, <2>1, ServersKeep DEF IInv, PromptInv, serverVars, lookupVars
  <2> QED
    BY <1>1, <2>1, <2>2, QuietIInv DEF IInv, TypeOK
<1>3. CASE /\ address_cache[c][r] = None
           /\ Scan(c, r) \/ (Unreadable(c) /\ Crash(c))
  <2>1. LookupKeeps(c, r)
    BY <1>3, ScanKeeps, CrashKeeps
  <2>2. PromptInv(c)'
    <3> SUFFICES ASSUME ~stopped, ~early[c]
                 PROVE  Solvent(c) /\ \A q \in Rank : Ready(q)
      BY <1>1, ServersKeep DEF PromptInv, Solvent, serverVars
    <3>1. \A q \in Rank : Ready(q)
      BY <1>1 DEF IInv, PromptInv
    <3> QED
      BY <1>1, <1>3, <3>1, ScanPrompt
  <2> QED
    BY <1>1, <2>1, <2>2, QuietIInv DEF IInv, TypeOK
<1> QED
  BY <1>2, <1>3 DEF request_stats

LEMMA StatsTooSoonIInv ==
  ASSUME IInv, NEW c \in Client, NEW r \in Rank, request_stats_too_soon(c, r)
  PROVE  IInv'
<1>1. LookupKeeps(c, r)
  <2>1. CASE UNCHANGED lookupVars
    BY <2>1 DEF IInv, TypeOK, LookupKeeps, lookupVars
  <2>2. CASE address_cache[c][r] = None /\ Scan(c, r)
    BY <2>2, ScanKeeps
  <2>3. CASE Crash(c)
    BY <2>3, CrashKeeps
  <2> QED
    BY <2>1, <2>2, <2>3 DEF request_stats_too_soon
<1>2. /\ early' \in [Client -> BOOLEAN] /\ early'[c] = TRUE
      /\ \A d \in Client : d # c => early'[d] = early[d]
  BY DEF IInv, TypeOK, request_stats_too_soon
<1>3. /\ call[c] = NoCall
      /\ UNCHANGED <<serverVars, g_mercury_init, call, file, unknown>>
  BY DEF request_stats_too_soon, Free
<1>4. PromptInv(c)'
  BY <1>2 DEF PromptInv
<1> QED
  BY <1>1, <1>2, <1>3, <1>4, QuietIInv DEF IInv, TypeOK

\* A request for a rank that does not exist leaks a stream or, when none is
\* left, ends the process.
LEMMA StatsUnknownIInv ==
  ASSUME IInv, NEW c \in Client, request_stats_unknown(c)
  PROVE  IInv'
<1>1. /\ ~dead[c] /\ call[c] = NoCall /\ 0 \in Rank
      /\ UNCHANGED <<serverVars, g_mercury_init, call, file>>
  BY StartupConstants DEF request_stats_unknown, Free, Rank
<1>2. /\ early' \in [Client -> BOOLEAN] /\ unknown' \in [Client -> Nat]
      /\ \A d \in Client : d # c => early'[d] = early[d] /\ unknown'[d] = unknown[d]
      /\ unknown'[c] = unknown[c] + 1 /\ unknown[c] \in Nat
      /\ ~early'[c] => ~early[c] /\ \A q \in Rank : Ready(q)
  <2>1. early \in [Client -> BOOLEAN] /\ unknown \in [Client -> Nat]
    BY DEF IInv, TypeOK
  <2>2. /\ early' = [early EXCEPT ![c] = early[c] \/ \E q \in Rank : ~Ready(q)]
        /\ unknown' = [unknown EXCEPT ![c] = unknown[c] + 1]
    BY DEF request_stats_unknown
  <2>3. /\ early' \in [Client -> BOOLEAN]
        /\ \A d \in Client : d # c => early'[d] = early[d]
        /\ ~early'[c] => ~early[c] /\ \A q \in Rank : Ready(q)
    BY <2>1, <2>2
  <2> QED
    BY <2>1, <2>2, <2>3
<1>3. CASE Unreadable(c) /\ Crash(c)
  <2>1. LookupKeeps(c, 0)
    BY <1>1, <1>3, CrashKeeps
  <2>2. PromptInv(c)'
    <3> SUFFICES ASSUME ~stopped, ~early'[c]
                 PROVE  /\ dead'[c] => unknown'[c] > MaxStreams - ServerCount
                        /\ dead'[c] /\ \A q \in Rank : Ready(q)
      BY <1>1, ServersKeep DEF PromptInv, serverVars
    <3>1. dead'[c]
      BY <1>3 DEF IInv, TypeOK, Crash
    <3>2. streams[c] = MaxStreams /\ streams[c] = Cardinality(Cached(c)) + unknown[c]
      BY <1>1, <1>2, <1>3, ReadyFound DEF Unreadable, IInv, PromptInv
    <3>3. unknown'[c] > MaxStreams - ServerCount
      BY <1>2, <3>2, CachedRanks, StartupConstants
    <3> QED
      BY <1>2, <3>1, <3>3
  <2> QED
    BY <1>1, <1>2, <2>1, <2>2, QuietIInv
<1>4. CASE /\ ~Unreadable(c) /\ streams' = [streams EXCEPT ![c] = @ + 1]
           /\ UNCHANGED <<address_cache, dead>>
  <2>1. streams[c] + 1 \in 0 .. MaxStreams
    <3>1. streams[c] \in 0 .. MaxStreams /\ streams[c] # MaxStreams
      BY <1>4 DEF IInv, TypeOK, Unreadable
    <3> QED
      BY <3>1, StartupConstants
  <2>2. LookupKeeps(c, 0) /\ Cached(c)' = Cached(c) /\ streams'[c] = streams[c] + 1
    BY <1>4, <2>1 DEF IInv, TypeOK, LookupKeeps, Cached
  <2>3. PromptInv(c)'
    <3> SUFFICES ASSUME ~stopped, ~early'[c]
                 PROVE  /\ streams'[c] = Cardinality(Cached(c)') + unknown'[c]
                        /\ ~dead'[c] /\ \A q \in Rank : Ready(q)
      BY <1>1, ServersKeep DEF PromptInv, serverVars
    <3>1. streams[c] = Cardinality(Cached(c)) + unknown[c]
      BY <1>1, <1>2 DEF IInv, PromptInv
    <3> QED
      BY <1>1, <1>2, <1>4, <2>2, <3>1, CachedRanks
  <2> QED
    BY <1>1, <1>2, <2>2, <2>3, QuietIInv
<1> QED
  BY <1>3, <1>4 DEF request_stats_unknown

\* A call of c ends, and only its file may have changed.
LEMMA DoneIInv ==
  ASSUME IInv, NEW c \in Client, Done(c),
         UNCHANGED <<serverVars, lookupVars, g_mercury_init, early, unknown>>,
         file' \in [Client -> [path : Path \cup {None}, owner : Addr0]],
         \A d \in Client : d # c => file'[d] = file[d],
         file'[c].owner # None =>
           /\ file'[c].path \in Path
           /\ file'[c].owner = address_cache[c][Host(file'[c].path)],
         file'[c] # NoFile => g_mercury_init[c]
  PROVE  IInv'
<1>1. NoCall \in CallType
  BY StartupConstants DEF NoCall, CallType, Rank, Addr0
<1>2. /\ call' \in [Client -> CallType] /\ call'[c] = NoCall
      /\ \A d \in Client : d # c => call'[d] = call[d]
  BY <1>1 DEF IInv, TypeOK, Done, CallType
<1>3. TypeOK'
  BY <1>2 DEF IInv, TypeOK, CallType, serverVars, lookupVars
<1>4. CacheInv'
  BY DEF IInv, CacheInv, IsFirst, LinesOf, serverVars, lookupVars
<1>5. CallInv(c)'
  BY <1>2 DEF CallInv, NoCall, NoFile, Host, lookupVars
<1>6. PromptInv(c)'
  <2>1. Cached(c)' = Cached(c)
    BY DEF Cached, lookupVars
  <2> QED
    BY <2>1, ServersKeep DEF IInv, PromptInv, serverVars, lookupVars
<1>7. ASSUME NEW d \in Client, d # c
      PROVE  CallInv(d)' /\ PromptInv(d)'
  BY <1>2, <1>7, OthersKeep DEF lookupVars
<1> QED
  BY <1>3, <1>4, <1>5, <1>6, <1>7, ServersKeep DEF IInv

LEMMA OpenAnsweredIInv ==
  ASSUME IInv, NEW c \in Client, OpenAnswered(c)
  PROVE  IInv'
<1>1. PICK o \in {call[c].to, None} : file' = [file EXCEPT ![c].owner = o]
  BY DEF OpenAnswered
<1>2. /\ g_mercury_init[c] /\ file[c].path \in Path
      /\ call[c].to = address_cache[c][Host(file[c].path)]
      /\ call[c].to \in Addr0 /\ None \in Addr0
  BY DEF IInv, TypeOK, CallInv, OpenAnswered, Waits, Addr0
<1>3. /\ file' \in [Client -> [path : Path \cup {None}, owner : Addr0]]
      /\ \A d \in Client : d # c => file'[d] = file[d]
      /\ file'[c].owner = o /\ file'[c].path = file[c].path
  BY <1>1, <1>2 DEF IInv, TypeOK
<1> QED
  BY <1>1, <1>2, <1>3, DoneIInv DEF OpenAnswered

LEMMA AnsweredIInv ==
  ASSUME IInv, NEW c \in Client, ReadAnswered(c) \/ Refused(c)
  PROVE  IInv'
<1>1. Done(c) /\ file' = file
      /\ UNCHANGED <<serverVars, lookupVars, g_mercury_init, early, unknown>>
  BY DEF ReadAnswered, Refused
<1>2. /\ file \in [Client -> [path : Path \cup {None}, owner : Addr0]]
      /\ CallInv(c)
  BY DEF IInv, TypeOK
<1> QED
  BY <1>1, <1>2, DoneIInv DEF CallInv

LEMMA CloseSentIInv ==
  ASSUME IInv, NEW c \in Client, CloseSent(c)
  PROVE  IInv'
<1>1. Done(c) /\ file' = [file EXCEPT ![c] = NoFile]
      /\ UNCHANGED <<serverVars, lookupVars, g_mercury_init, early, unknown>>
  BY DEF CloseSent
<1>2. /\ file \in [Client -> [path : Path \cup {None}, owner : Addr0]]
      /\ NoFile \in [path : Path \cup {None}, owner : Addr0]
      /\ NoFile.owner = None
  BY DEF IInv, TypeOK, NoFile, Addr0
<1>3. /\ file' \in [Client -> [path : Path \cup {None}, owner : Addr0]]
      /\ file'[c] = NoFile /\ \A d \in Client : d # c => file'[d] = file[d]
  BY <1>1, <1>2
<1> QED
  BY <1>1, <1>2, <1>3, DoneIInv

\* A callback's assert fails only after a server has stopped, or if the
\* process came too early.
LEMMA CallbackAssertsIInv ==
  ASSUME IInv, NEW c \in Client, CallbackAsserts(c)
  PROVE  IInv'
<1> DEFINE a == call[c].to  r == call[c].rank
<1>1. /\ call[c] \in CallType /\ a = address_cache[c][r] /\ a # None
      /\ g_mercury_init[c] /\ call[c].op \in {"open", "read"} /\ r \in Rank
  BY DEF IInv, TypeOK, CallInv, CallbackAsserts, Waits, CallType
<1>2. PICK i \in 1 .. Len(ports) : IsFirst(i, r) /\ a = ports[i].addr
  BY <1>1 DEF IInv, CacheInv
<1>3. ASSUME ~stopped, ~early[c]
      PROVE  FALSE
  <2>1. Ready(ports[i].rank)
    <3>1. ports[i].rank = r
      BY <1>2 DEF IsFirst, LinesOf
    <3> QED
      BY <1>1, <1>3, <3>1 DEF IInv, PromptInv
  <2>2. a.rank = ports[i].rank /\ a.start = proc[a.rank] /\ stage[a.rank] = "posted"
    BY <1>2, <1>3 DEF IInv, PortsInv
  <2>3. Running(a)
    BY <1>1, <2>2 DEF Running
  <2>4. registered[a.rank] = 3
    BY <2>1, <2>2, RpcCount DEF Ready
  <2>5. RpcOrder[1] = "read" /\ RpcOrder[2] = "open"
    BY DEF RpcOrder
  <2>6. Serves(a, call[c].op)
    BY <1>1, <2>3, <2>4, <2>5 DEF Serves
  <2> QED
    BY <2>6 DEF CallbackAsserts
<1>4. Crash(c)
      /\ UNCHANGED <<serverVars, g_mercury_init, call, file, early, unknown>>
  BY DEF CallbackAsserts
<1>5. LookupKeeps(c, r)
  BY <1>1, <1>4, CrashKeeps
<1>6. TypeOK'
  BY <1>4, <1>5 DEF IInv, TypeOK, LookupKeeps, serverVars
<1>7. CacheInv'
  BY <1>1, <1>4, <1>5, LookupCache DEF serverVars
<1>8. CallInv(c)' /\ PromptInv(c)'
  BY <1>3, <1>4 DEF IInv, CallInv, PromptInv, Crash, serverVars, Host, NoFile
<1>9. ASSUME NEW d \in Client, d # c
      PROVE  CallInv(d)' /\ PromptInv(d)'
  BY <1>4, <1>5, <1>9, OthersKeep DEF LookupKeeps
<1> QED
  BY <1>4, <1>6, <1>7, <1>8, <1>9, ServersKeep DEF IInv

LEMMA NextIInv == IInv /\ [Next]_vars => IInv'
<1> SUFFICES ASSUME IInv, [Next]_vars
             PROVE  IInv'
  OBVIOUS
<1>1. ASSUME NEW r \in Started, Server(r) PROVE IInv'
  BY <1>1, ServerStartIInv, ListAddrIInv, RegisterIInv, StopIInv DEF Server
<1>2. ASSUME NEW c \in Client, Process(c) PROVE IInv'
  <2>1. CASE \E p \in Path : open(c, p)
    BY <2>1, OpenIInv
  <2>2. CASE read(c)
    BY <2>2, ReadIInv
  <2>3. CASE close(c)
    BY <2>3, CloseIInv
  <2>4. CASE \E r \in Rank : request_stats(c, r)
    BY <2>4, StatsIInv
  <2>5. CASE \E r \in Rank : request_stats_too_soon(c, r)
    BY <2>5, StatsTooSoonIInv
  <2>6. CASE OpenAnswered(c)
    BY <2>6, OpenAnsweredIInv
  <2>7. CASE ReadAnswered(c) \/ Refused(c)
    BY <2>7, AnsweredIInv
  <2>8. CASE CallbackAsserts(c)
    BY <2>8, CallbackAssertsIInv
  <2>9. CASE CloseSent(c)
    BY <2>9, CloseSentIInv
  <2>10. CASE request_stats_unknown(c)
    BY <2>10, StatsUnknownIInv
  <2> QED
    BY <1>2, <2>1, <2>2, <2>3, <2>4, <2>5, <2>6, <2>7, <2>8, <2>9, <2>10
       DEF Process
<1>3. CASE UNCHANGED vars
  <2>1. UNCHANGED <<serverVars, clientVars>>
    BY <1>3 DEF vars
  <2>2. TypeOK'
    BY <2>1 DEF IInv, TypeOK, serverVars, clientVars, lookupVars
  <2>3. CacheInv'
    BY <2>1 DEF IInv, CacheInv, IsFirst, LinesOf, serverVars, clientVars, lookupVars
  <2>4. PortsInv' /\ \A r \in Rank : Ready(r)' = Ready(r)
    BY <2>1, ServersKeep
  <2>5. \A c \in Client : CallInv(c)' /\ PromptInv(c)'
    BY <2>1, <2>4, ClientsKeep DEF serverVars
  <2> QED
    BY <2>2, <2>3, <2>4, <2>5 DEF IInv
<1> QED
  BY <1>1, <1>2, <1>3 DEF Next

-----------------------------------------------------------------------------
(* The theorems.                                                           *)

\* IInv holds in every reachable state.
THEOREM Invariance == Spec => []IInv
<1> QED
  BY InitIInv, NextIInv, PTL DEF Spec

\* Every variable keeps its type; in particular no process opens more
\* streams than it may.
THEOREM TypeCorrect == Spec => []TypeOK
<1>1. IInv => TypeOK
  BY DEF IInv
<1> QED
  BY <1>1, Invariance, PTL

\* A remote descriptor goes only to the server process that opened it,
\* though every call looks the server up anew and servers come and go.
THEOREM OwnersServe == Spec => []OwnerServes
<1>1. IInv => OwnerServes
  BY DEF IInv, CallInv, OwnerServes
<1> QED
  BY <1>1, Invariance, PTL

\* All processes of the job know the same address for a rank, whenever they
\* looked it up.
THEOREM Agreement == Spec => []ClientsAgree
<1>1. ASSUME IInv, NEW c \in Client, NEW d \in Client, NEW r \in Rank,
             address_cache[c][r] # None, address_cache[d][r] # None
      PROVE  address_cache[c][r] = address_cache[d][r]
  <2>1. PICK i \in 1 .. Len(ports) :
          IsFirst(i, r) /\ address_cache[c][r] = ports[i].addr
    BY <1>1 DEF IInv, CacheInv
  <2>2. PICK j \in 1 .. Len(ports) :
          IsFirst(j, r) /\ address_cache[d][r] = ports[j].addr
    BY <1>1 DEF IInv, CacheInv
  <2>3. i = j
    BY <2>1, <2>2 DEF IsFirst, LinesOf
  <2> QED
    BY <2>1, <2>2, <2>3
<1>2. IInv => ClientsAgree
  BY <1>1 DEF ClientsAgree
<1> QED
  BY <1>2, Invariance, PTL

\* A process that uses the library after all servers are ready, in a job in
\* which none stops, is not killed by the library unless it has asked for the
\* statistics of more than MaxStreams - ServerCount ranks that do not exist.
THEOREM ClientsStayAlive == Spec => []ReadyServersKeepClientsAlive
<1>1. IInv => ReadyServersKeepClientsAlive
  BY DEF IInv, PromptInv, ReadyServersKeepClientsAlive
<1> QED
  BY <1>1, Invariance, PTL
=============================================================================
