--------------------------- MODULE FdStateProofs ---------------------------
(***************************************************************************)
(* Proofs about FdState, for any number of threads, descriptors, shards    *)
(* and opens, any clock and any timeout.                                   *)
(***************************************************************************)
EXTENDS FdState, FiniteSetTheorems, TLAPS

-----------------------------------------------------------------------------
(* The deadline.                                                           *)

Nanoseconds(ts) == ts.sec * NsPerSec + ts.nsec

\* Division with remainder.
LEMMA DivMod ==
  ASSUME NEW x \in Nat, NEW d \in Nat, d > 0
  PROVE  /\ x \div d \in Nat /\ x % d \in 0 .. d - 1
         /\ x = d * (x \div d) + (x % d)
  OBVIOUS

\* The deadline of hvac_wait_fd_ready is normalised, as
\* pthread_cond_timedwait demands, and lies exactly timeout_ms milliseconds
\* after the time taken, whatever both are.
THEOREM DeadlineExact ==
  ASSUME NEW now \in Timespec, NEW ms \in Nat
  PROVE  /\ Deadline(now, ms) \in Timespec
         /\ Nanoseconds(Deadline(now, ms)) = Nanoseconds(now) + ms * 1000000
<1> DEFINE s == now.sec  n == now.nsec  q == ms \div 1000  r == ms % 1000
           d == Deadline(now, ms)
<1>1. s \in Nat /\ n \in Int /\ 0 <= n /\ n < NsPerSec /\ NsPerSec \in Int
  <2>1. s \in Nat /\ n \in 0 .. NsPerSec - 1
    BY DEF Timespec
  <2>2. NsPerSec \in Int
    BY SMT DEF NsPerSec
  <2> QED
    BY <2>1, <2>2
<1>2. q \in Nat /\ r \in Int /\ 0 <= r /\ r < 1000 /\ ms = 1000 * q + r
  BY SMT, DivMod
<1>3. d = IF n + r * 1000000 >= NsPerSec
          THEN [sec |-> s + q + 1, nsec |-> n + r * 1000000 - NsPerSec]
          ELSE [sec |-> s + q, nsec |-> n + r * 1000000]
  BY SMT, <1>1, <1>2 DEF Deadline
<1>4. Nanoseconds(now) = s * NsPerSec + n
      /\ Nanoseconds(d) = d.sec * NsPerSec + d.nsec
  BY SMT DEF Nanoseconds
<1> HIDE DEF s, n, q, r, d
<1>5. NsPerSec = 1000000000
  BY SMT DEF NsPerSec
<1>6. /\ d.sec \in Nat /\ d.nsec \in Int /\ 0 <= d.nsec /\ d.nsec < NsPerSec
      /\ d = [sec |-> d.sec, nsec |-> d.nsec]
  <2>1. CASE n + r * 1000000 >= NsPerSec
    <3>1. d.sec = s + q + 1 /\ d.nsec = n + r * 1000000 - NsPerSec
          /\ d = [sec |-> d.sec, nsec |-> d.nsec]
      BY SMT, <1>3, <2>1
    <3> QED
      BY SMT, <1>1, <1>2, <1>5, <2>1, <3>1
  <2>2. CASE ~(n + r * 1000000 >= NsPerSec)
    <3>1. d.sec = s + q /\ d.nsec = n + r * 1000000
          /\ d = [sec |-> d.sec, nsec |-> d.nsec]
      BY SMT, <1>3, <2>2
    <3> QED
      BY SMT, <1>1, <1>2, <1>5, <2>2, <3>1
  <2> QED
    BY SMT, <2>1, <2>2
<1>7. d \in Timespec
  <2>1. d.nsec \in 0 .. NsPerSec - 1
    BY SMT, <1>1, <1>6
  <2> QED
    BY SMT, <1>6, <2>1 DEF Timespec
<1>8. d.sec * NsPerSec + d.nsec = s * NsPerSec + n + ms * 1000000
  <2>1. CASE n + r * 1000000 >= NsPerSec
    <3>1. d.sec = s + q + 1 /\ d.nsec = n + r * 1000000 - NsPerSec
      BY SMT, <1>3, <2>1
    <3> QED
      BY SMT, <1>1, <1>2, <1>5, <3>1
  <2>2. CASE ~(n + r * 1000000 >= NsPerSec)
    <3>1. d.sec = s + q /\ d.nsec = n + r * 1000000
      BY SMT, <1>3, <2>2
    <3> QED
      BY SMT, <1>1, <1>2, <1>5, <3>1
  <2> QED
    BY SMT, <2>1, <2>2
<1> QED
  BY SMT, <1>4, <1>7, <1>8 DEF d

-----------------------------------------------------------------------------
(* The inductive invariant.                                                *)

\* Which operation a thread is in, and where.
OpInv(t) ==
  LET op == thr[t].op  pc == thr[t].pc
  IN  /\ pc \in Pc
      /\ (pc = "idle") <=> (op = "none")
      /\ op # "none" => thr[t].fd \in Fd
      /\ op = "opening" => t \in App /\ pc \in {"init", "lock", "inmap", "rpc"}
      /\ op = "cleanup" => pc \in {"init", "lock", "inmap"}
      /\ op \in {"ready", "error", "refused"} =>
           pc \in {"init", "lock", "inmap", "mutex", "return"}
      /\ op = "wait" => pc # "rpc"

\* The object a thread has found belongs to its descriptor.
FoundInv(t) ==
  /\ thr[t].pc \in {"mutex", "enter", "asleep", "woken"} => thr[t].obj # NoObj
  /\ thr[t].obj # NoObj => /\ thr[t].obj \in 1 .. opens
                           /\ fdOf[thr[t].obj] = thr[t].fd

\* How far the open of a descriptor is while a thread works on it.
PhaseInv(t) ==
  LET op == thr[t].op  ph == phase[thr[t].fd]
  IN  /\ op = "opening" /\ thr[t].pc # "rpc" => ph = "opening"
      /\ op = "opening" => ph \in {"opening", "sent", "called", "signalled"}
      /\ op = "refused" => ph = "opening"
      /\ op \in {"ready", "error"} => ph = "called"
      /\ op = "cleanup" => ph = "closing"

\* The outcome of the open a thread works on.
OutcomeInv(t) ==
  LET f == thr[t].fd
  IN  /\ thr[t].op = "ready" =>
           cur[f] # NoObj /\ outcome[cur[f]] = "ok" /\ thr[t].obj <= cur[f]
      /\ thr[t].pc = "rpc" =>
           cur[f] # NoObj /\ (phase[f] = "opening" => outcome[cur[f]] = "pending")

\* A waiter that is about to sleep holds the mutex of an undecided object, a
\* sleeping one waits for an undecided object, and one that succeeded can
\* name the open.
WaiterInv(t) ==
  /\ thr[t].ret => thr[t].pc = "return"
  /\ thr[t].pc = "enter" =>
       mutex[thr[t].obj] = t /\ state[thr[t].obj] = "opening"
  /\ thr[t].pc = "asleep" => state[thr[t].obj] = "opening"
  /\ thr[t].op = "wait" /\ thr[t].ret => Opened(thr[t].fd, thr[t].obj)

ThrInv(t) ==
  OpInv(t) /\ FoundInv(t) /\ PhaseInv(t) /\ OutcomeInv(t) /\ WaiterInv(t)

\* The map holds objects of earlier opens of the descriptor; an RPC under
\* way has no outcome yet.
FdInv(f) ==
  /\ fd_state_map[f] # NoObj =>
       fdOf[fd_state_map[f]] = f /\ fd_state_map[f] <= cur[f]
  /\ cur[f] # NoObj => fdOf[cur[f]] = f /\ cur[f] \in 1 .. opens
  /\ phase[f] = "sent" => cur[f] # NoObj /\ outcome[cur[f]] = "pending"

\* An object that is ready belongs to an open that succeeded.
ObjInv(o) ==
  /\ o > opens => outcome[o] = "pending"
  /\ state[o] = "ready" => Opened(fdOf[o], o)

\* At most one thread opens, one completes and one closes a descriptor.
Class == {{"opening", "refused"}, {"ready", "error"}, {"cleanup"}}
Unique(t, u) ==
  t # u /\ thr[t].fd = thr[u].fd =>
    \A k \in Class : ~(thr[t].op \in k /\ thr[u].op \in k)

\* A thread inside the map holds the lock of its shard, in the right mode.
LockInv(t) ==
  InMap(t) => IF Modifies(t) THEN t \in writers[ShardOf(thr[t].fd)]
                             ELSE t \in readers[ShardOf(thr[t].fd)]

\* Two threads of a shard are inside only to look.
Excluded(t, u) ==
  t # u /\ InMap(t) /\ InMap(u) /\ ShardOf(thr[t].fd) = ShardOf(thr[u].fd)
    => ~Modifies(t) /\ ~Modifies(u)

\* Opens that have begun will find an object.
BoundInv == opens + Cardinality(Creating) <= MaxOpens

IInv ==
  /\ TypeOK
  /\ \A t \in Thread : ThrInv(t)
  /\ \A f \in Fd : FdInv(f)
  /\ \A o \in Obj : ObjInv(o)
  /\ \A t, u \in Thread : Unique(t, u)
  /\ \A t \in Thread : LockInv(t)
  /\ \A t, u \in Thread : Excluded(t, u)
  /\ BoundInv

LEMMA IdleType == Idle \in ThreadType /\ NoTime \in Timespec
<1>1. 0 \in 0 .. NsPerSec - 1
  <2>1. NsPerSec \in Int /\ NsPerSec > 0
    BY SMT DEF NsPerSec
  <2> QED
    BY SMT, <2>1
<1>2. NoTime \in Timespec
  BY <1>1 DEF NoTime, Timespec
<1> QED
  BY <1>2 DEF Idle, ThreadType, Pc, Op

LEMMA InitIInv == Init => IInv
<1> SUFFICES ASSUME Init PROVE IInv
  OBVIOUS
<1>1. TypeOK
  <2>1. 0 \in 0 .. MaxOpens
    BY FdStateConstants
  <2>2. /\ thr \in [Thread -> ThreadType]
        /\ fd_state_map \in [Fd -> Obj \cup {NoObj}]
        /\ cur \in [Fd -> Obj \cup {NoObj}] /\ opens \in 0 .. MaxOpens
    BY <2>1, IdleType DEF Init
  <2> QED
    BY <2>2 DEF Init, TypeOK
<1>2. ASSUME NEW t \in Thread PROVE ThrInv(t) /\ LockInv(t)
  BY DEF Init, Idle, ThrInv, OpInv, FoundInv, PhaseInv, OutcomeInv, WaiterInv,
         Pc, LockInv, InMap
<1>3. ASSUME NEW f \in Fd PROVE FdInv(f)
  BY DEF Init, FdInv
<1>4. ASSUME NEW o \in Obj PROVE ObjInv(o)
  BY DEF Init, ObjInv
<1>5. ASSUME NEW t \in Thread, NEW u \in Thread PROVE Unique(t, u) /\ Excluded(t, u)
  BY DEF Init, Idle, Unique, Excluded, Class, InMap
<1>6. BoundInv
  <2>1. Creating = {}
    BY DEF Init, Creating, Idle, Thread
  <2> QED
    BY <2>1, FS_EmptySet, FdStateConstants DEF Init, BoundInv
<1> QED
  BY <1>1, <1>2, <1>3, <1>4, <1>5, <1>6 DEF IInv

-----------------------------------------------------------------------------
(* What most steps leave alone.                                            *)

\* A successful open stays successful.
LEMMA OpenedStays ==
  ASSUME NEW f, NEW o, Opened(f, o),
         \A p \in Obj : outcome[p] = "ok" => outcome'[p] = "ok" /\ fdOf'[p] = fdOf[p]
  PROVE  Opened(f, o)'
  BY DEF Opened

\* Threads that keep their operation, or end it, stay unique.
LEMMA OpsShrink ==
  ASSUME IInv,
         \A u \in Thread :
           \/ /\ thr'[u].op = thr[u].op /\ thr'[u].fd = thr[u].fd
              /\ (thr'[u].pc = "rpc") <=> (thr[u].pc = "rpc")
           \/ /\ thr'[u].op \in {"none", "wait"}
              /\ thr[u].op = "opening" => thr[u].pc = "rpc"
  PROVE  /\ \A t, u \in Thread : Unique(t, u)'
         /\ opens' = opens => BoundInv'
<1>1. ASSUME NEW t \in Thread, NEW u \in Thread PROVE Unique(t, u)'
  <2>1. Unique(t, u)
    BY DEF IInv
  <2> QED
    BY <2>1 DEF Unique, Class
<1>2. Creating' = Creating
  BY DEF Creating, Thread
<1> QED
  BY <1>1, <1>2 DEF IInv, BoundInv

LEMMA ShardType ==
  ASSUME NEW f \in Fd
  PROVE  ShardOf(f) \in Shard
  BY FdStateConstants DEF ShardOf, Shard

\* Threads that stay inside the map keep their locks.
LEMMA MapShrinks ==
  ASSUME IInv,
         \A u \in Thread : thr'[u].pc = "inmap" =>
           /\ thr[u].pc = "inmap"
           /\ thr'[u].op = thr[u].op /\ thr'[u].fd = thr[u].fd
           /\ \A s \in Shard : /\ u \in writers[s] => u \in writers'[s]
                               /\ u \in readers[s] => u \in readers'[s]
  PROVE  /\ \A t \in Thread : LockInv(t)'
         /\ \A t, u \in Thread : Excluded(t, u)'
<1>1. ASSUME NEW t \in Thread PROVE LockInv(t)'
  <2>1. LockInv(t)
    BY DEF IInv
  <2> QED
    <3>1. CASE InMap(t)'
      <4> DEFINE r == ShardOf(thr[t].fd)
      <4>1. /\ thr[t].pc = "inmap" /\ r \in Shard
            /\ thr'[t].op = thr[t].op /\ thr'[t].fd = thr[t].fd
        BY <3>1, ShardType DEF IInv, ThrInv, OpInv, InMap
      <4>2. /\ t \in writers[r] => t \in writers'[r]
            /\ t \in readers[r] => t \in readers'[r]
        <5>1. r \in Shard /\ thr'[t].pc = "inmap"
          BY <3>1, <4>1 DEF InMap
        <5> HIDE DEF r
        <5>2. \A s \in Shard : /\ t \in writers[s] => t \in writers'[s]
                               /\ t \in readers[s] => t \in readers'[s]
          BY <5>1
        <5> QED
          BY <5>1, <5>2
      <4>3. IF Modifies(t) THEN t \in writers[r] ELSE t \in readers[r]
        BY <2>1, <4>1 DEF LockInv, InMap
      <4>4. ShardOf(thr'[t].fd) = r
        BY <4>1 DEF ShardOf
      <4> HIDE DEF r
      <4> QED
        BY <4>1, <4>2, <4>3, <4>4 DEF LockInv, Modifies
    <3>2. CASE ~InMap(t)'
      BY <3>2 DEF LockInv
    <3> QED
      BY <3>1, <3>2
<1>2. ASSUME NEW t \in Thread, NEW u \in Thread PROVE Excluded(t, u)'
  <2>1. Excluded(t, u)
    BY DEF IInv
  <2> QED
    BY <2>1 DEF Excluded, InMap, Modifies, ShardOf
<1> QED
  BY <1>1, <1>2

\* A thread that does not move, in a step that leaves the opens alone.
LEMMA ThreadKeeps ==
  ASSUME IInv, NEW u \in Thread, thr'[u] = thr[u], UNCHANGED auxVars,
         thr[u].pc = "enter" => /\ mutex'[thr[u].obj] = u
                                /\ state'[thr[u].obj] = "opening",
         thr[u].pc = "asleep" => state'[thr[u].obj] = "opening"
  PROVE  ThrInv(u)'
<1>1. ThrInv(u)
  BY DEF IInv
<1>2. WaiterInv(u)'
  BY <1>1, OpenedStays DEF ThrInv, WaiterInv, auxVars
<1> QED
  BY <1>1, <1>2 DEF ThrInv, OpInv, FoundInv, PhaseInv, OutcomeInv, auxVars

\* The table, in a step that leaves it and the opens alone.
LEMMA TableKeeps ==
  ASSUME IInv, UNCHANGED <<fd_state_map, auxVars>>
  PROVE  /\ \A f \in Fd : FdInv(f)'
         /\ state' = state => \A o \in Obj : ObjInv(o)'
<1>1. ASSUME NEW f \in Fd PROVE FdInv(f)'
  BY DEF IInv, FdInv, auxVars
<1>2. ASSUME NEW o \in Obj, state' = state PROVE ObjInv(o)'
  BY <1>2 DEF IInv, ObjInv, Opened, auxVars
<1> QED
  BY <1>1, <1>2

-----------------------------------------------------------------------------
(* The locks and the map.                                                  *)

\* A step of one thread that leaves the table, the states and the opens
\* alone, and does not enter the map, has to be looked at only for that
\* thread.
LEMMA OneThread ==
  ASSUME IInv, NEW t \in Thread, TypeOK', ThrInv(t)',
         UNCHANGED <<fd_state_map, state, auxVars>>,
         \A u \in Thread : u # t =>
           /\ thr'[u] = thr[u]
           /\ thr[u].pc = "enter" => mutex'[thr[u].obj] = u
           /\ \A s \in Shard : /\ u \in writers[s] => u \in writers'[s]
                               /\ u \in readers[s] => u \in readers'[s],
         thr'[t].pc # "inmap",
         (thr'[t].pc = "rpc") <=> (thr[t].pc = "rpc"),
         \/ thr'[t].op = thr[t].op /\ thr'[t].fd = thr[t].fd
         \/ thr[t].op \in {"none", "wait"} /\ thr'[t].op \in {"none", "wait"}
  PROVE  IInv'
<1>1. ASSUME NEW u \in Thread, u # t PROVE ThrInv(u)'
  <2>1. ThrInv(u)
    BY DEF IInv
  <2> QED
    BY <1>1, <2>1, ThreadKeeps DEF ThrInv, WaiterInv
<1>2. (\A f \in Fd : FdInv(f)') /\ \A o \in Obj : ObjInv(o)'
  BY TableKeeps
<1>3. (\A v, u \in Thread : Unique(v, u)') /\ BoundInv'
  BY OpsShrink DEF auxVars
<1>4. (\A u \in Thread : LockInv(u)') /\ \A v, u \in Thread : Excluded(v, u)'
  BY MapShrinks
<1> QED
  BY <1>1, <1>2, <1>3, <1>4 DEF IInv

LEMMA InitLocksIInv ==
  ASSUME IInv, NEW t \in Thread, init_fd_state_rwlocks(t)
  PROVE  IInv'
<1>0. TypeOK /\ thr \in [Thread -> ThreadType] /\ thr[t].pc = "init" /\ ThrInv(t)
  BY DEF IInv, TypeOK, init_fd_state_rwlocks, At
<1>1. /\ thr' \in [Thread -> ThreadType]
      /\ \A u \in Thread : u # t => thr'[u] = thr[u]
      /\ thr'[t].pc \in {"init", "lock"} /\ thr'[t].op = thr[t].op
      /\ thr'[t].fd = thr[t].fd /\ thr'[t].obj = thr[t].obj
      /\ thr'[t].ret = thr[t].ret
  BY <1>0 DEF init_fd_state_rwlocks, Goto, ThreadType, Pc
<1>2. UNCHANGED <<readers, writers, fd_state_map, state, mutex, auxVars>>
  BY DEF init_fd_state_rwlocks, objVars
<1>3. TypeOK'
  BY <1>0, <1>1, <1>2 DEF init_fd_state_rwlocks, auxVars, TypeOK
<1>4. ThrInv(t)'
  BY <1>0, <1>1, <1>2
     DEF ThrInv, OpInv, FoundInv, PhaseInv, OutcomeInv, WaiterInv, Opened,
         auxVars, Pc
<1>5. ASSUME NEW u \in Thread, thr[u].pc = "enter" PROVE mutex[thr[u].obj] = u
  BY <1>5 DEF IInv, ThrInv, WaiterInv
<1> QED
  BY <1>0, <1>1, <1>2, <1>3, <1>4, <1>5, OneThread

\* Entering the map: the lock that was free keeps out whoever would conflict.
LEMMA LockShardIInv ==
  ASSUME IInv, NEW t \in Thread, LockShard(t)
  PROVE  IInv'
<1> DEFINE s == ShardOf(thr[t].fd)
<1>0. TypeOK /\ thr \in [Thread -> ThreadType] /\ thr[t].pc = "lock" /\ ThrInv(t)
  BY DEF IInv, TypeOK, LockShard, At
<1>1. thr[t].fd \in Fd /\ s \in Shard
  BY <1>0, ShardType DEF ThrInv, OpInv
<1>2. UNCHANGED <<fd_state_map, state, mutex, auxVars>>
  BY DEF LockShard, objVars
<1>3. ASSUME NEW u \in Thread
      PROVE  /\ thr'[u] \in ThreadType
             /\ thr'[u].op = thr[u].op /\ thr'[u].fd = thr[u].fd
             /\ thr'[u].obj = thr[u].obj /\ thr'[u].ret = thr[u].ret
             /\ thr'[u].pc = IF u = t THEN "inmap" ELSE thr[u].pc
  <2>1. thr[u] \in ThreadType
    BY <1>0
  <2>2. (\E v \in Thread : Conflict(t, v)) \in BOOLEAN
    OBVIOUS
  <2> QED
    BY <2>1, <2>2, <1>0 DEF LockShard, ThreadType, Pc
<1>4. /\ readers' \in [Shard -> SUBSET Thread] /\ writers' \in [Shard -> SUBSET Thread]
      /\ \A q \in Shard : readers[q] \subseteq readers'[q]
      /\ \A q \in Shard : q # s => writers'[q] = writers[q]
      /\ writers[s] = {}
      /\ IF Modifies(t) THEN readers[s] = {} /\ t \in writers'[s]
                        ELSE t \in readers'[s]
  <2>0. /\ readers \in [Shard -> SUBSET Thread] /\ writers \in [Shard -> SUBSET Thread]
        /\ writers[s] = {}
    BY <1>0 DEF TypeOK, LockShard
  <2> HIDE DEF s
  <2>1. CASE Modifies(t)
    <3>1. /\ writers' = [writers EXCEPT ![s] = {t}] /\ readers' = readers
          /\ readers[s] = {}
      BY <2>1 DEF LockShard, WriteLocks, Modifies, s
    <3> QED
      BY <1>1, <2>0, <2>1, <3>1
  <2>2. CASE ~Modifies(t)
    <3>1. /\ readers' = [readers EXCEPT ![s] = @ \cup {t}] /\ writers' = writers
      BY <2>2 DEF LockShard, WriteLocks, Modifies, s
    <3> QED
      BY <1>1, <2>0, <2>2, <3>1
  <2> QED
    BY <2>1, <2>2
<1>5. TypeOK'
  <2>1. thr' \in [Thread -> ThreadType]
    <3>1. thr' = [u \in Thread |-> thr'[u]]
      BY DEF LockShard
    <3> QED
      BY <1>3, <3>1
  <2> QED
    BY <1>0, <1>2, <1>4, <2>1 DEF LockShard, auxVars, TypeOK
<1>6. ASSUME NEW u \in Thread PROVE ThrInv(u)'
  <2>1. ThrInv(u)
    BY DEF IInv
  <2> QED
    BY <1>0, <1>2, <1>3, <2>1
       DEF ThrInv, OpInv, FoundInv, PhaseInv, OutcomeInv, WaiterInv, Opened,
           auxVars, Pc
<1>7. (\A f \in Fd : FdInv(f)') /\ \A o \in Obj : ObjInv(o)'
  BY <1>2, TableKeeps
<1>8. (\A v, u \in Thread : Unique(v, u)') /\ BoundInv'
  BY <1>0, <1>2, <1>3, OpsShrink DEF auxVars
<1>9. ASSUME NEW u \in Thread PROVE LockInv(u)'
  <2>1. CASE u = t
    BY <1>3, <1>4, <2>1 DEF LockInv, InMap, Modifies, ShardOf
  <2>2. CASE u # t
    <3>1. LockInv(u) /\ ThrInv(u)
      BY DEF IInv
    <3>2. CASE InMap(u)
      <4>1. ShardOf(thr[u].fd) \in Shard
        BY <3>1, <3>2, ShardType DEF ThrInv, OpInv, InMap
      <4> QED
        BY <1>3, <1>4, <2>2, <3>1, <3>2, <4>1 DEF LockInv, InMap, Modifies, ShardOf
    <3>3. CASE ~InMap(u)
      BY <1>3, <2>2, <3>3 DEF LockInv, InMap
    <3> QED
      BY <3>2, <3>3
  <2> QED
    BY <2>1, <2>2
<1>10. ASSUME NEW u \in Thread, u # t, InMap(u), ShardOf(thr[u].fd) = s
       PROVE  ~Modifies(u) /\ ~Modifies(t)
  <2>1. LockInv(u)
    BY DEF IInv
  <2> QED
    BY <1>4, <1>10, <2>1 DEF LockInv
<1>11. ASSUME NEW u \in Thread, NEW v \in Thread PROVE Excluded(u, v)'
  <2>1. Excluded(u, v)
    BY DEF IInv
  <2> QED
    BY <1>3, <1>10, <2>1 DEF Excluded, InMap, Modifies, ShardOf
<1> QED
  BY <1>5, <1>6, <1>7, <1>8, <1>9, <1>11 DEF IInv

\* Leaving the map releases the locks of that thread only.
LEMMA Unlocking ==
  ASSUME TypeOK, NEW t \in Thread, thr[t].fd \in Fd, UnlockShard(t)
  PROVE  /\ readers' \in [Shard -> SUBSET Thread]
         /\ writers' \in [Shard -> SUBSET Thread]
         /\ initialized' = initialized /\ undefined' = undefined
         /\ \A u \in Thread : u # t =>
              \A s \in Shard : /\ u \in writers[s] => u \in writers'[s]
                               /\ u \in readers[s] => u \in readers'[s]
<1> DEFINE r == ShardOf(thr[t].fd)
<1>1. r \in Shard
  BY ShardType
<1>2. /\ readers' = [readers EXCEPT ![r] = @ \ {t}]
      /\ writers' = [writers EXCEPT ![r] = @ \ {t}]
      /\ initialized' = initialized /\ undefined' = undefined
      /\ readers \in [Shard -> SUBSET Thread] /\ writers \in [Shard -> SUBSET Thread]
  BY DEF UnlockShard, TypeOK
<1> HIDE DEF r
<1>3. ASSUME NEW u \in Thread, u # t, NEW s \in Shard
      PROVE  /\ u \in writers[s] => u \in writers'[s]
             /\ u \in readers[s] => u \in readers'[s]
  BY <1>1, <1>2, <1>3
<1> QED
  BY <1>1, <1>2, <1>3

\* A lookup: the object found is one of the descriptor, and no later than
\* its latest open.
LEMMA GetStatusIInv ==
  ASSUME IInv, NEW t \in Thread, hvac_get_fd_status(t)
  PROVE  IInv'
<1> DEFINE f == thr[t].fd
<1>0. /\ TypeOK /\ thr \in [Thread -> ThreadType] /\ thr[t].pc = "inmap" /\ ThrInv(t)
      /\ UnlockShard(t) /\ UNCHANGED <<fd_state_map, state, mutex, auxVars>>
  BY DEF IInv, TypeOK, hvac_get_fd_status, At, objVars
<1>1. f \in Fd /\ thr[t].op \in {"ready", "error", "refused", "wait"}
  BY <1>0 DEF hvac_get_fd_status, Modifies, ThrInv, OpInv, ThreadType, Op
<1>2. PICK o \in {fd_state_map[f], NoObj} :
        thr' = [thr EXCEPT ![t].obj = o, ![t].raced = FALSE,
                           ![t].pc = IF o = NoObj THEN "return" ELSE "mutex"]
  BY DEF hvac_get_fd_status
<1>3. /\ o \in Obj \cup {NoObj} /\ cur[f] \in Obj \cup {NoObj} /\ opens \in Nat
      /\ o # NoObj => o \in 1 .. opens /\ fdOf[o] = f
      /\ o <= cur[f]
  <2>1. FdInv(f)
    BY <1>1 DEF IInv
  <2>2. fd_state_map[f] \in Obj \cup {NoObj} /\ cur[f] \in Obj \cup {NoObj}
    BY <1>0, <1>1 DEF TypeOK
  <2>3. opens \in Nat
    BY <1>0, FdStateConstants DEF TypeOK
  <2> QED
    BY <2>1, <2>2, <2>3, FdStateConstants DEF FdInv, NoObj, Obj
<1>4. /\ thr' \in [Thread -> ThreadType]
      /\ \A u \in Thread : u # t => thr'[u] = thr[u]
      /\ thr'[t].pc = (IF o = NoObj THEN "return" ELSE "mutex") /\ thr'[t].obj = o
      /\ thr'[t].op = thr[t].op /\ thr'[t].fd = f /\ thr'[t].ret = thr[t].ret
  BY <1>0, <1>2, <1>3 DEF ThreadType, Pc
<1>5. /\ readers' \in [Shard -> SUBSET Thread] /\ writers' \in [Shard -> SUBSET Thread]
      /\ initialized' = initialized /\ undefined' = undefined
      /\ \A u \in Thread : u # t =>
           \A s \in Shard : /\ u \in writers[s] => u \in writers'[s]
                            /\ u \in readers[s] => u \in readers'[s]
  BY <1>0, <1>1, Unlocking
<1>6. TypeOK'
  BY <1>0, <1>4, <1>5 DEF auxVars, TypeOK
<1>7. ThrInv(t)'
  <2>1. OpInv(t)' /\ PhaseInv(t)'
    BY <1>0, <1>1, <1>4 DEF ThrInv, OpInv, PhaseInv, Pc, auxVars
  <2>2. FoundInv(t)' /\ OutcomeInv(t)'
    BY <1>0, <1>3, <1>4 DEF ThrInv, FoundInv, OutcomeInv, auxVars
  <2>3. WaiterInv(t)'
    BY <1>0, <1>4 DEF ThrInv, WaiterInv
  <2> QED
    BY <2>1, <2>2, <2>3 DEF ThrInv
<1>8. ASSUME NEW u \in Thread, thr[u].pc = "enter" PROVE mutex[thr[u].obj] = u
  BY <1>8 DEF IInv, ThrInv, WaiterInv
<1> QED
  BY <1>0, <1>4, <1>5, <1>6, <1>7, <1>8, OneThread

-----------------------------------------------------------------------------
(* The wait.                                                               *)

\* A thread that has found its object and is not in the map.
Waiting == {"mutex", "enter", "asleep", "woken"}

LEMMA WaiterOp ==
  ASSUME IInv, NEW t \in Thread, thr[t].pc \in Waiting
  PROVE  /\ thr[t] \in ThreadType /\ thr[t].fd \in Fd
         /\ thr[t].obj \in Obj /\ thr[t].obj \in 1 .. opens
         /\ fdOf[thr[t].obj] = thr[t].fd
         /\ thr[t].pc # "mutex" => thr[t].op = "wait"
         /\ thr[t].op \in {"wait", "ready", "error", "refused"}
<1>1. thr[t] \in ThreadType /\ ThrInv(t)
  BY DEF IInv, TypeOK
<1> QED
  BY <1>1 DEF ThrInv, OpInv, FoundInv, ThreadType, Op, Waiting, NoObj

\* A step of a waiter on an object whose mutex is free or its own.
LEMMA WaiterStep ==
  ASSUME IInv, NEW t \in Thread, NEW x \in ThreadType, NEW m \in Thread \cup {None},
         thr[t].op = "wait", thr[t].pc \in Waiting,
         mutex[thr[t].obj] \in {None, t},
         mutex' = [mutex EXCEPT ![thr[t].obj] = m], thr' = [thr EXCEPT ![t] = x],
         x.op = "wait", x.fd = thr[t].fd, x.obj = thr[t].obj,
         x.pc \in {"enter", "asleep", "return"},
         x.ret => x.pc = "return" /\ state[x.obj] = "ready",
         x.pc = "enter" => m = t,
         x.pc # "return" => state[x.obj] = "opening",
         UNCHANGED <<lockVars, fd_state_map, state, auxVars>>
  PROVE  IInv'
<1> DEFINE o == thr[t].obj
<1>0. TypeOK /\ thr \in [Thread -> ThreadType] /\ mutex \in [Obj -> Thread \cup {None}]
      /\ o \in Obj /\ o \in 1 .. opens /\ fdOf[o] = thr[t].fd /\ ThrInv(t)
      /\ thr[t].fd \in Fd
  BY WaiterOp DEF IInv, TypeOK
<1>1. /\ thr' \in [Thread -> ThreadType] /\ thr'[t] = x
      /\ \A u \in Thread : u # t => thr'[u] = thr[u]
  BY <1>0
<1>2. mutex' \in [Obj -> Thread \cup {None}] /\ mutex'[o] = m
      /\ \A p \in Obj : p # o => mutex'[p] = mutex[p]
  BY <1>0
<1>3. TypeOK'
  BY <1>0, <1>1, <1>2 DEF TypeOK, lockVars, auxVars
<1>4. ThrInv(t)'
  <2>1. OpInv(t)' /\ FoundInv(t)' /\ PhaseInv(t)'
    BY <1>0, <1>1 DEF OpInv, FoundInv, PhaseInv, ThreadType, auxVars, Obj, NoObj
  <2>2. OutcomeInv(t)'
    BY <1>0, <1>1 DEF OutcomeInv
  <2>3. state[o] = "ready" => Opened(thr[t].fd, o)
    BY <1>0 DEF IInv, ObjInv
  <2>4. WaiterInv(t)'
    <3>1. state[o] = "ready" => Opened(thr[t].fd, o)'
      BY <2>3 DEF Opened, auxVars
    <3> QED
      BY <1>1, <1>2, <3>1 DEF WaiterInv, Opened
  <2> QED
    BY <2>1, <2>2, <2>4 DEF ThrInv
<1>5. ASSUME NEW u \in Thread, u # t, thr[u].pc = "enter" PROVE mutex'[thr[u].obj] = u
  <2>1. mutex[thr[u].obj] = u /\ thr[u].obj \in Obj
    BY <1>5, WaiterOp DEF IInv, ThrInv, WaiterInv, Waiting
  <2>2. u # None
    BY FdStateConstants
  <2> QED
    BY <1>2, <1>5, <2>1, <2>2
<1>6. thr'[t].pc # "inmap" /\ ((thr'[t].pc = "rpc") <=> (thr[t].pc = "rpc"))
      /\ thr'[t].op = thr[t].op /\ thr'[t].fd = thr[t].fd
      /\ readers' = readers /\ writers' = writers
  BY <1>1 DEF Waiting, lockVars
<1> QED
  BY <1>1, <1>3, <1>4, <1>5, <1>6, OneThread

LEMMA CheckStateIInv ==
  ASSUME IInv, NEW t \in Thread, CheckState(t)
  PROVE  IInv'
<1> DEFINE o == thr[t].obj
<1>0. thr[t].pc = "mutex" /\ thr[t].op = "wait" /\ mutex[o] = None
      /\ UNCHANGED <<lockVars, fd_state_map, state, auxVars>>
  BY DEF CheckState, At
<1>1. thr[t] \in ThreadType /\ thr[t].pc \in Waiting /\ thr[t].ret = FALSE
      /\ thr \in [Thread -> ThreadType]
  <2>1. thr[t].pc \in Waiting
    BY <1>0 DEF Waiting
  <2>2. thr[t].ret \in BOOLEAN /\ (thr[t].ret => thr[t].pc = "return")
    BY <2>1, WaiterOp DEF ThreadType, IInv, ThrInv, WaiterInv
  <2> QED
    BY <1>0, <2>1, <2>2, WaiterOp DEF IInv, TypeOK
<1>2. CASE state[o] # "opening" /\ ReturnWith(t, state[o] = "ready")
  <2> DEFINE x == [thr[t] EXCEPT !.pc = "return", !.ret = (state[o] = "ready")]
  <2>1. /\ x \in ThreadType /\ x.op = "wait" /\ x.fd = thr[t].fd /\ x.obj = o
        /\ x.pc = "return" /\ (x.ret => state[o] = "ready")
    BY <1>0, <1>1 DEF ThreadType, Pc
  <2>2. thr' = [thr EXCEPT ![t] = x] /\ mutex' = [mutex EXCEPT ![o] = None]
    BY <1>1, <1>2 DEF ReturnWith
  <2> HIDE DEF x
  <2> QED
    BY <1>0, <1>1, <2>1, <2>2, WaiterStep
<1>3. CASE /\ state[o] = "opening" /\ mutex' = [mutex EXCEPT ![o] = t]
           /\ \E now \in Clock, ms \in Timeouts :
                thr' = [thr EXCEPT ![t].pc = "enter", ![t].until = Deadline(now, ms)]
  <2>1. PICK now \in Clock, ms \in Timeouts :
               thr' = [thr EXCEPT ![t].pc = "enter", ![t].until = Deadline(now, ms)]
    BY <1>3
  <2> DEFINE d == Deadline(now, ms)
             x == [thr[t] EXCEPT !.pc = "enter", !.until = d]
  <2>2. d \in Timespec
    BY DeadlineExact, FdStateConstants
  <2>3. thr' = [thr EXCEPT ![t] = x] 
    BY <1>1, <2>1
  <2> HIDE DEF d
  <2>4. /\ x \in ThreadType /\ x.op = "wait" /\ x.fd = thr[t].fd /\ x.obj = o
        /\ x.pc = "enter" /\ x.ret = FALSE
    BY <1>0, <1>1, <2>2 DEF ThreadType, Pc
  <2> HIDE DEF x
  <2> QED
    BY <1>0, <1>1, <1>3, <2>3, <2>4, WaiterStep
<1> QED
  BY <1>2, <1>3 DEF CheckState

LEMMA FallsAsleepIInv ==
  ASSUME IInv, NEW t \in Thread, FallsAsleep(t)
  PROVE  IInv'
<1> DEFINE o == thr[t].obj  x == [thr[t] EXCEPT !.pc = "asleep"]
<1>0. thr[t].pc = "enter" /\ mutex' = [mutex EXCEPT ![o] = None]
      /\ UNCHANGED <<lockVars, fd_state_map, state, auxVars>>
  BY DEF FallsAsleep, At
<1>1. thr[t].pc \in Waiting /\ thr[t] \in ThreadType /\ thr \in [Thread -> ThreadType]
      /\ thr[t].op = "wait"
  BY <1>0, WaiterOp DEF Waiting, IInv, TypeOK
<1>2. mutex[o] = t /\ state[o] = "opening" /\ ~thr[t].ret
  BY <1>0 DEF IInv, ThrInv, WaiterInv
<1>3. thr' = [thr EXCEPT ![t] = x]
  BY <1>1 DEF FallsAsleep, Goto
<1>4. /\ x \in ThreadType /\ x.op = "wait" /\ x.fd = thr[t].fd /\ x.obj = o
      /\ x.pc = "asleep" /\ ~x.ret
  BY <1>1, <1>2 DEF ThreadType, Pc
<1> HIDE DEF x
<1> QED
  BY <1>0, <1>1, <1>2, <1>3, <1>4, WaiterStep

LEMMA WaitLoopIInv ==
  ASSUME IInv, NEW t \in Thread, WaitLoop(t) \/ TimesOut(t)
  PROVE  IInv'
<1> DEFINE o == thr[t].obj
<1>0. thr[t].pc \in {"asleep", "woken"} /\ mutex[o] = None
      /\ UNCHANGED <<lockVars, fd_state_map, state, auxVars>>
  BY DEF WaitLoop, TimesOut, At
<1>1. thr[t].pc \in Waiting /\ thr[t] \in ThreadType /\ thr \in [Thread -> ThreadType]
      /\ thr[t].op = "wait"
  BY <1>0, WaiterOp DEF Waiting, IInv, TypeOK
<1>2. ~thr[t].ret
  BY <1>0 DEF IInv, ThrInv, WaiterInv
<1>3. ASSUME NEW r \in BOOLEAN, r => state[o] = "ready", ReturnWith(t, r)
      PROVE  IInv'
  <2> DEFINE x == [thr[t] EXCEPT !.pc = "return", !.ret = r]
  <2>1. /\ x \in ThreadType /\ x.op = "wait" /\ x.fd = thr[t].fd /\ x.obj = o
        /\ x.pc = "return" /\ (x.ret => state[o] = "ready")
    BY <1>1, <1>3 DEF ThreadType, Pc
  <2>2. thr' = [thr EXCEPT ![t] = x] /\ mutex' = [mutex EXCEPT ![o] = None]
    BY <1>1, <1>3 DEF ReturnWith
  <2> HIDE DEF x
  <2> QED
    BY <1>0, <1>1, <2>1, <2>2, WaiterStep
<1>4. CASE state[o] = "opening" /\ Goto(t, "enter") /\ mutex' = [mutex EXCEPT ![o] = t]
  <2> DEFINE x == [thr[t] EXCEPT !.pc = "enter"]
  <2>1. /\ x \in ThreadType /\ x.op = "wait" /\ x.fd = thr[t].fd /\ x.obj = o
        /\ x.pc = "enter" /\ ~x.ret
    BY <1>1, <1>2 DEF ThreadType, Pc
  <2>2. thr' = [thr EXCEPT ![t] = x]
    BY <1>1, <1>4 DEF Goto
  <2> HIDE DEF x
  <2> QED
    BY <1>0, <1>1, <1>4, <2>1, <2>2, WaiterStep
<1> QED
  BY <1>3, <1>4 DEF WaitLoop, TimesOut

\* Nobody about to sleep on the object holds its mutex, and who sleeps on it
\* is woken: the outcome of the open can be published.
LEMMA SetStateIInv ==
  ASSUME IInv, NEW t \in Thread, hvac_set_fd_state(t)
  PROVE  IInv'
<1> DEFINE o == thr[t].obj  f == thr[t].fd
<1>0. /\ thr[t].pc = "mutex" /\ thr[t].op # "wait" /\ mutex[o] = None
      /\ state' = [state EXCEPT ![o] = IF thr[t].op = "ready" THEN "ready" ELSE "error"]
      /\ thr' = [u \in Thread |->
           IF u = t THEN [thr[t] EXCEPT !.pc = "return"]
           ELSE IF thr[u].pc = "asleep" /\ thr[u].obj = o
           THEN [thr[u] EXCEPT !.pc = "woken"]
           ELSE thr[u]]
      /\ UNCHANGED <<lockVars, fd_state_map, mutex, auxVars>>
  BY DEF hvac_set_fd_state, SetAndBroadcast, At
<1>1. /\ TypeOK /\ thr \in [Thread -> ThreadType] /\ ThrInv(t)
      /\ state \in [Obj -> {"none", "opening", "ready", "error"}]
      /\ o \in Obj /\ f \in Fd /\ fdOf[o] = f
      /\ thr[t].op \in {"ready", "error", "refused"}
  BY <1>0, WaiterOp DEF Waiting, IInv, TypeOK
<1>2. /\ state' \in [Obj -> {"none", "opening", "ready", "error"}]
      /\ state'[o] = "ready" => thr[t].op = "ready"
      /\ \A p \in Obj : p # o => state'[p] = state[p]
  BY <1>0, <1>1
<1>3. ASSUME NEW u \in Thread
      PROVE  /\ thr'[u] \in ThreadType
             /\ thr'[u].op = thr[u].op /\ thr'[u].fd = thr[u].fd
             /\ thr'[u].obj = thr[u].obj /\ thr'[u].ret = thr[u].ret
             /\ thr'[u].pc = IF u = t THEN "return"
                             ELSE IF thr[u].pc = "asleep" /\ thr[u].obj = o
                             THEN "woken" ELSE thr[u].pc
  <2>1. thr[u] \in ThreadType
    BY <1>1
  <2> QED
    BY <1>0, <2>1 DEF ThreadType, Pc
<1>4. TypeOK'
  <2>1. thr' \in [Thread -> ThreadType]
    <3>1. thr' = [u \in Thread |-> thr'[u]]
      BY <1>0
    <3> QED
      BY <1>3, <3>1
  <2> QED
    BY <1>0, <1>1, <1>2, <2>1 DEF lockVars, auxVars, TypeOK
<1>5. ASSUME NEW u \in Thread PROVE ThrInv(u)'
  <2>1. ThrInv(u) /\ u # None
    BY FdStateConstants DEF IInv
  <2>2. OpInv(u)' /\ FoundInv(u)' /\ PhaseInv(u)' /\ OutcomeInv(u)'
    <3>1. OpInv(u)' /\ PhaseInv(u)'
      BY <1>0, <1>1, <1>3, <2>1 DEF ThrInv, OpInv, PhaseInv, Pc, auxVars
    <3>2. FoundInv(u)' /\ OutcomeInv(u)'
      BY <1>0, <1>1, <1>3, <2>1 DEF ThrInv, FoundInv, OutcomeInv, auxVars
    <3> QED
      BY <3>1, <3>2
  <2>3. WaiterInv(u)'
    <3>1. thr[u].pc \in {"enter", "asleep"} => thr[u].obj \in Obj
      BY WaiterOp DEF Waiting
    <3>2. thr'[u].pc = "enter" => mutex'[thr'[u].obj] = u /\ state'[thr'[u].obj] = "opening"
      BY <1>0, <1>2, <1>3, <2>1, <3>1 DEF ThrInv, WaiterInv
    <3>3. thr'[u].pc = "asleep" => state'[thr'[u].obj] = "opening"
      BY <1>2, <1>3, <2>1, <3>1 DEF ThrInv, WaiterInv
    <3>4. thr'[u].ret => thr'[u].pc = "return"
      BY <1>0, <1>3, <2>1 DEF ThrInv, WaiterInv
    <3>5. (thr[u].op = "wait" /\ thr[u].ret => Opened(thr[u].fd, thr[u].obj))'
      BY <1>0, <1>3, <2>1 DEF ThrInv, WaiterInv, Opened, auxVars
    <3> QED
      BY <3>2, <3>3, <3>4, <3>5 DEF WaiterInv, Opened
  <2> QED
    BY <2>2, <2>3 DEF ThrInv
<1>6. \A g \in Fd : FdInv(g)'
  BY <1>0, TableKeeps
<1>7. ASSUME NEW p \in Obj PROVE ObjInv(p)'
  <2>1. ObjInv(p)
    BY DEF IInv
  <2>2. CASE p = o
    <3>1. CASE thr[t].op = "ready"
      <4>1. cur[f] \in Obj /\ cur[f] >= o /\ outcome[cur[f]] = "ok" /\ fdOf[cur[f]] = f
        <5>1. cur[f] # NoObj /\ outcome[cur[f]] = "ok" /\ o <= cur[f]
          BY <1>1, <3>1 DEF ThrInv, OutcomeInv
        <5>2. cur[f] \in Obj \cup {NoObj} /\ FdInv(f)
          BY <1>1 DEF IInv, TypeOK
        <5> QED
          BY <1>1, <5>1, <5>2, FdStateConstants DEF FdInv, Obj
      <4>2. Opened(f, o)
        BY <4>1 DEF Opened
      <4> QED
        BY <1>0, <1>1, <2>1, <2>2, <4>2 DEF ObjInv, Opened, auxVars
    <3>2. CASE thr[t].op # "ready"
      BY <1>0, <1>2, <2>1, <2>2, <3>2 DEF ObjInv, Opened, auxVars
    <3> QED
      BY <3>1, <3>2
  <2>3. CASE p # o
    BY <1>0, <1>2, <2>1, <2>3 DEF ObjInv, Opened, auxVars
  <2> QED
    BY <2>2, <2>3
<1>8. (\A v, u \in Thread : Unique(v, u)') /\ BoundInv'
  BY <1>0, <1>3, OpsShrink DEF auxVars
<1>9. (\A u \in Thread : LockInv(u)') /\ \A v, u \in Thread : Excluded(v, u)'
  BY <1>0, <1>3, MapShrinks DEF lockVars
<1> QED
  BY <1>4, <1>5, <1>6, <1>7, <1>8, <1>9 DEF IInv

-----------------------------------------------------------------------------
(* Opening.                                                                *)

\* Only a thread in an open is past the insertion.
LEMMA RpcOp ==
  ASSUME IInv, NEW t \in Thread, thr[t].pc = "rpc"
  PROVE  thr[t].op = "opening" /\ thr[t].fd \in Fd /\ t \in App
<1>1. thr[t] \in ThreadType /\ ThrInv(t)
  BY DEF IInv, TypeOK
<1> QED
  BY <1>1 DEF ThrInv, OpInv, ThreadType, Op

LEMMA CreatingFinite == IsFiniteSet(Creating) /\ Cardinality(Creating) \in Nat
<1>1. Creating \subseteq App
  BY DEF Creating
<1> QED
  BY <1>1, FdStateConstants, FS_Subset, FS_CardinalityType

\* The insertion: the new object is later than every object in use.
LEMMA SetOpeningIInv ==
  ASSUME IInv, NEW t \in Thread, hvac_set_fd_opening(t)
  PROVE  IInv'
<1> DEFINE f == thr[t].fd  o == opens + 1
<1>0. /\ thr[t].pc = "inmap" /\ thr[t].op = "opening"
      /\ opens' = o /\ cur' = [cur EXCEPT ![f] = o]
      /\ fdOf' = [fdOf EXCEPT ![o] = f]
      /\ state' = [state EXCEPT ![o] = "opening"]
      /\ \/ fd_state_map' = [fd_state_map EXCEPT ![f] = o]
         \/ fd_state_map' = fd_state_map
      /\ UnlockShard(t)
      /\ thr' = [thr EXCEPT ![t].pc = "rpc", ![t].raced = FALSE]
      /\ UNCHANGED <<mutex, phase, outcome>>
  BY DEF hvac_set_fd_opening, At
<1>1. TypeOK /\ thr \in [Thread -> ThreadType] /\ ThrInv(t) /\ f \in Fd /\ t \in App
      /\ opens \in Nat /\ opens \in 0 .. MaxOpens
  <2>1. TypeOK /\ thr \in [Thread -> ThreadType] /\ ThrInv(t)
    BY DEF IInv, TypeOK
  <2>2. opens \in 0 .. MaxOpens
    BY <2>1 DEF TypeOK
  <2> QED
    BY <1>0, <2>1, <2>2, FdStateConstants DEF ThrInv, OpInv
<1>2. /\ thr' \in [Thread -> ThreadType]
      /\ \A u \in Thread : u # t => thr'[u] = thr[u]
      /\ thr'[t].pc = "rpc" /\ thr'[t].obj = thr[t].obj
      /\ thr'[t].op = thr[t].op /\ thr'[t].fd = f /\ thr'[t].ret = thr[t].ret
  BY <1>0, <1>1 DEF ThreadType, Pc
<1>3. o \in Obj /\ o \in 0 .. MaxOpens /\ BoundInv'
  <2>1. t \in Creating /\ IsFiniteSet(Creating) /\ Cardinality(Creating) \in Nat
    BY <1>0, <1>1, CreatingFinite DEF Creating
  <2>2. Creating' = Creating \ {t}
    BY <1>1, <1>2 DEF Creating, Thread
  <2>3. Cardinality(Creating') = Cardinality(Creating) - 1
    BY <2>1, <2>2, FS_RemoveElement
  <2>4. Cardinality(Creating') \in Nat
    <3>1. IsFiniteSet(Creating')
      BY <2>1, <2>2, FS_RemoveElement
    <3> QED
      BY <3>1, FS_CardinalityType
  <2>5. opens + Cardinality(Creating) <= MaxOpens
    BY DEF IInv, BoundInv
  <2> QED
    BY <1>0, <1>1, <2>1, <2>3, <2>4, <2>5, FdStateConstants DEF BoundInv, Obj
<1>4. /\ readers' \in [Shard -> SUBSET Thread] /\ writers' \in [Shard -> SUBSET Thread]
      /\ initialized' = initialized /\ undefined' = undefined
      /\ \A u \in Thread : u # t =>
           \A s \in Shard : /\ u \in writers[s] => u \in writers'[s]
                            /\ u \in readers[s] => u \in readers'[s]
  BY <1>0, <1>1, Unlocking
<1>5. /\ cur' \in [Fd -> Obj \cup {NoObj}] /\ fd_state_map' \in [Fd -> Obj \cup {NoObj}]
      /\ fdOf' \in [Obj -> Fd \cup {None}]
      /\ state' \in [Obj -> {"none", "opening", "ready", "error"}]
      /\ cur'[f] = o /\ fdOf'[o] = f /\ state'[o] = "opening"
      /\ fd_state_map'[f] \in {fd_state_map[f], o}
      /\ \A g \in Fd : g # f => cur'[g] = cur[g] /\ fd_state_map'[g] = fd_state_map[g]
      /\ \A p \in Obj : p # o => fdOf'[p] = fdOf[p] /\ state'[p] = state[p]
  <2> HIDE DEF o, f
  <2> QED
    BY <1>0, <1>1, <1>3 DEF TypeOK
<1>6. TypeOK'
  BY <1>0, <1>1, <1>2, <1>3, <1>4, <1>5 DEF TypeOK
<1>7. \A p \in Obj : outcome[p] = "ok" => outcome'[p] = "ok" /\ fdOf'[p] = fdOf[p]
  <2>1. ASSUME NEW p \in Obj, outcome[p] = "ok" PROVE p # o
    <3>1. ObjInv(p)
      BY DEF IInv
    <3> QED
      BY <1>1, <2>1, <3>1 DEF ObjInv
  <2> QED
    BY <1>0, <1>5, <2>1
<1>8. ASSUME NEW p \in 1 .. opens
      PROVE  p \in Obj /\ p # o /\ p \in 1 .. opens'
  BY <1>0, <1>1, FdStateConstants DEF Obj
<1>9. phase[f] = "opening" /\ outcome[o] = "pending"
  <2>1. ObjInv(o)
    BY <1>3 DEF IInv
  <2> QED
    BY <1>0, <1>1, <2>1 DEF ThrInv, PhaseInv, ObjInv
<1>10. ThrInv(t)'
  <2>1. OpInv(t)' /\ PhaseInv(t)'
    BY <1>0, <1>1, <1>2, <1>9 DEF ThrInv, OpInv, PhaseInv, Pc
  <2>2. FoundInv(t)'
    BY <1>1, <1>2, <1>5, <1>8 DEF ThrInv, FoundInv
  <2>3. OutcomeInv(t)'
    BY <1>0, <1>1, <1>2, <1>3, <1>5, <1>9 DEF OutcomeInv, NoObj, Obj
  <2>4. WaiterInv(t)'
    BY <1>0, <1>1, <1>2 DEF ThrInv, WaiterInv
  <2> QED
    BY <2>1, <2>2, <2>3, <2>4 DEF ThrInv
<1>11. ASSUME NEW u \in Thread, u # t PROVE ThrInv(u)'
  <2>1. ThrInv(u) /\ thr'[u] = thr[u] /\ Unique(t, u)
    BY <1>2, <1>11 DEF IInv
  <2>2. OpInv(u)' /\ PhaseInv(u)'
    BY <1>0, <2>1 DEF ThrInv, OpInv, PhaseInv
  <2>3. FoundInv(u)'
    BY <2>1, <1>5, <1>8 DEF ThrInv, FoundInv
  <2>4. thr[u].op = "ready" \/ thr[u].pc = "rpc" => thr[u].fd \in Fd /\ thr[u].fd # f
    BY <1>0, <1>9, <1>11, <2>1, RpcOp DEF ThrInv, OpInv, PhaseInv, Unique, Class
  <2>5. OutcomeInv(u)'
    BY <1>0, <1>5, <2>1, <2>4 DEF ThrInv, OutcomeInv
  <2>6. WaiterInv(u)'
    <3>1. thr[u].pc \in {"enter", "asleep"} => thr[u].obj \in 1 .. opens
      BY WaiterOp DEF Waiting
    <3>2. thr[u].op = "wait" /\ thr[u].ret => Opened(thr[u].fd, thr[u].obj)'
      BY <1>7, <2>1, OpenedStays DEF ThrInv, WaiterInv
    <3> QED
      BY <1>0, <1>5, <1>8, <2>1, <3>1, <3>2 DEF ThrInv, WaiterInv, Opened
  <2> QED
    BY <2>1, <2>2, <2>3, <2>5, <2>6 DEF ThrInv
<1>12. ASSUME NEW g \in Fd PROVE FdInv(g)'
  <2>1. FdInv(g) /\ cur[g] \in Obj \cup {NoObj} /\ fd_state_map[g] \in Obj \cup {NoObj}
    BY <1>1 DEF IInv, TypeOK
  <2>2. fd_state_map[g] # NoObj =>
          fd_state_map[g] \in 1 .. opens /\ fdOf[fd_state_map[g]] = g
    BY <1>1, <2>1, FdStateConstants DEF FdInv, Obj, NoObj
  <2>3. CASE g = f
    BY <1>0, <1>1, <1>3, <1>5, <1>8, <1>9, <2>1, <2>2, <2>3 DEF FdInv, NoObj, Obj
  <2>4. CASE g # f
    BY <1>0, <1>5, <1>8, <2>1, <2>2, <2>4 DEF FdInv
  <2> QED
    BY <2>3, <2>4
<1>13. ASSUME NEW p \in Obj PROVE ObjInv(p)'
  <2>1. ObjInv(p) /\ p \in Nat
    BY DEF IInv, Obj
  <2>2. CASE p = o
    BY <1>0, <1>1, <1>5, <2>2 DEF ObjInv
  <2>3. CASE p # o
    <3>1. state[p] = "ready" => Opened(fdOf[p], p)'
      BY <1>5, <1>7, <2>1, <2>3 DEF ObjInv, Opened
    <3> QED
      BY <1>0, <1>1, <1>5, <2>1, <2>3, <3>1 DEF ObjInv
  <2> QED
    BY <2>2, <2>3
<1>14. ASSUME NEW v \in Thread, NEW u \in Thread PROVE Unique(v, u)'
  <2>1. Unique(v, u)
    BY DEF IInv
  <2> QED
    BY <1>2, <2>1 DEF Unique
<1>15. (\A u \in Thread : LockInv(u)') /\ \A v, u \in Thread : Excluded(v, u)'
  BY <1>2, <1>4, MapShrinks
<1> QED
  BY <1>3, <1>6, <1>10, <1>11, <1>12, <1>13, <1>14, <1>15 DEF IInv

-----------------------------------------------------------------------------
(* The users of the table.                                                 *)

\* A step of t that moves the open of f on, and perhaps decides its outcome
\* or empties its entry of the map.  The only other operations on f are
\* waits, and the open that waits for its callback.
LEMMA UserStep ==
  ASSUME IInv, NEW t \in Thread, NEW f \in Fd, TypeOK', ThrInv(t)', BoundInv',
         \A u \in Thread : u # t =>
           /\ thr'[u] = thr[u]
           /\ \A s \in Shard : /\ u \in writers[s] => u \in writers'[s]
                               /\ u \in readers[s] => u \in readers'[s],
         thr'[t].pc # "inmap",
         thr'[t].op \notin {"none", "wait"} => thr'[t].fd = f,
         \A u \in Thread : u # t /\ thr[u].fd = f =>
           \/ thr[u].op \in {"none", "wait"}
           \/ /\ thr[u].op = "opening" /\ thr[u].pc = "rpc"
              /\ phase'[f] \in {"called", "signalled"}
              /\ thr'[t].op \notin {"opening", "refused"},
         \A g \in Fd : g # f => phase'[g] = phase[g],
         \A g \in Fd : fd_state_map'[g] \in {fd_state_map[g], NoObj},
         \A p \in Obj : \/ outcome'[p] = outcome[p]
                        \/ p = cur[f] /\ outcome[p] = "pending",
         phase'[f] = "sent" => cur[f] # NoObj /\ outcome'[cur[f]] = "pending",
         UNCHANGED <<state, mutex, cur, fdOf, opens>>
  PROVE  IInv'
<1>1. \A p \in Obj : outcome[p] = "ok" => outcome'[p] = "ok" /\ fdOf'[p] = fdOf[p]
  OBVIOUS
<1>2. ASSUME NEW g \in Fd, g # f, cur[g] # NoObj
      PROVE  outcome'[cur[g]] = outcome[cur[g]]
  <2>1. FdInv(g) /\ FdInv(f) /\ cur[g] \in Obj /\ cur[f] \in Obj \cup {NoObj}
    BY <1>2 DEF IInv, TypeOK
  <2> QED
    BY <1>2, <2>1 DEF FdInv, Obj, NoObj
<1>3. ASSUME NEW u \in Thread, u # t PROVE ThrInv(u)'
  <2>1. ThrInv(u) /\ thr'[u] = thr[u]
    BY <1>3 DEF IInv
  <2>2. OpInv(u)' /\ FoundInv(u)'
    BY <2>1 DEF ThrInv, OpInv, FoundInv
  <2>3. thr[u].op # "none" => thr[u].fd \in Fd
    BY <2>1 DEF ThrInv, OpInv
  <2>4. thr[u].op = "none" => thr[u].pc = "idle"
    BY <2>1 DEF ThrInv, OpInv
  <2>5. PhaseInv(u)'
    BY <1>3, <2>1, <2>3 DEF ThrInv, PhaseInv
  <2>6. OutcomeInv(u)'
    <3>1. CASE thr[u].op = "ready"
      <4>1. thr[u].fd # f /\ thr[u].fd \in Fd /\ thr[u].pc # "rpc"
        BY <1>3, <2>1, <2>3, <3>1 DEF ThrInv, OpInv
      <4> QED
        BY <1>2, <2>1, <3>1, <4>1 DEF ThrInv, OutcomeInv
    <3>2. CASE thr[u].pc = "rpc"
      <4>1. thr[u].op = "opening" /\ thr[u].fd \in Fd
        BY <3>2, RpcOp
      <4>2. CASE thr[u].fd = f
        BY <1>3, <2>1, <3>2, <4>1, <4>2 DEF ThrInv, OutcomeInv
      <4>3. CASE thr[u].fd # f
        BY <1>2, <2>1, <3>2, <4>1, <4>3 DEF ThrInv, OutcomeInv
      <4> QED
        BY <4>2, <4>3
    <3>3. CASE thr[u].op # "ready" /\ thr[u].pc # "rpc"
      BY <2>1, <3>3 DEF OutcomeInv
    <3> QED
      BY <3>1, <3>2, <3>3
  <2>7. WaiterInv(u)'
    <3>1. thr[u].op = "wait" /\ thr[u].ret => Opened(thr'[u].fd, thr'[u].obj)
      BY <2>1 DEF ThrInv, WaiterInv
    <3>2. (thr[u].op = "wait" /\ thr[u].ret => Opened(thr[u].fd, thr[u].obj))'
      BY <1>1, <2>1, <3>1 DEF Opened
    <3> QED
      BY <2>1, <3>2 DEF ThrInv, WaiterInv
  <2> QED
    BY <2>2, <2>5, <2>6, <2>7 DEF ThrInv
<1>4. ASSUME NEW g \in Fd PROVE FdInv(g)'
  <2>1. FdInv(g)
    BY DEF IInv
  <2>2. CASE g = f
    BY <2>1, <2>2 DEF FdInv
  <2>3. CASE g # f
    BY <1>2, <2>1, <2>3 DEF FdInv
  <2> QED
    BY <2>2, <2>3
<1>5. ASSUME NEW p \in Obj PROVE ObjInv(p)'
  <2>1. ObjInv(p) /\ FdInv(f) /\ cur[f] \in Obj \cup {NoObj} /\ opens \in 0 .. MaxOpens
    BY DEF IInv, TypeOK
  <2>2. p > opens => p # cur[f]
    BY <2>1, FdStateConstants DEF FdInv, Obj, NoObj
  <2> QED
    BY <1>1, <2>1, <2>2 DEF ObjInv, Opened
<1>6. ASSUME NEW u \in Thread, NEW v \in Thread PROVE Unique(u, v)'
  <2>1. Unique(u, v)
    BY DEF IInv
  <2>2. ASSUME NEW w \in Thread, w # t PROVE Unique(t, w)' /\ Unique(w, t)'
    <3>1. ASSUME NEW k \in Class, thr'[t].op \in k, thr'[w].op \in k,
                 thr'[t].fd = thr'[w].fd
          PROVE  FALSE
      <4>1. thr'[t].op \notin {"none", "wait"} /\ thr'[w].op \notin {"none", "wait"}
        BY <3>1 DEF Class
      <4>2. thr[w].fd = f /\ thr'[w] = thr[w]
        BY <2>2, <3>1, <4>1
      <4>3. thr[w].op = "opening" /\ thr'[t].op \notin {"opening", "refused"}
        BY <2>2, <4>1, <4>2
      <4> QED
        BY <3>1, <4>2, <4>3 DEF Class
    <3> QED
      BY <3>1 DEF Unique
  <2>3. CASE u # t /\ v # t
    BY <2>1, <2>3 DEF Unique
  <2>4. CASE u = v
    BY <2>4 DEF Unique
  <2> QED
    BY <2>2, <2>3, <2>4
<1>7. (\A u \in Thread : LockInv(u)') /\ \A v, u \in Thread : Excluded(v, u)'
  BY MapShrinks
<1> QED
  BY <1>3, <1>4, <1>5, <1>6, <1>7 DEF IInv

\* What entering the table makes of a thread.
LEMMA Entering ==
  ASSUME IInv, NEW t \in Thread, NEW op \in Op \ {"none"}, NEW f \in Fd, Enter(t, op, f)
  PROVE  /\ thr' \in [Thread -> ThreadType]
         /\ \A u \in Thread : u # t => thr'[u] = thr[u]
         /\ thr'[t].pc \in {"init", "lock"} /\ thr'[t].op = op /\ thr'[t].fd = f
         /\ thr'[t].obj = NoObj /\ thr'[t].ret = FALSE
<1> DEFINE x == [Idle EXCEPT !.pc = IF initialized THEN "lock" ELSE "init",
                             !.op = op, !.fd = f]
<1>1. thr \in [Thread -> ThreadType]
  BY DEF IInv, TypeOK
<1>2. thr' = [thr EXCEPT ![t] = x]
  BY DEF Enter
<1>3. x \in ThreadType /\ x.pc \in {"init", "lock"} /\ x.op = op /\ x.fd = f
      /\ x.obj = NoObj /\ x.ret = FALSE
  BY IdleType DEF Idle, ThreadType, Pc
<1> HIDE DEF x
<1> QED
  BY <1>1, <1>2, <1>3

\* A thread that ends its operation.
LEMMA Ending ==
  ASSUME IInv, NEW t \in Thread, thr' = [thr EXCEPT ![t] = Idle]
  PROVE  /\ thr' \in [Thread -> ThreadType] /\ ThrInv(t)'
         /\ \A u \in Thread : u # t => thr'[u] = thr[u]
         /\ thr'[t].pc = "idle" /\ thr'[t].op = "none"
<1>1. thr \in [Thread -> ThreadType]
  BY DEF IInv, TypeOK
<1>2. thr' \in [Thread -> ThreadType] /\ thr'[t] = Idle
      /\ \A u \in Thread : u # t => thr'[u] = thr[u]
  BY <1>1, IdleType
<1>3. ThrInv(t)'
  BY <1>2 DEF Idle, ThrInv, OpInv, FoundInv, PhaseInv, OutcomeInv, WaiterInv, Pc
<1> QED
  BY <1>2, <1>3 DEF Idle

LEMMA BeginWaitIInv ==
  ASSUME IInv, NEW t \in Thread, NEW f \in Fd, BeginWait(t, f)
  PROVE  IInv'
<1>1. thr[t].pc = "idle" /\ thr[t].op = "none" /\ Enter(t, "wait", f)
      /\ UNCHANGED <<lockVars, fd_state_map, state, mutex, auxVars>>
  BY DEF BeginWait, Start, objVars, IInv, ThrInv, OpInv
<1>2. /\ thr' \in [Thread -> ThreadType]
      /\ \A u \in Thread : u # t => thr'[u] = thr[u]
      /\ thr'[t].pc \in {"init", "lock"} /\ thr'[t].op = "wait" /\ thr'[t].fd = f
      /\ thr'[t].obj = NoObj /\ thr'[t].ret = FALSE
  BY <1>1, Entering DEF Op
<1>3. TypeOK'
  BY <1>1, <1>2 DEF IInv, TypeOK, lockVars, auxVars
<1>4. ThrInv(t)'
  BY <1>2 DEF ThrInv, OpInv, FoundInv, PhaseInv, OutcomeInv, WaiterInv, Pc
<1>5. ASSUME NEW u \in Thread, thr[u].pc = "enter" PROVE mutex[thr[u].obj] = u
  BY <1>5 DEF IInv, ThrInv, WaiterInv
<1>6. readers' = readers /\ writers' = writers
  BY <1>1 DEF lockVars
<1> QED
  BY <1>1, <1>2, <1>3, <1>4, <1>5, <1>6, OneThread

LEMMA BeginOpenIInv ==
  ASSUME IInv, NEW t \in App, NEW f \in Fd, BeginOpen(t, f)
  PROVE  IInv'
<1>0. t \in Thread
  BY DEF Thread
<1>1. /\ phase[f] = "closed" /\ opens + Cardinality(Creating) < MaxOpens
      /\ thr[t].pc = "idle" /\ thr[t].op = "none" /\ Enter(t, "opening", f)
      /\ phase' = [phase EXCEPT ![f] = "opening"]
      /\ UNCHANGED <<lockVars, fd_state_map, state, mutex, cur, outcome, fdOf, opens>>
  BY <1>0 DEF BeginOpen, Start, objVars, IInv, ThrInv, OpInv
<1>2. /\ thr' \in [Thread -> ThreadType]
      /\ \A u \in Thread : u # t => thr'[u] = thr[u]
      /\ thr'[t].pc \in {"init", "lock"} /\ thr'[t].op = "opening" /\ thr'[t].fd = f
      /\ thr'[t].obj = NoObj /\ thr'[t].ret = FALSE
  BY <1>0, <1>1, Entering DEF Op
<1>3. TypeOK'
  BY <1>1, <1>2 DEF IInv, TypeOK, lockVars
<1>4. phase'[f] = "opening" /\ \A g \in Fd : g # f => phase'[g] = phase[g]
  BY <1>1 DEF IInv, TypeOK
<1>5. ThrInv(t)'
  BY <1>2, <1>4 DEF ThrInv, OpInv, FoundInv, PhaseInv, OutcomeInv, WaiterInv, Pc
<1>6. BoundInv'
  <2>1. Creating' = Creating \cup {t} /\ t \notin Creating
    BY <1>0, <1>1, <1>2 DEF Creating, Thread
  <2>2. Cardinality(Creating') = Cardinality(Creating) + 1 /\ Cardinality(Creating) \in Nat
    BY <2>1, CreatingFinite, FS_AddElement
  <2>3. opens \in 0 .. MaxOpens /\ opens' = opens
    BY <1>1 DEF IInv, TypeOK
  <2> QED
    BY <1>1, <2>2, <2>3, FdStateConstants DEF BoundInv
<1>7. ASSUME NEW u \in Thread, u # t, thr[u].fd = f PROVE thr[u].op \in {"none", "wait"}
  <2>1. PhaseInv(u) /\ thr[u] \in ThreadType
    BY DEF IInv, TypeOK, ThrInv
  <2> QED
    BY <1>1, <1>7, <2>1 DEF PhaseInv, ThreadType, Op
<1>8. readers' = readers /\ writers' = writers
  BY <1>1 DEF lockVars
<1> QED
  BY <1>0, <1>1, <1>2, <1>3, <1>4, <1>5, <1>6, <1>7, <1>8, UserStep

\* BoundInv, when nobody begins to open.
LEMMA BoundKeeps ==
  ASSUME IInv, NEW t \in Thread, opens' = opens,
         \A u \in Thread : u # t => thr'[u] = thr[u],
         thr'[t].op # "opening" \/ thr'[t] = thr[t],
         thr[t].op # "opening" \/ thr[t].pc = "rpc"
  PROVE  BoundInv'
<1>1. Creating' = Creating
  BY DEF Creating, Thread
<1> QED
  BY <1>1 DEF IInv, BoundInv

LEMMA ForwardIInv ==
  ASSUME IInv, NEW t \in Thread, Forward(t)
  PROVE  IInv'
<1> DEFINE f == thr[t].fd
<1>0. /\ thr[t].pc = "rpc" /\ thr[t].op = "opening" /\ f \in Fd /\ t \in App
      /\ phase[f] = "opening" /\ ThrInv(t) /\ TypeOK
      /\ UNCHANGED <<lockVars, fd_state_map, state, mutex, cur, fdOf, opens>>
  BY RpcOp DEF Forward, At, objVars, IInv
<1>1. cur[f] \in Obj /\ outcome[cur[f]] = "pending" /\ cur[f] # NoObj
  BY <1>0 DEF ThrInv, OutcomeInv, TypeOK
<1>2. ASSUME NEW u \in Thread, u # t, thr[u].fd = f PROVE thr[u].op \in {"none", "wait"}
  <2>1. PhaseInv(u) /\ thr[u] \in ThreadType /\ Unique(t, u)
    BY DEF IInv, TypeOK, ThrInv
  <2>2. thr[u].op \notin {"opening", "refused"}
    BY <1>0, <1>2, <2>1 DEF Unique, Class
  <2> QED
    BY <1>0, <1>2, <2>1, <2>2 DEF PhaseInv, ThreadType, Op
<1>3. readers' = readers /\ writers' = writers
  BY <1>0 DEF lockVars
<1>4. CASE phase' = [phase EXCEPT ![f] = "sent"] /\ UNCHANGED <<thr, outcome>>
  <2>1. TypeOK'
    BY <1>0, <1>4 DEF TypeOK, lockVars
  <2>2. phase'[f] = "sent" /\ \A g \in Fd : g # f => phase'[g] = phase[g]
    BY <1>0, <1>4 DEF TypeOK
  <2>3. ThrInv(t)'
    BY <1>0, <1>4, <2>2
       DEF ThrInv, OpInv, FoundInv, PhaseInv, OutcomeInv, WaiterInv
  <2>4. BoundInv'
    BY <1>0, <1>4, BoundKeeps
  <2> QED
    BY <1>0, <1>1, <1>2, <1>3, <1>4, <2>1, <2>2, <2>3, <2>4, UserStep
<1>5. CASE /\ Enter(t, "refused", f) /\ UNCHANGED phase
           /\ outcome' = [outcome EXCEPT ![cur[f]] = "failed"]
  <2>1. /\ thr' \in [Thread -> ThreadType]
        /\ \A u \in Thread : u # t => thr'[u] = thr[u]
        /\ thr'[t].pc \in {"init", "lock"} /\ thr'[t].op = "refused" /\ thr'[t].fd = f
        /\ thr'[t].obj = NoObj /\ thr'[t].ret = FALSE
    BY <1>0, <1>5, Entering DEF Op
  <2>2. /\ outcome' \in [Obj -> {"pending", "ok", "failed"}]
        /\ \A p \in Obj : p # cur[f] => outcome'[p] = outcome[p]
    BY <1>0, <1>1, <1>5 DEF TypeOK
  <2>3. TypeOK'
    BY <1>0, <1>5, <2>1, <2>2 DEF TypeOK, lockVars
  <2>4. ThrInv(t)'
    BY <1>0, <1>5, <2>1
       DEF ThrInv, OpInv, FoundInv, PhaseInv, OutcomeInv, WaiterInv, Pc
  <2>5. BoundInv'
    BY <1>0, <2>1, BoundKeeps
  <2>6. /\ \A p \in Obj : \/ outcome'[p] = outcome[p]
                          \/ p = cur[f] /\ outcome[p] = "pending"
        /\ phase'[f] # "sent"
    BY <1>0, <1>1, <1>5, <2>2
  <2> HIDE DEF f
  <2> QED
    BY <1>0, <1>2, <1>3, <1>5, <2>1, <2>3, <2>4, <2>5, <2>6, UserStep
<1> QED
  BY <1>4, <1>5 DEF Forward

LEMMA RunCallbackIInv ==
  ASSUME IInv, NEW t \in Progress, NEW f \in Fd, RunCallback(t, f)
  PROVE  IInv'
<1>0. t \in Thread
  BY DEF Thread
<1>1. PICK ok \in BOOLEAN :
        /\ Start(t, IF ok THEN "ready" ELSE "error", f)
        /\ outcome' = [outcome EXCEPT ![cur[f]] = IF ok THEN "ok" ELSE "failed"]
  BY DEF RunCallback
<1> DEFINE op == IF ok THEN "ready" ELSE "error"
<1>2. /\ phase[f] = "sent" /\ TypeOK
      /\ thr[t].pc = "idle" /\ thr[t].op = "none" /\ Enter(t, op, f)
      /\ phase' = [phase EXCEPT ![f] = "called"]
      /\ UNCHANGED <<lockVars, fd_state_map, state, mutex, cur, fdOf, opens>>
  BY <1>0, <1>1 DEF RunCallback, Start, objVars, IInv, ThrInv, OpInv
<1>3. op \in Op \ {"none"} /\ op \in {"ready", "error"} /\ (op = "ready" => ok)
  BY DEF Op
<1>4. cur[f] \in Obj /\ outcome[cur[f]] = "pending" /\ cur[f] # NoObj
  BY <1>2 DEF IInv, FdInv, TypeOK
<1>5. /\ outcome' \in [Obj -> {"pending", "ok", "failed"}]
      /\ \A p \in Obj : p # cur[f] => outcome'[p] = outcome[p]
      /\ op = "ready" => outcome'[cur[f]] = "ok"
  BY <1>1, <1>2, <1>3, <1>4 DEF TypeOK
<1> HIDE DEF op
<1>6. /\ thr' \in [Thread -> ThreadType]
      /\ \A u \in Thread : u # t => thr'[u] = thr[u]
      /\ thr'[t].pc \in {"init", "lock"} /\ thr'[t].op = op /\ thr'[t].fd = f
      /\ thr'[t].obj = NoObj /\ thr'[t].ret = FALSE
  BY <1>0, <1>2, <1>3, Entering
<1>7. TypeOK'
  BY <1>2, <1>5, <1>6 DEF TypeOK, lockVars
<1>8. phase'[f] = "called" /\ \A g \in Fd : g # f => phase'[g] = phase[g]
  BY <1>2 DEF TypeOK
<1>9. ThrInv(t)'
  <2>1. OpInv(t)' /\ FoundInv(t)' /\ PhaseInv(t)' /\ WaiterInv(t)'
    BY <1>3, <1>6, <1>8 DEF OpInv, FoundInv, PhaseInv, WaiterInv, Pc
  <2>2. OutcomeInv(t)'
    BY <1>2, <1>4, <1>5, <1>6 DEF OutcomeInv, NoObj, Obj
  <2> QED
    BY <2>1, <2>2 DEF ThrInv
<1>10. BoundInv'
  BY <1>0, <1>2, <1>3, <1>6, BoundKeeps
<1>11. ASSUME NEW u \in Thread, u # t, thr[u].fd = f
       PROVE  \/ thr[u].op \in {"none", "wait"}
              \/ thr[u].op = "opening" /\ thr[u].pc = "rpc"
  <2>1. PhaseInv(u) /\ thr[u] \in ThreadType
    BY DEF IInv, TypeOK, ThrInv
  <2> QED
    BY <1>2, <1>11, <2>1 DEF PhaseInv, ThreadType, Op
<1>12. readers' = readers /\ writers' = writers
  BY <1>2 DEF lockVars
<1> QED
  BY <1>0, <1>2, <1>3, <1>4, <1>5, <1>6, <1>7, <1>8, <1>9, <1>10, <1>11, <1>12, UserStep

LEMMA ReturnIInv ==
  ASSUME IInv, NEW t \in Thread, Return(t)
  PROVE  IInv'
<1> DEFINE f == thr[t].fd
<1>0. /\ thr[t].pc = "return" /\ thr' = [thr EXCEPT ![t] = Idle] /\ TypeOK
      /\ UNCHANGED <<lockVars, fd_state_map, state, mutex, cur, outcome, fdOf, opens>>
  BY DEF Return, At, objVars, IInv
<1>1. f \in Fd /\ thr[t].op \in {"wait", "ready", "error", "refused"} /\ ThrInv(t)
  BY <1>0 DEF IInv, TypeOK, ThrInv, OpInv, ThreadType, Op
<1>2. /\ thr' \in [Thread -> ThreadType] /\ ThrInv(t)'
      /\ \A u \in Thread : u # t => thr'[u] = thr[u]
      /\ thr'[t].pc = "idle" /\ thr'[t].op = "none"
  BY <1>0, Ending
<1>3. readers' = readers /\ writers' = writers
  BY <1>0 DEF lockVars
<1>4. CASE thr[t].op = "wait"
  <2>1. phase' = phase
    BY <1>4 DEF Return
  <2>2. TypeOK'
    BY <1>0, <1>2, <2>1 DEF TypeOK, lockVars
  <2>3. ASSUME NEW u \in Thread, thr[u].pc = "enter" PROVE mutex[thr[u].obj] = u
    BY <2>3 DEF IInv, ThrInv, WaiterInv
  <2> QED
    BY <1>0, <1>2, <1>3, <1>4, <2>1, <2>2, <2>3, OneThread DEF auxVars
<1>5. CASE thr[t].op # "wait"
  <2> DEFINE ph == IF thr[t].op = "refused" THEN "open" ELSE "signalled"
  <2>1. phase' = [phase EXCEPT ![f] = ph]
    BY <1>5 DEF Return
  <2>2. ph \in {"open", "signalled"} /\ (ph = "signalled" => thr[t].op \in {"ready", "error"})
        /\ (ph = "open" => thr[t].op = "refused")
    BY <1>1, <1>5
  <2> HIDE DEF ph
  <2>3. phase'[f] = ph /\ \A g \in Fd : g # f => phase'[g] = phase[g]
    BY <1>0, <1>1, <2>1 DEF TypeOK
  <2>4. TypeOK'
    BY <1>0, <1>1, <1>2, <2>1, <2>2 DEF TypeOK, lockVars
  <2>5. BoundInv'
    BY <1>0, <1>1, <1>2, BoundKeeps
  <2>6. ASSUME NEW u \in Thread, u # t, thr[u].fd = f
        PROVE  \/ thr[u].op \in {"none", "wait"}
               \/ thr[u].op = "opening" /\ thr[u].pc = "rpc" /\ ph = "signalled"
    <3>1. PhaseInv(u) /\ PhaseInv(t) /\ thr[u] \in ThreadType /\ Unique(t, u)
      BY DEF IInv, TypeOK, ThrInv
    <3>2. CASE ph = "open"
      <4>1. phase[f] = "opening" /\ thr[u].op \notin {"opening", "refused"}
        BY <2>2, <2>6, <3>1, <3>2 DEF PhaseInv, Unique, Class
      <4> QED
        BY <2>6, <3>1, <4>1 DEF PhaseInv, ThreadType, Op
    <3>3. CASE ph = "signalled"
      <4>1. phase[f] = "called" /\ thr[u].op \notin {"ready", "error"}
        BY <2>2, <2>6, <3>1, <3>3 DEF PhaseInv, Unique, Class
      <4> QED
        BY <2>6, <3>1, <3>3, <4>1 DEF PhaseInv, ThreadType, Op
    <3> QED
      BY <2>2, <3>2, <3>3
  <2> HIDE DEF f
  <2> QED
    BY <1>0, <1>1, <1>2, <1>3, <2>2, <2>3, <2>4, <2>5, <2>6, UserStep
<1> QED
  BY <1>4, <1>5

LEMMA OpenReturnsIInv ==
  ASSUME IInv, NEW t \in Thread, OpenReturns(t)
  PROVE  IInv'
<1> DEFINE f == thr[t].fd
<1>0. /\ thr[t].pc = "rpc" /\ thr[t].op = "opening" /\ f \in Fd /\ TypeOK
      /\ phase[f] = "signalled" /\ thr' = [thr EXCEPT ![t] = Idle]
      /\ phase' = [phase EXCEPT ![f] = "open"]
      /\ UNCHANGED <<lockVars, fd_state_map, state, mutex, cur, outcome, fdOf, opens>>
  BY RpcOp DEF OpenReturns, At, objVars, IInv
<1>1. /\ thr' \in [Thread -> ThreadType] /\ ThrInv(t)'
      /\ \A u \in Thread : u # t => thr'[u] = thr[u]
      /\ thr'[t].pc = "idle" /\ thr'[t].op = "none"
  BY <1>0, Ending
<1>2. TypeOK'
  BY <1>0, <1>1 DEF TypeOK, lockVars
<1>3. phase'[f] = "open" /\ \A g \in Fd : g # f => phase'[g] = phase[g]
  BY <1>0 DEF TypeOK
<1>4. BoundInv'
  BY <1>0, <1>1, BoundKeeps
<1>5. ASSUME NEW u \in Thread, u # t, thr[u].fd = f PROVE thr[u].op \in {"none", "wait"}
  <2>1. PhaseInv(u) /\ thr[u] \in ThreadType /\ Unique(t, u)
    BY DEF IInv, TypeOK, ThrInv
  <2>2. thr[u].op \notin {"opening", "refused"}
    BY <1>0, <1>5, <2>1 DEF Unique, Class
  <2> QED
    BY <1>0, <1>5, <2>1, <2>2 DEF PhaseInv, ThreadType, Op
<1>6. readers' = readers /\ writers' = writers
  BY <1>0 DEF lockVars
<1> HIDE DEF f
<1> QED
  BY <1>0, <1>1, <1>2, <1>3, <1>4, <1>5, <1>6, UserStep

LEMMA BeginCleanupIInv ==
  ASSUME IInv, NEW t \in Thread, NEW f \in Fd, BeginCleanup(t, f)
  PROVE  IInv'
<1>1. /\ phase[f] = "open" /\ thr[t].pc = "idle" /\ thr[t].op = "none"
      /\ Enter(t, "cleanup", f) /\ phase' = [phase EXCEPT ![f] = "closing"]
      /\ UNCHANGED <<lockVars, fd_state_map, state, mutex, cur, outcome, fdOf, opens>>
  BY DEF BeginCleanup, Start, objVars, IInv, ThrInv, OpInv
<1>2. /\ thr' \in [Thread -> ThreadType]
      /\ \A u \in Thread : u # t => thr'[u] = thr[u]
      /\ thr'[t].pc \in {"init", "lock"} /\ thr'[t].op = "cleanup" /\ thr'[t].fd = f
      /\ thr'[t].obj = NoObj /\ thr'[t].ret = FALSE
  BY <1>1, Entering DEF Op
<1>3. TypeOK'
  BY <1>1, <1>2 DEF IInv, TypeOK, lockVars
<1>4. phase'[f] = "closing" /\ \A g \in Fd : g # f => phase'[g] = phase[g]
  BY <1>1 DEF IInv, TypeOK
<1>5. ThrInv(t)'
  BY <1>2, <1>4 DEF ThrInv, OpInv, FoundInv, PhaseInv, OutcomeInv, WaiterInv, Pc
<1>6. BoundInv'
  BY <1>1, <1>2, BoundKeeps
<1>7. ASSUME NEW u \in Thread, u # t, thr[u].fd = f PROVE thr[u].op \in {"none", "wait"}
  <2>1. PhaseInv(u) /\ thr[u] \in ThreadType
    BY DEF IInv, TypeOK, ThrInv
  <2> QED
    BY <1>1, <1>7, <2>1 DEF PhaseInv, ThreadType, Op
<1>8. readers' = readers /\ writers' = writers
  BY <1>1 DEF lockVars
<1> QED
  BY <1>1, <1>2, <1>3, <1>4, <1>5, <1>6, <1>7, <1>8, UserStep

LEMMA CleanupIInv ==
  ASSUME IInv, NEW t \in Thread, hvac_cleanup_fd_state(t)
  PROVE  IInv'
<1> DEFINE f == thr[t].fd
<1>0. /\ thr[t].pc = "inmap" /\ thr[t].op = "cleanup" /\ TypeOK
      /\ \/ fd_state_map' = [fd_state_map EXCEPT ![f] = NoObj]
         \/ fd_state_map' = fd_state_map
      /\ UnlockShard(t) /\ thr' = [thr EXCEPT ![t] = Idle]
      /\ phase' = [phase EXCEPT ![f] = "closed"]
      /\ UNCHANGED <<state, mutex, cur, outcome, fdOf, opens>>
  BY DEF hvac_cleanup_fd_state, At, objVars, IInv
<1>1. f \in Fd /\ phase[f] = "closing"
  BY <1>0 DEF IInv, ThrInv, OpInv, PhaseInv
<1>2. /\ thr' \in [Thread -> ThreadType] /\ ThrInv(t)'
      /\ \A u \in Thread : u # t => thr'[u] = thr[u]
      /\ thr'[t].pc = "idle" /\ thr'[t].op = "none"
  BY <1>0, Ending
<1>3. /\ readers' \in [Shard -> SUBSET Thread] /\ writers' \in [Shard -> SUBSET Thread]
      /\ initialized' = initialized /\ undefined' = undefined
      /\ \A u \in Thread : u # t =>
           \A s \in Shard : /\ u \in writers[s] => u \in writers'[s]
                            /\ u \in readers[s] => u \in readers'[s]
  BY <1>0, <1>1, Unlocking
<1>4. ASSUME NEW u \in Thread, u # t, thr[u].fd = f PROVE thr[u].op \in {"none", "wait"}
  <2>1. PhaseInv(u) /\ thr[u] \in ThreadType /\ Unique(t, u)
    BY DEF IInv, TypeOK, ThrInv
  <2>2. thr[u].op # "cleanup"
    BY <1>0, <1>4, <2>1 DEF Unique, Class
  <2> QED
    BY <1>1, <1>4, <2>1, <2>2 DEF PhaseInv, ThreadType, Op
<1> HIDE DEF f
<1>5. /\ fd_state_map' \in [Fd -> Obj \cup {NoObj}]
      /\ \A g \in Fd : fd_state_map'[g] \in {fd_state_map[g], NoObj}
      /\ phase'[f] = "closed" /\ \A g \in Fd : g # f => phase'[g] = phase[g]
  BY <1>0, <1>1 DEF TypeOK
<1>6. TypeOK'
  BY <1>0, <1>1, <1>2, <1>3, <1>5 DEF TypeOK
<1>7. BoundInv'
  BY <1>0, <1>2, BoundKeeps
<1> QED
  BY <1>0, <1>1, <1>2, <1>3, <1>4, <1>5, <1>6, <1>7, UserStep

-----------------------------------------------------------------------------
(* The theorems.                                                           *)

LEMMA StutterIInv == IInv /\ UNCHANGED vars => IInv'
<1> SUFFICES ASSUME IInv, UNCHANGED vars PROVE IInv'
  OBVIOUS
<1>1. /\ UNCHANGED <<initialized, undefined, readers, writers, fd_state_map>>
      /\ UNCHANGED <<state, mutex, thr, phase, cur, outcome, fdOf, opens>>
  BY DEF vars, lockVars, objVars, auxVars
<1> QED
  BY <1>1
     DEF IInv, TypeOK, ThrInv, OpInv, FoundInv, PhaseInv, OutcomeInv, WaiterInv,
         Opened, FdInv, ObjInv, Unique, LockInv, InMap, Modifies, Excluded,
         BoundInv, Creating

LEMMA NextIInv == IInv /\ [Next]_vars => IInv'
<1> SUFFICES ASSUME IInv, Next PROVE IInv'
  BY StutterIInv
<1>1. PICK t \in Thread : Step(t) \/ TimesOut(t) \/ Users(t)
  BY DEF Next
<1>2. CASE Step(t)
  BY <1>2, InitLocksIInv, LockShardIInv, SetOpeningIInv, GetStatusIInv,
     CleanupIInv, SetStateIInv, CheckStateIInv, FallsAsleepIInv, WaitLoopIInv,
     ReturnIInv DEF Step
<1>3. CASE TimesOut(t)
  BY <1>3, WaitLoopIInv
<1>4. CASE Users(t)
  BY <1>4, BeginOpenIInv, BeginWaitIInv, BeginCleanupIInv, RunCallbackIInv,
     ForwardIInv, OpenReturnsIInv DEF Users
<1> QED
  BY <1>1, <1>2, <1>3, <1>4

\* The invariant holds of every behaviour of the table, whatever lookups,
\* insertions and deletions a race loses.
THEOREM Invariance == Spec => []IInv
  BY InitIInv, NextIInv, PTL DEF Spec

\* Every variable keeps its type; every deadline handed to
\* pthread_cond_timedwait is normalised.
THEOREM TypeCorrect == Spec => []TypeOK
<1>1. IInv => TypeOK
  BY DEF IInv
<1> QED
  BY <1>1, Invariance, PTL

\* The lock of a shard keeps its threads apart, for any number of shards.
THEOREM Exclusion == Spec => []ShardExclusion
<1>1. IInv => ShardExclusion
  <2> SUFFICES ASSUME IInv, NEW t \in Thread, NEW u \in Thread,
                      InMap(t), Conflict(t, u)
               PROVE  ShardOf(thr[t].fd) # ShardOf(thr[u].fd)
    BY DEF ShardExclusion
  <2>1. Excluded(t, u)
    BY DEF IInv
  <2> QED
    BY <2>1 DEF Excluded, Conflict
<1> QED
  BY <1>1, Invariance, PTL

\* No broadcast falls between a waiter's test of the state and its wait.
THEOREM NoBroadcastMissed == Spec => []NoMissedBroadcast
<1>1. IInv => NoMissedBroadcast
  BY DEF IInv, ThrInv, WaiterInv, NoMissedBroadcast
<1> QED
  BY <1>1, Invariance, PTL

\* A wait succeeds only for a descriptor whose open succeeded.
THEOREM WaitsAreRight == Spec => []WaitReportsTheOpen
<1>1. IInv => WaitReportsTheOpen
  BY DEF IInv, ThrInv, WaiterInv, WaitReportsTheOpen
<1> QED
  BY <1>1, Invariance, PTL
=============================================================================
