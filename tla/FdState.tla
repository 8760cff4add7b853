------------------------------ MODULE FdState ------------------------------
(***************************************************************************)
(* The descriptor state table of mthvac_comm_client.cpp: one unordered_map *)
(* from local descriptors to hvac_fd_status objects, guarded by            *)
(* FD_STATE_SHARDS reader/writer locks, and the timed wait of a reader for *)
(* the open RPC of its descriptor.                                         *)
(*                                                                         *)
(* The table is used as gen_open_rpc, hvac_open_cb and gen_close_rpc use   *)
(* it: an open sets "opening", its callback (or a refused HG_Forward) sets *)
(* the outcome, open() returns, and close() cleans up.  gen_read_rpc may   *)
(* wait for any descriptor at any time.                                    *)
(***************************************************************************)
EXTENDS Integers, FiniteSets

CONSTANTS
  App,        \* application threads
  Progress,   \* Mercury progress threads, which run the callbacks
  Fd,         \* local descriptors
  Shards,     \* FD_STATE_SHARDS (64 in the code)
  MaxOpens,   \* bound: open RPCs, and so hvac_fd_status objects
  Clock,      \* readings of CLOCK_REALTIME
  Timeouts,   \* values of timeout_ms
  None        \* "no thread"

Thread == App \cup Progress
Shard  == 0 .. Shards - 1
Obj    == 1 .. MaxOpens
NoObj  == 0                     \* nullptr
NsPerSec == 1000000000
Timespec == [sec : Nat, nsec : 0 .. NsPerSec - 1]

ASSUME FdStateConstants ==
  /\ None \notin Thread /\ App \cap Progress = {} /\ IsFiniteSet(App)
  /\ Fd \subseteq Nat /\ Shards \in Nat \ {0} /\ MaxOpens \in Nat
  /\ Clock \subseteq Timespec /\ Timeouts \subseteq Nat

VARIABLES
  initialized,   \* fd_state_rwlocks_initialized
  undefined,     \* a lock was initialised again while a thread held it
  readers,       \* readers[s], writers[s]: who holds the lock of shard s
  writers,
  fd_state_map,  \* fd_state_map[f]: the object f is mapped to
  state,         \* state[o]: the state of object o
  mutex,         \* mutex[o]: the holder of its state_mutex
  thr,           \* where each thread is
  phase,         \* phase[f]: how far the open of f is
  cur,           \* cur[f]: the object of the latest open of f (auxiliary)
  outcome,       \* outcome[o]: what the open RPC behind o said (auxiliary)
  fdOf,          \* fdOf[o]: the descriptor o was created for (auxiliary)
  opens          \* objects created

lockVars == <<initialized, undefined, readers, writers>>
objVars  == <<state, mutex>>
auxVars  == <<phase, cur, outcome, fdOf, opens>>
vars     == <<lockVars, fd_state_map, objVars, thr, auxVars>>

NoTime == [sec |-> 0, nsec |-> 0]
Idle == [pc |-> "idle", op |-> "none", fd |-> None, obj |-> NoObj,
         raced |-> FALSE, ret |-> FALSE, until |-> NoTime]

Op == {"none", "opening", "ready", "error", "refused", "wait", "cleanup"}
Pc == {"idle", "init", "lock", "inmap", "rpc", "mutex", "enter", "asleep",
       "woken", "return"}

ThreadType == [pc : Pc, op : Op, fd : Fd \cup {None}, obj : Obj \cup {NoObj},
               raced : BOOLEAN, ret : BOOLEAN, until : Timespec]

TypeOK ==
  /\ initialized \in BOOLEAN /\ undefined \in BOOLEAN
  /\ readers \in [Shard -> SUBSET Thread]
  /\ writers \in [Shard -> SUBSET Thread]
  /\ fd_state_map \in [Fd -> Obj \cup {NoObj}]
  /\ state \in [Obj -> {"none", "opening", "ready", "error"}]
  /\ mutex \in [Obj -> Thread \cup {None}]
  /\ thr \in [Thread -> ThreadType]
  /\ phase \in [Fd -> {"closed", "opening", "sent", "called", "signalled",
                       "open", "closing"}]
  /\ cur \in [Fd -> Obj \cup {NoObj}]
  /\ outcome \in [Obj -> {"pending", "ok", "failed"}]
  /\ fdOf \in [Obj -> Fd \cup {None}]
  /\ opens \in 0 .. MaxOpens

Init ==
  /\ initialized = FALSE /\ undefined = FALSE
  /\ readers = [s \in Shard |-> {}]
  /\ writers = [s \in Shard |-> {}]
  /\ fd_state_map = [f \in Fd |-> NoObj]
  /\ state = [o \in Obj |-> "none"]
  /\ mutex = [o \in Obj |-> None]
  /\ thr = [t \in Thread |-> Idle]
  /\ phase = [f \in Fd |-> "closed"]
  /\ cur = [f \in Fd |-> NoObj]
  /\ outcome = [o \in Obj |-> "pending"]
  /\ fdOf = [o \in Obj |-> None]
  /\ opens = 0

-----------------------------------------------------------------------------
At(t, pc) == ~undefined /\ thr[t].pc = pc
Goto(t, pc) == thr' = [thr EXCEPT ![t].pc = pc]

ShardOf(f) == f % Shards

\* What an operation does to the map once it is inside.
Modifies(t) == thr[t].op \in {"opening", "cleanup"}
InMap(t) == thr[t].pc = "inmap"
Conflict(t, u) == t # u /\ InMap(u) /\ (Modifies(t) \/ Modifies(u))

\* get_fd_rwlock, entered by every operation of the table, first reads
\* fd_state_rwlocks_initialized.
Enter(t, op, f) ==
  thr' = [thr EXCEPT ![t] = [Idle EXCEPT
            !.pc = IF initialized THEN "lock" ELSE "init", !.op = op, !.fd = f]]

Start(t, op, f) == ~undefined /\ thr[t].pc = "idle" /\ Enter(t, op, f)

\* The locks are initialised again by every thread that found the flag
\* unset.  Initialising a lock that is held is undefined: the model ends.
init_fd_state_rwlocks(t) ==
  /\ At(t, "init")
  /\ IF \E s \in Shard : readers[s] \cup writers[s] # {}
     THEN undefined' = TRUE /\ UNCHANGED <<initialized, thr>>
     ELSE initialized' = TRUE /\ Goto(t, "lock") /\ UNCHANGED undefined
  /\ UNCHANGED <<readers, writers, fd_state_map, objVars, auxVars>>

-----------------------------------------------------------------------------
(* The map.  A thread is inside it from the acquisition to the release of  *)
(* the lock of its shard.                                                  *)

\* Mutant: the deletion takes the read lock.
WriteLockForInsert(t) == thr[t].op = "opening"

\* Which operations call pthread_rwlock_wrlock, and which rdlock.
WriteLocks(t) == thr[t].op \in {"opening", "cleanup"}

\* raced: another thread is or was inside the map while t is, and one of
\* the two modifies it: different shards have different locks.
LockShard(t) ==
  LET s == ShardOf(thr[t].fd)
  IN  /\ At(t, "lock")
      /\ writers[s] = {}
      /\ IF WriteLocks(t)
         THEN /\ readers[s] = {}
              /\ writers' = [writers EXCEPT ![s] = {t}] /\ UNCHANGED readers
         ELSE /\ readers' = [readers EXCEPT ![s] = @ \cup {t}]
              /\ UNCHANGED writers
      /\ thr' = [u \in Thread |->
           IF u = t THEN [thr[t] EXCEPT !.pc = "inmap",
                            !.raced = \E v \in Thread : Conflict(t, v)]
           ELSE IF Conflict(t, u) THEN [thr[u] EXCEPT !.raced = TRUE]
           ELSE thr[u]]
      /\ UNCHANGED <<initialized, undefined, fd_state_map, objVars, auxVars>>

UnlockShard(t) ==
  LET s == ShardOf(thr[t].fd)
  IN  /\ readers' = [readers EXCEPT ![s] = @ \ {t}]
      /\ writers' = [writers EXCEPT ![s] = @ \ {t}]
      /\ UNCHANGED <<initialized, undefined>>

\* make_shared and fd_state_map[fd] = status.  Of two racing modifications
\* one may be lost.
hvac_set_fd_opening(t) ==
  LET f == thr[t].fd
      o == opens + 1
  IN  /\ At(t, "inmap") /\ thr[t].op = "opening"
      /\ opens' = o
      /\ cur' = [cur EXCEPT ![f] = o]
      /\ fdOf' = [fdOf EXCEPT ![o] = f]
      /\ state' = [state EXCEPT ![o] = "opening"]
      /\ \/ fd_state_map' = [fd_state_map EXCEPT ![f] = o]
         \/ thr[t].raced /\ UNCHANGED fd_state_map
      /\ UnlockShard(t)
      /\ thr' = [thr EXCEPT ![t].pc = "rpc", ![t].raced = FALSE]
      /\ UNCHANGED <<mutex, phase, outcome>>

\* fd_state_map.find(fd), which a race may make miss a key that is there.
hvac_get_fd_status(t) ==
  /\ At(t, "inmap") /\ ~Modifies(t)
  /\ \E o \in {fd_state_map[thr[t].fd]}
              \cup (IF thr[t].raced THEN {NoObj} ELSE {}) :
       thr' = [thr EXCEPT ![t].obj = o, ![t].raced = FALSE,
                          ![t].pc = IF o = NoObj THEN "return" ELSE "mutex"]
  /\ UnlockShard(t)
  /\ UNCHANGED <<fd_state_map, objVars, auxVars>>

hvac_cleanup_fd_state(t) ==
  LET f == thr[t].fd
  IN  /\ At(t, "inmap") /\ thr[t].op = "cleanup"
      /\ \/ fd_state_map' = [fd_state_map EXCEPT ![f] = NoObj]
         \/ thr[t].raced /\ UNCHANGED fd_state_map
      /\ UnlockShard(t)
      /\ thr' = [thr EXCEPT ![t] = Idle]
      /\ phase' = [phase EXCEPT ![f] = "closed"]
      /\ UNCHANGED <<objVars, cur, outcome, fdOf, opens>>

-----------------------------------------------------------------------------
(* The outcome of an open.                                                 *)

SetAndBroadcast(t) ==
  LET o == thr[t].obj
  IN  /\ At(t, "mutex") /\ thr[t].op # "wait"
      /\ state' = [state EXCEPT ![o] =
                     IF thr[t].op = "ready" THEN "ready" ELSE "error"]
      /\ thr' = [u \in Thread |->
           IF u = t THEN [thr[t] EXCEPT !.pc = "return"]
           ELSE IF thr[u].pc = "asleep" /\ thr[u].obj = o
           THEN [thr[u] EXCEPT !.pc = "woken"]
           ELSE thr[u]]
      /\ UNCHANGED <<lockVars, fd_state_map, mutex, auxVars>>

\* Mutant: the state is changed without its mutex.
SetWithoutMutex(t) == SetAndBroadcast(t)

\* hvac_set_fd_ready and hvac_set_fd_error, in one critical section of
\* state_mutex: set the state, broadcast.
hvac_set_fd_state(t) == SetAndBroadcast(t) /\ mutex[thr[t].obj] = None

-----------------------------------------------------------------------------
(* hvac_wait_fd_ready                                                      *)

\* Mutant: the nanoseconds are not carried into the seconds.
DeadlineNoCarry(now, ms) ==
  [sec |-> now.sec + ms \div 1000, nsec |-> now.nsec + (ms % 1000) * 1000000]

Deadline(now, ms) ==
  LET sec  == now.sec + ms \div 1000
      nsec == now.nsec + (ms % 1000) * 1000000
  IN  IF nsec >= NsPerSec THEN [sec |-> sec + 1, nsec |-> nsec - NsPerSec]
      ELSE [sec |-> sec, nsec |-> nsec]

ReturnWith(t, ret) ==
  /\ mutex' = [mutex EXCEPT ![thr[t].obj] = None]
  /\ thr' = [thr EXCEPT ![t].pc = "return", ![t].ret = ret]

\* Lock state_mutex.  "If already ready or error, return immediately", else
\* take the time and keep the mutex.
CheckState(t) ==
  LET o == thr[t].obj
  IN  /\ At(t, "mutex") /\ thr[t].op = "wait"
      /\ mutex[o] = None
      /\ \/ state[o] # "opening" /\ ReturnWith(t, state[o] = "ready")
         \/ /\ state[o] = "opening"
            /\ mutex' = [mutex EXCEPT ![o] = t]
            /\ \E now \in Clock, ms \in Timeouts :
                 thr' = [thr EXCEPT ![t].pc = "enter",
                                    ![t].until = Deadline(now, ms)]
      /\ UNCHANGED <<lockVars, fd_state_map, state, auxVars>>

\* pthread_cond_timedwait gives the mutex back as it falls asleep.  It
\* refuses a deadline that is not normalised with EINVAL at once, and the
\* loop spins with the mutex held.
FallsAsleep(t) ==
  /\ At(t, "enter")
  /\ thr[t].until.nsec < NsPerSec
  /\ mutex' = [mutex EXCEPT ![thr[t].obj] = None]
  /\ Goto(t, "asleep")
  /\ UNCHANGED <<lockVars, fd_state_map, state, auxVars>>

\* Mutant: whatever ended the opening is reported as success.
ReportsAnyOutcome(t) ==
  LET o == thr[t].obj
  IN  /\ At(t, "asleep") \/ At(t, "woken")
      /\ mutex[o] = None
      /\ \/ state[o] # "opening" /\ ReturnWith(t, TRUE)
         \/ /\ state[o] = "opening" /\ Goto(t, "enter")
            /\ mutex' = [mutex EXCEPT ![o] = t]
      /\ UNCHANGED <<lockVars, fd_state_map, state, auxVars>>

\* The wait returns 0, with the mutex, after a broadcast or for no reason:
\* while (state == HVAC_FD_OPENING) decides whether to wait again.
WaitLoop(t) ==
  LET o == thr[t].obj
  IN  /\ At(t, "asleep") \/ At(t, "woken")
      /\ mutex[o] = None
      /\ \/ state[o] # "opening" /\ ReturnWith(t, state[o] = "ready")
         \/ /\ state[o] = "opening" /\ Goto(t, "enter")
            /\ mutex' = [mutex EXCEPT ![o] = t]
      /\ UNCHANGED <<lockVars, fd_state_map, state, auxVars>>

\* Mutant: the result of pthread_cond_timedwait is not looked at.
IgnoresTimeout(t) == WaitLoop(t)

\* The wait returns ETIMEDOUT, perhaps just after a broadcast: FALSE, whatever the
\* state is by now.
TimesOut(t) ==
  /\ At(t, "asleep") \/ At(t, "woken")
  /\ mutex[thr[t].obj] = None
  /\ ReturnWith(t, FALSE)
  /\ UNCHANGED <<lockVars, fd_state_map, state, auxVars>>

-----------------------------------------------------------------------------
(* The users of the table.                                                 *)

Creating == {t \in App : thr[t].op = "opening" /\ thr[t].pc # "rpc"}

\* hvac_client_comm_gen_open_rpc, up to hvac_set_fd_opening.
BeginOpen(t, f) ==
  /\ phase[f] = "closed" /\ opens + Cardinality(Creating) < MaxOpens
  /\ Start(t, "opening", f)
  /\ phase' = [phase EXCEPT ![f] = "opening"]
  /\ UNCHANGED <<lockVars, fd_state_map, objVars, cur, outcome, fdOf, opens>>

\* HG_Forward, or hvac_set_fd_error when it is refused.
Forward(t) ==
  LET f == thr[t].fd
  IN  /\ At(t, "rpc") /\ phase[f] = "opening"
      /\ \/ phase' = [phase EXCEPT ![f] = "sent"] /\ UNCHANGED <<thr, outcome>>
         \/ /\ Enter(t, "refused", f)
            /\ outcome' = [outcome EXCEPT ![cur[f]] = "failed"]
            /\ UNCHANGED phase
      /\ UNCHANGED <<lockVars, fd_state_map, objVars, cur, fdOf, opens>>

\* hvac_open_cb, up to hvac_set_fd_ready or hvac_set_fd_error.
RunCallback(t, f) ==
  /\ phase[f] = "sent"
  /\ phase' = [phase EXCEPT ![f] = "called"]
  /\ \E ok \in BOOLEAN :
       /\ Start(t, IF ok THEN "ready" ELSE "error", f)
       /\ outcome' = [outcome EXCEPT ![cur[f]] = IF ok THEN "ok" ELSE "failed"]
  /\ UNCHANGED <<lockVars, fd_state_map, objVars, cur, fdOf, opens>>

\* The table's operation is over.  The callback then signals the thread in
\* gen_open_rpc; a refused open returns.
Return(t) ==
  /\ At(t, "return")
  /\ thr' = [thr EXCEPT ![t] = Idle]
  /\ phase' = IF thr[t].op = "wait" THEN phase
              ELSE [phase EXCEPT ![thr[t].fd] =
                      IF thr[t].op = "refused" THEN "open" ELSE "signalled"]
  /\ UNCHANGED <<lockVars, fd_state_map, objVars, cur, outcome, fdOf, opens>>

\* hvac_wait_for_operation ends, and open() returns.
OpenReturns(t) ==
  /\ At(t, "rpc") /\ phase[thr[t].fd] = "signalled"
  /\ thr' = [thr EXCEPT ![t] = Idle]
  /\ phase' = [phase EXCEPT ![thr[t].fd] = "open"]
  /\ UNCHANGED <<lockVars, fd_state_map, objVars, cur, outcome, fdOf, opens>>

\* hvac_client_comm_gen_read_rpc, at any time.
BeginWait(t, f) ==
  /\ Start(t, "wait", f)
  /\ UNCHANGED <<lockVars, fd_state_map, objVars, auxVars>>

\* hvac_client_comm_gen_close_rpc.
BeginCleanup(t, f) ==
  /\ phase[f] = "open"
  /\ Start(t, "cleanup", f)
  /\ phase' = [phase EXCEPT ![f] = "closing"]
  /\ UNCHANGED <<lockVars, fd_state_map, objVars, cur, outcome, fdOf, opens>>

-----------------------------------------------------------------------------
\* The steps of a thread that has the table's code to run.
Step(t) ==
  \/ init_fd_state_rwlocks(t) \/ LockShard(t)
  \/ hvac_set_fd_opening(t) \/ hvac_get_fd_status(t)
  \/ hvac_cleanup_fd_state(t) \/ hvac_set_fd_state(t)
  \/ CheckState(t) \/ FallsAsleep(t) \/ WaitLoop(t) \/ Return(t)

Users(t) ==
  \/ \E f \in Fd : \/ t \in App /\ BeginOpen(t, f)
                   \/ t \in App /\ BeginWait(t, f)
                   \/ t \in App /\ BeginCleanup(t, f)
                   \/ t \in Progress /\ RunCallback(t, f)
  \/ Forward(t) \/ OpenReturns(t)

Next == \E t \in Thread : Step(t) \/ TimesOut(t) \/ Users(t)

Spec == Init /\ [][Next]_vars

\* A thread inside the table runs, gets a lock that is free again and
\* again, and times out once its deadline has passed.  No call need be made
\* and no RPC answered.
Fairness ==
  /\ \A t \in Thread : SF_vars(Step(t))
  /\ \A t \in App : SF_vars(TimesOut(t))

FairSpec == Spec /\ Fairness

-----------------------------------------------------------------------------
(* Properties.                                                             *)

\* An open of f, the one that created object o or a later one, succeeded.
Opened(f, o) == \E p \in Obj : p >= o /\ fdOf[p] = f /\ outcome[p] = "ok"

\* hvac_wait_fd_ready says TRUE only if an open of that descriptor succeeded
\* since the object it waits on was created: never for an open that failed,
\* nor for one of an earlier user of the descriptor, whatever lookups,
\* insertions and deletions in the shared map a race makes miss.
WaitReportsTheOpen ==
  \A t \in Thread :
    thr[t].op = "wait" /\ thr[t].ret => Opened(thr[t].fd, thr[t].obj)

\* No thread sleeps on an object whose state is decided: the broadcast
\* cannot fall between the test of the state and the wait.
NoMissedBroadcast ==
  \A t \in Thread : thr[t].pc = "asleep" => state[thr[t].obj] = "opening"

\* While one thread modifies the map no other thread of the same shard is
\* inside it, as long as the locks were not initialised under a holder.
ShardExclusion ==
  ~undefined =>
    \A t, u \in Thread :
      /\ InMap(t) /\ Conflict(t, u)
      => ShardOf(thr[t].fd) # ShardOf(thr[u].fd)

\* Every wait ends, though the callback may be late, fail to find the object
\* or never come; and no waiter keeps the progress thread, which runs every
\* callback of the process, from finishing hvac_set_fd_ready or _error.
WaitsAndCallbacksEnd ==
  \A t \in Thread :
    thr[t].op \in {"wait", "ready", "error"}
      ~> thr[t].op \notin {"wait", "ready", "error"} \/ undefined

\* "File descriptor state management to prevent race conditions": no thread
\* modifies fd_state_map while another is inside it.
MapExclusion == \A t, u \in Thread : ~(InMap(t) /\ Conflict(t, u))
=============================================================================
