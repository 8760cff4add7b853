---------------------------- MODULE TimerProofs ----------------------------
(***************************************************************************)
(* Proofs about Timer, for any number of threads, tags and calls: the      *)
(* mutex makes every report one snapshot of the tables.                    *)
(***************************************************************************)
EXTENDS Timer, SequenceTheorems, FiniteSetTheorems, TLAPS

ThreadType ==
  [pc : {"idle", "total", "calls", "history", "rows", "exported"},
   tag : Tag \cup {None}, us : Duration \cup {0}, todo : SUBSET Tag,
   rows : [Tag -> Stat], out : Seq(Duration)]

\* Whoever is in a critical section holds the mutex, and knows its tag.
MutexInv ==
  \A t \in Thread :
    /\ thr[t].pc # "idle" => mutex = t
    /\ thr[t].pc \in {"total", "calls", "history", "exported"} => thr[t].tag \in Tag
    /\ thr[t].pc \in {"total", "calls", "history"} => thr[t].us \in Duration

\* The rows written so far are those of the table.
RowsInv ==
  \A t \in Thread :
    thr[t].pc = "rows" => \A k \in Tag \ thr[t].todo : thr[t].rows[k] = table[k]

\* What the holder of the mutex has added to the columns of tag k for a call
\* that is not in log[k] yet.
Recording(k, pcs) ==
  mutex \in Thread /\ thr[mutex].pc \in pcs /\ thr[mutex].tag = k
Counted(k) == IF Recording(k, {"history"}) THEN 1 ELSE 0
Added(k) == IF Recording(k, {"calls", "history"}) THEN thr[mutex].us ELSE 0

CallsInv == \A k \in Tag : table[k].calls = Len(log[k]) + Counted(k)

\* A tag that was never enabled has no history; one that is enabled, and was
\* never disabled, has that of the calls since.
HistoryInv(k) ==
  /\ k \notin detailed \cup gaps => history[k] = <<>>
  /\ k \in detailed \ gaps
       => /\ from[k] <= Len(log[k])
          /\ history[k] = SubSeq(log[k], from[k] + 1, Len(log[k]))

ExportInv ==
  \A t \in Thread : thr[t].pc = "exported" => thr[t].out = history[thr[t].tag]

HistoriesInv == ExportInv /\ \A k \in Tag : HistoryInv(k)

-----------------------------------------------------------------------------
(* Types and the mutex.                                                    *)

LEMMA Types ==
  TypeOK => /\ thr \in [Thread -> ThreadType] /\ table \in [Tag -> Stat]
            /\ Idle \in ThreadType /\ NoRows \in [Tag -> Stat]
<1>1. NoStat \in Stat /\ NoRows \in [Tag -> Stat]
  BY DEF NoStat, Stat, NoRows
<1>2. <<>> \in Seq(Duration)
  OBVIOUS
<1> QED
  BY <1>1, <1>2 DEF TypeOK, Idle, ThreadType

\* The step of a thread that holds the mutex, or takes or gives it back.
LEMMA MutexStep ==
  ASSUME TypeOK, MutexInv, NEW t \in Thread, NEW r \in ThreadType,
         thr' = [thr EXCEPT ![t] = r], mutex \in {None, t},
         mutex' = IF r.pc = "idle" THEN None ELSE t,
         r.pc \in {"total", "calls", "history", "exported"} => r.tag \in Tag,
         r.pc \in {"total", "calls", "history"} => r.us \in Duration
  PROVE  /\ MutexInv' /\ mutex' \in Thread \cup {None}
         /\ thr' \in [Thread -> ThreadType] /\ thr'[t] = r
         /\ \A u \in Thread : u # t => thr'[u] = thr[u] /\ thr[u].pc = "idle"
<1>1. /\ thr' \in [Thread -> ThreadType] /\ thr'[t] = r
      /\ \A u \in Thread : u # t => thr'[u] = thr[u]
  BY Types
<1>2. \A u \in Thread : u # t => thr[u].pc = "idle"
  BY TimerConstants DEF MutexInv
<1> QED
  BY <1>1, <1>2 DEF MutexInv

\* What a step does, seen from the thread that takes it: records, reports and
\* the operations that find everybody idle.
Moves(t, r) ==
  /\ thr' = [thr EXCEPT ![t] = r] /\ mutex \in {None, t}
  /\ mutex' = IF r.pc = "idle" THEN None ELSE t
  /\ r.pc \in {"total", "calls", "history", "exported"} => r.tag \in Tag
  /\ r.pc \in {"total", "calls", "history"} => r.us \in Duration

LEMMA EndMoves ==
  ASSUME TypeOK, MutexInv, NEW t \in Thread, NEW k \in Tag, NEW us \in Duration,
         End(t, k, us)
  PROVE  \E r \in ThreadType : /\ Moves(t, r) /\ r.pc = "total"
                               /\ r.tag = k /\ r.us = us
<1> DEFINE r == [thr[t] EXCEPT !.pc = "total", !.tag = k, !.us = us]
<1>1. thr[t] \in ThreadType
  BY Types
<1>2. r \in ThreadType /\ r.pc = "total" /\ r.tag = k /\ r.us = us
  BY <1>1 DEF ThreadType
<1>3. thr' = [thr EXCEPT ![t] = r] /\ mutex = None /\ mutex' = t
  BY DEF End, Lock
<1> QED
  BY <1>2, <1>3 DEF Moves

LEMMA AddMoves ==
  ASSUME TypeOK, MutexInv, NEW t \in Thread, NEW pc \in {"calls", "history"},
         thr[t].pc \in {"total", "calls"}, Goto(t, pc), UNCHANGED mutex
  PROVE  \E r \in ThreadType : /\ Moves(t, r) /\ r.pc = pc
                               /\ r.tag = thr[t].tag /\ r.us = thr[t].us
<1> DEFINE r == [thr[t] EXCEPT !.pc = pc]
<1>1. thr[t] \in ThreadType /\ mutex = t /\ thr[t].tag \in Tag /\ thr[t].us \in Duration
  BY Types DEF MutexInv
<1>2. r \in ThreadType /\ r.pc = pc /\ r.tag = thr[t].tag /\ r.us = thr[t].us
  BY <1>1 DEF ThreadType
<1>3. thr' = [thr EXCEPT ![t] = r]
  BY DEF Goto
<1> QED
  BY <1>1, <1>2, <1>3 DEF Moves

LEMMA IdleMoves ==
  ASSUME TypeOK, MutexInv, NEW t \in Thread, AddHistory(t) \/ ReportDone(t)
  PROVE  Idle \in ThreadType /\ Moves(t, Idle) /\ Idle.pc = "idle" /\ mutex = t
<1>1. thr[t].pc # "idle" /\ thr' = [thr EXCEPT ![t] = Idle] /\ mutex' = None
  BY DEF AddHistory, ReportDone, At, Unlock
<1>2. mutex = t /\ Idle \in ThreadType /\ Idle.pc = "idle"
  BY <1>1, Types DEF MutexInv, Idle
<1> QED
  BY <1>1, <1>2 DEF Moves

LEMMA ReportMoves ==
  ASSUME TypeOK, MutexInv, NEW t \in Thread, print_all_stats(t)
  PROVE  \E r \in ThreadType : Moves(t, r) /\ r.pc = "rows" /\ r.todo = Tag
<1> DEFINE r == [thr[t] EXCEPT !.pc = "rows", !.todo = Tag]
<1>1. thr[t] \in ThreadType
  BY Types
<1>2. r \in ThreadType /\ r.pc = "rows" /\ r.todo = Tag
  BY <1>1 DEF ThreadType
<1>3. thr' = [thr EXCEPT ![t] = r] /\ mutex = None /\ mutex' = t
  BY DEF print_all_stats, Lock
<1> QED
  BY <1>2, <1>3 DEF Moves

LEMMA RowMoves ==
  ASSUME TypeOK, MutexInv, NEW t \in Thread, Row(t)
  PROVE  \E r \in ThreadType, k \in thr[t].todo :
           /\ Moves(t, r) /\ r.pc = "rows" /\ thr[t].pc = "rows"
           /\ r.todo = thr[t].todo \ {k}
           /\ r.rows = [thr[t].rows EXCEPT ![k] = table[k]]
<1>1. PICK k \in thr[t].todo :
        thr' = [thr EXCEPT ![t].todo = @ \ {k}, ![t].rows[k] = table[k]]
  BY DEF Row
<1> DEFINE r == [thr[t] EXCEPT !.todo = @ \ {k}, !.rows[k] = table[k]]
<1>2. /\ thr[t] \in ThreadType /\ mutex = t /\ thr[t].pc = "rows" /\ mutex' = t
      /\ table \in [Tag -> Stat]
  BY Types DEF MutexInv, Row, At
<1>3. /\ r \in ThreadType /\ r.pc = "rows" /\ r.todo = thr[t].todo \ {k}
      /\ r.rows = [thr[t].rows EXCEPT ![k] = table[k]]
  BY <1>2 DEF ThreadType
<1>4. thr' = [thr EXCEPT ![t] = r]
  BY <1>1
<1> QED
  BY <1>2, <1>3, <1>4 DEF Moves

LEMMA ExportMoves ==
  ASSUME TypeOK, MutexInv, NEW t \in Thread, NEW k \in Tag,
         export_tag_call_history(t, k)
  PROVE  \E r \in ThreadType : /\ Moves(t, r) /\ r.pc = "exported"
                               /\ r.tag = k /\ r.out = history[k]
<1> DEFINE r == [thr[t] EXCEPT !.pc = "exported", !.tag = k, !.out = history[k]]
<1>1. thr[t] \in ThreadType /\ history[k] \in Seq(Duration)
  BY Types DEF TypeOK
<1>2. r \in ThreadType /\ r.pc = "exported" /\ r.tag = k /\ r.out = history[k]
  BY <1>1 DEF ThreadType
<1>3. thr' = [thr EXCEPT ![t] = r] /\ mutex = None /\ mutex' = t
  BY DEF export_tag_call_history, Lock
<1> QED
  BY <1>2, <1>3 DEF Moves

\* A step of a thread follows the discipline of the mutex.
LEMMA MovesKeep ==
  ASSUME TypeOK, MutexInv, NEW t \in Thread, NEW r \in ThreadType, Moves(t, r)
  PROVE  /\ MutexInv' /\ mutex' \in Thread \cup {None}
         /\ thr' \in [Thread -> ThreadType] /\ thr'[t] = r
         /\ \A u \in Thread : u # t => thr'[u] = thr[u] /\ thr[u].pc = "idle"
BY MutexStep DEF Moves

\* The steps that change neither a table nor the calls recorded.
Reports(t) ==
  \/ \E k \in Tag, us \in Duration : End(t, k, us)
  \/ print_all_stats(t) \/ Row(t) \/ ReportDone(t)
  \/ \E k \in Tag : export_tag_call_history(t, k)

\* The operations that are one critical section.
Operates(t) ==
  \/ reset_all_stats(t)
  \/ \E k \in Tag : \/ enable_detailed_call_logging_for_tag(t, k)
                    \/ disable_detailed_call_logging_for_tag(t, k)

LEMMA NextCases ==
  Next => \E t \in Thread : \/ Reports(t) \/ Operates(t)
                            \/ AddTotal(t) \/ AddCall(t) \/ AddHistory(t)
BY DEF Next, Reports, Operates, export_all_stats_to_file,
   hvac_trigger_srv_print_stats_handler

\* What a thread that reports, or starts to record, does.
Reporting(t, r) ==
  /\ Moves(t, r)
  /\ thr[t].pc \notin {"calls", "history"} /\ r.pc \notin {"calls", "history"}
  /\ r.pc = "exported" => r.out = history[r.tag]
  /\ RowsInv /\ r.pc = "rows" => \A k \in Tag \ r.todo : r.rows[k] = table[k]

LEMMA ReportsMove ==
  ASSUME TypeOK, MutexInv, NEW t \in Thread, Reports(t)
  PROVE  /\ UNCHANGED <<table, history, detailed, log, from, gaps>>
         /\ \E r \in ThreadType : Reporting(t, r)
<1>1. /\ UNCHANGED <<table, history, detailed, log, from, gaps>>
      /\ thr[t].pc \notin {"calls", "history"}
  BY DEF Reports, End, print_all_stats, Row, ReportDone, export_tag_call_history,
     tables, auxVars, At
<1>2. \E r \in ThreadType : Reporting(t, r)
  <2>1. CASE \E k \in Tag, us \in Duration : End(t, k, us)
    BY <1>1, <2>1, EndMoves DEF Reporting
  <2>2. CASE print_all_stats(t)
    BY <1>1, <2>2, ReportMoves DEF Reporting
  <2>3. CASE Row(t)
    <3>1. PICK r \in ThreadType, k \in thr[t].todo :
           /\ Moves(t, r) /\ r.pc = "rows" /\ thr[t].pc = "rows"
           /\ r.todo = thr[t].todo \ {k}
           /\ r.rows = [thr[t].rows EXCEPT ![k] = table[k]]
      BY <2>3, RowMoves
    <3>2. thr[t].todo \subseteq Tag /\ thr[t].rows \in [Tag -> Stat]
      BY Types DEF ThreadType
    <3>3. RowsInv => \A j \in Tag \ r.todo : r.rows[j] = table[j]
      BY <3>1, <3>2 DEF RowsInv
    <3> QED
      BY <1>1, <3>1, <3>3 DEF Reporting
  <2>4. CASE ReportDone(t)
    BY <1>1, <2>4, IdleMoves DEF Reporting
  <2>5. CASE \E k \in Tag : export_tag_call_history(t, k)
    BY <1>1, <2>5, ExportMoves DEF Reporting
  <2> QED
    BY <2>1, <2>2, <2>3, <2>4, <2>5 DEF Reports
<1> QED
  BY <1>1, <1>2

LEMMA OperatesIdle ==
  ASSUME TypeOK, MutexInv, NEW t \in Thread, Operates(t)
  PROVE  /\ mutex = None /\ UNCHANGED <<mutex, thr>>
         /\ \A u \in Thread : thr[u].pc = "idle"
         /\ table' \in [Tag -> Stat] /\ history' \in [Tag -> Seq(Duration)]
         /\ detailed' \in SUBSET Tag /\ log' \in [Tag -> Seq(Duration)]
         /\ from' \in [Tag -> Nat] /\ gaps' \in SUBSET Tag
<1>1. mutex = None /\ UNCHANGED <<mutex, thr>>
  BY DEF Operates, reset_all_stats, enable_detailed_call_logging_for_tag,
     disable_detailed_call_logging_for_tag
<1>2. \A u \in Thread : thr[u].pc = "idle"
  BY <1>1, TimerConstants DEF MutexInv
<1>3. /\ table \in [Tag -> Stat] /\ history \in [Tag -> Seq(Duration)]
      /\ detailed \in SUBSET Tag /\ log \in [Tag -> Seq(Duration)]
      /\ from \in [Tag -> Nat] /\ gaps \in SUBSET Tag
      /\ NoRows \in [Tag -> Stat]
  BY Types DEF TypeOK
<1>4. CASE reset_all_stats(t)
  <2>1. <<>> \in Seq(Duration)
    OBVIOUS
  <2> QED
    BY <1>1, <1>2, <1>3, <1>4, <2>1 DEF reset_all_stats
<1>5. ASSUME NEW k \in Tag, enable_detailed_call_logging_for_tag(t, k)
      PROVE  /\ detailed' \in SUBSET Tag /\ from' \in [Tag -> Nat]
             /\ UNCHANGED <<table, history, log, gaps>>
  <2>1. Len(log[k]) \in Nat
    BY <1>3
  <2> QED
    BY <1>3, <1>5, <2>1 DEF enable_detailed_call_logging_for_tag
<1>6. ASSUME NEW k \in Tag, disable_detailed_call_logging_for_tag(t, k)
      PROVE  /\ detailed' \in SUBSET Tag /\ gaps' \in SUBSET Tag
             /\ UNCHANGED <<table, history, log, from>>
  BY <1>3, <1>6 DEF disable_detailed_call_logging_for_tag
<1> QED
  BY <1>1, <1>2, <1>3, <1>4, <1>5, <1>6 DEF Operates

\* The two columns of a row.
LEMMA AddTotalIs ==
  ASSUME TypeOK, MutexInv, NEW t \in Thread, AddTotal(t)
  PROVE  \E k \in Tag, r \in ThreadType :
           /\ mutex = t /\ thr[t].tag = k /\ thr[t].pc = "total"
           /\ Moves(t, r) /\ r.pc = "calls" /\ r.tag = k /\ r.us = thr[t].us
           /\ table' \in [Tag -> Stat]
           /\ table'[k].total = table[k].total + thr[t].us
           /\ table'[k].calls = table[k].calls
           /\ \A j \in Tag \ {k} : table'[j] = table[j]
           /\ UNCHANGED <<history, detailed, log, from, gaps>>
<1>1. /\ thr[t].pc = "total" /\ Goto(t, "calls")
      /\ UNCHANGED <<mutex, history, detailed, log, from, gaps>>
  BY DEF AddTotal, At, auxVars
<1>2. PICK k \in Tag : k = thr[t].tag
  BY <1>1 DEF MutexInv
<1>3. mutex = t /\ thr[t].us \in Nat /\ table \in [Tag -> Stat]
  BY <1>1, Types, TimerConstants DEF MutexInv
<1>4. table' = [table EXCEPT ![k].total = @ + thr[t].us]
  BY <1>2 DEF AddTotal
<1>5. /\ table' \in [Tag -> Stat]
      /\ table'[k].total = table[k].total + thr[t].us
      /\ table'[k].calls = table[k].calls
      /\ \A j \in Tag \ {k} : table'[j] = table[j]
  BY <1>3, <1>4 DEF Stat
<1>6. PICK r \in ThreadType : /\ Moves(t, r) /\ r.pc = "calls"
                              /\ r.tag = thr[t].tag /\ r.us = thr[t].us
  BY <1>1, AddMoves
<1> QED
  BY <1>1, <1>2, <1>3, <1>5, <1>6

LEMMA AddCallIs ==
  ASSUME TypeOK, MutexInv, NEW t \in Thread, AddCall(t)
  PROVE  \E k \in Tag, r \in ThreadType :
           /\ mutex = t /\ thr[t].tag = k /\ thr[t].pc = "calls"
           /\ Moves(t, r) /\ r.pc = "history" /\ r.tag = k /\ r.us = thr[t].us
           /\ table' \in [Tag -> Stat]
           /\ table'[k].calls = table[k].calls + 1
           /\ table'[k].total = table[k].total
           /\ \A j \in Tag \ {k} : table'[j] = table[j]
           /\ UNCHANGED <<history, detailed, log, from, gaps>>
<1>1. /\ thr[t].pc = "calls" /\ Goto(t, "history")
      /\ UNCHANGED <<mutex, history, detailed, log, from, gaps>>
  BY DEF AddCall, At, auxVars
<1>2. PICK k \in Tag : k = thr[t].tag
  BY <1>1 DEF MutexInv
<1>3. mutex = t /\ table \in [Tag -> Stat]
  BY <1>1, Types DEF MutexInv
<1>4. table' = [table EXCEPT ![k].calls = @ + 1]
  BY <1>2 DEF AddCall
<1>5. /\ table' \in [Tag -> Stat]
      /\ table'[k].calls = table[k].calls + 1
      /\ table'[k].total = table[k].total
      /\ \A j \in Tag \ {k} : table'[j] = table[j]
  BY <1>3, <1>4 DEF Stat
<1>6. PICK r \in ThreadType : /\ Moves(t, r) /\ r.pc = "history"
                              /\ r.tag = thr[t].tag /\ r.us = thr[t].us
  BY <1>1, AddMoves
<1> QED
  BY <1>1, <1>2, <1>3, <1>5, <1>6

\* push_back, and the end of the guard.
LEMMA AddHistoryIs ==
  ASSUME TypeOK, MutexInv, NEW t \in Thread, AddHistory(t)
  PROVE  \E k \in Tag, us \in Duration :
           /\ mutex = t /\ thr[t].tag = k /\ thr[t].us = us /\ thr[t].pc = "history"
           /\ Moves(t, Idle) /\ Idle \in ThreadType /\ Idle.pc = "idle"
           /\ log' \in [Tag -> Seq(Duration)] /\ history' \in [Tag -> Seq(Duration)]
           /\ log'[k] = Append(log[k], us)
           /\ history'[k] = IF k \in detailed THEN Append(history[k], us)
                            ELSE history[k]
           /\ \A j \in Tag \ {k} : log'[j] = log[j] /\ history'[j] = history[j]
           /\ UNCHANGED <<table, detailed, from, gaps>>
<1>1. thr[t].pc = "history" /\ UNCHANGED <<table, detailed, from, gaps>>
  BY DEF AddHistory, At
<1>2. PICK k \in Tag : k = thr[t].tag
  BY <1>1 DEF MutexInv
<1>3. PICK us \in Duration : us = thr[t].us
  BY <1>1 DEF MutexInv
<1>4. log \in [Tag -> Seq(Duration)] /\ history \in [Tag -> Seq(Duration)]
  BY DEF TypeOK
<1>5. /\ log' = [log EXCEPT ![k] = Append(log[k], us)]
      /\ history' = IF k \in detailed
                    THEN [history EXCEPT ![k] = Append(history[k], us)]
                    ELSE history
  BY <1>2, <1>3 DEF AddHistory
<1>6. Append(log[k], us) \in Seq(Duration) /\ Append(history[k], us) \in Seq(Duration)
  BY <1>4
<1>7. /\ log' \in [Tag -> Seq(Duration)] /\ history' \in [Tag -> Seq(Duration)]
      /\ log'[k] = Append(log[k], us)
      /\ history'[k] = IF k \in detailed THEN Append(history[k], us)
                       ELSE history[k]
      /\ \A j \in Tag \ {k} : log'[j] = log[j] /\ history'[j] = history[j]
  BY <1>4, <1>5, <1>6
<1> QED
  BY <1>1, <1>2, <1>3, <1>7, IdleMoves

LEMMA NextTypes == TypeOK /\ MutexInv /\ [Next]_vars => TypeOK' /\ MutexInv'
<1> SUFFICES ASSUME TypeOK, MutexInv, [Next]_vars PROVE TypeOK' /\ MutexInv'
  OBVIOUS
<1>0. /\ table \in [Tag -> Stat] /\ history \in [Tag -> Seq(Duration)]
      /\ detailed \in SUBSET Tag /\ log \in [Tag -> Seq(Duration)]
      /\ from \in [Tag -> Nat] /\ gaps \in SUBSET Tag
      /\ thr \in [Thread -> ThreadType] /\ mutex \in Thread \cup {None}
  BY Types DEF TypeOK
<1>1. CASE UNCHANGED vars
  BY <1>1 DEF vars, tables, auxVars, TypeOK, MutexInv
<1>2. ASSUME NEW t \in Thread, Reports(t) PROVE TypeOK' /\ MutexInv'
  <2>1. PICK r \in ThreadType : Moves(t, r)
    BY <1>2, ReportsMove DEF Reporting
  <2>2. MutexInv' /\ mutex' \in Thread \cup {None} /\ thr' \in [Thread -> ThreadType]
    BY <2>1, MovesKeep
  <2>3. UNCHANGED <<table, history, detailed, log, from, gaps>>
    BY <1>2, ReportsMove
  <2> QED
    BY <1>0, <2>2, <2>3 DEF TypeOK, ThreadType
<1>3. ASSUME NEW t \in Thread, Operates(t) PROVE TypeOK' /\ MutexInv'
  BY <1>0, <1>3, OperatesIdle DEF TypeOK, ThreadType, MutexInv
<1>4. ASSUME NEW t \in Thread, AddTotal(t) \/ AddCall(t) PROVE TypeOK' /\ MutexInv'
  <2>1. PICK r \in ThreadType :
          /\ Moves(t, r) /\ table' \in [Tag -> Stat]
          /\ UNCHANGED <<history, detailed, log, from, gaps>>
    BY <1>4, AddTotalIs, AddCallIs
  <2>2. MutexInv' /\ mutex' \in Thread \cup {None} /\ thr' \in [Thread -> ThreadType]
    BY <2>1, MovesKeep
  <2> QED
    BY <1>0, <2>1, <2>2 DEF TypeOK, ThreadType
<1>5. ASSUME NEW t \in Thread, AddHistory(t) PROVE TypeOK' /\ MutexInv'
  <2>1. /\ Moves(t, Idle) /\ Idle \in ThreadType
        /\ log' \in [Tag -> Seq(Duration)] /\ history' \in [Tag -> Seq(Duration)]
        /\ UNCHANGED <<table, detailed, from, gaps>>
    BY <1>5, AddHistoryIs
  <2>2. MutexInv' /\ mutex' \in Thread \cup {None} /\ thr' \in [Thread -> ThreadType]
    BY <2>1, MovesKeep
  <2> QED
    BY <1>0, <2>1, <2>2 DEF TypeOK, ThreadType
<1> QED
  BY <1>1, <1>2, <1>3, <1>4, <1>5, NextCases

LEMMA InitTypes == Init => TypeOK /\ MutexInv
<1> SUFFICES ASSUME Init PROVE TypeOK /\ MutexInv
  OBVIOUS
<1>1. NoStat \in Stat /\ NoRows \in [Tag -> Stat] /\ <<>> \in Seq(Duration)
  BY DEF NoStat, Stat, NoRows
<1> QED
  BY <1>1 DEF Init, TypeOK, MutexInv, Idle

\* TypeOK is an invariant.
THEOREM TypeCorrect == Spec => []TypeOK
<1> QED
  BY InitTypes, NextTypes, PTL DEF Spec

-----------------------------------------------------------------------------
(* The histories.                                                          *)

\* One more call, and one more entry.
LEMMA SubSeqAppend ==
  ASSUME NEW S, NEW s \in Seq(S), NEW x \in S, NEW n \in 0 .. Len(s)
  PROVE  SubSeq(Append(s, x), n + 1, Len(Append(s, x)))
           = Append(SubSeq(s, n + 1, Len(s)), x)
<1> DEFINE a == Append(s, x)
           l == SubSeq(a, n + 1, Len(a))
           b == SubSeq(s, n + 1, Len(s))
<1>1. /\ Len(s) \in Nat /\ n \in Int /\ 0 <= n /\ n <= Len(s)
      /\ a \in Seq(S) /\ Len(a) = Len(s) + 1 /\ a[Len(s) + 1] = x
      /\ \A i \in 1 .. Len(s) : a[i] = s[i] /\ s[i] \in S
      /\ \A i \in 1 .. Len(a) : a[i] \in S
  OBVIOUS
<1> HIDE DEF a
<1>2. /\ b \in Seq(S) /\ Len(b) = Len(s) - n
      /\ \A i \in 1 .. Len(s) - n : b[i] = s[n + i]
  <2>1. n + 1 \in Int /\ Len(s) \in Int /\ \A i \in n + 1 .. Len(s) : s[i] \in S
    BY <1>1
  <2>2. /\ b \in Seq(S)
        /\ Len(b) = IF n + 1 <= Len(s) THEN Len(s) - (n + 1) + 1 ELSE 0
        /\ \A i \in 1 .. Len(s) - (n + 1) + 1 : b[i] = s[(n + 1) + i - 1]
    BY <2>1, SubSeqProperties
  <2> QED
    BY <1>1, <2>2
<1>3. /\ l \in Seq(S) /\ Len(l) = Len(s) - n + 1
      /\ \A i \in 1 .. Len(s) - n + 1 : l[i] = a[n + i]
  <2>1. n + 1 \in Int /\ Len(a) \in Int /\ \A i \in n + 1 .. Len(a) : a[i] \in S
    BY <1>1
  <2>2. /\ l \in Seq(S)
        /\ Len(l) = IF n + 1 <= Len(a) THEN Len(a) - (n + 1) + 1 ELSE 0
        /\ \A i \in 1 .. Len(a) - (n + 1) + 1 : l[i] = a[(n + 1) + i - 1]
    BY <2>1, SubSeqProperties
  <2> QED
    BY <1>1, <2>2
<1> HIDE DEF l, b
<1>4. /\ Append(b, x) \in Seq(S) /\ Len(Append(b, x)) = Len(b) + 1
      /\ Append(b, x)[Len(b) + 1] = x
      /\ \A i \in 1 .. Len(b) : Append(b, x)[i] = b[i]
  BY <1>2
<1>5. Len(l) = Len(Append(b, x))
  BY <1>1, <1>2, <1>3, <1>4
<1>6. ASSUME NEW i \in 1 .. Len(l) PROVE l[i] = Append(b, x)[i]
  <2>1. i \in Int /\ 1 <= i /\ i <= Len(b) + 1 /\ Len(b) \in Int
        /\ Len(b) = Len(s) - n /\ l[i] = a[n + i]
    BY <1>1, <1>2, <1>3
  <2>2. CASE i = Len(b) + 1
    <3>1. n + i = Len(s) + 1
      BY <1>1, <2>1, <2>2
    <3> QED
      BY <1>1, <1>4, <2>1, <2>2, <3>1
  <2>3. CASE i # Len(b) + 1
    <3>1. i \in 1 .. Len(b) /\ i \in 1 .. Len(s) - n /\ n + i \in 1 .. Len(s)
      BY <1>1, <2>1, <2>3
    <3>2. Append(b, x)[i] = b[i] /\ b[i] = s[n + i] /\ a[n + i] = s[n + i]
      BY <1>1, <1>2, <1>4, <3>1
    <3> QED
      BY <2>1, <3>2
  <2> QED
    BY <2>2, <2>3
<1>7. l = Append(b, x)
  BY <1>3, <1>4, <1>5, <1>6, SeqEqual
<1> QED
  BY <1>7 DEF l, b, a

LEMMA OperatesHistories ==
  ASSUME TypeOK, MutexInv, HistoriesInv, NEW t \in Thread, Operates(t)
  PROVE  HistoriesInv'
<1>1. thr' = thr /\ \A u \in Thread : thr[u].pc = "idle"
  BY OperatesIdle
<1>2. ExportInv'
  BY <1>1 DEF ExportInv
<1>3. ASSUME NEW k \in Tag PROVE HistoryInv(k)'
  <2>0. HistoryInv(k) /\ log[k] \in Seq(Duration)
    BY DEF HistoriesInv, TypeOK
  <2>1. CASE reset_all_stats(t)
    <3>1. /\ history'[k] = IF k \in detailed THEN <<>> ELSE history[k]
          /\ log'[k] = <<>> /\ from'[k] = 0 /\ UNCHANGED <<detailed, gaps>>
      BY <2>1 DEF reset_all_stats
    <3>2. Len(log'[k]) = 0 /\ SubSeq(log'[k], 0 + 1, 0) = <<>>
      BY <3>1, SubSeqEmpty
    <3> QED
      BY <2>0, <3>1, <3>2 DEF HistoryInv
  <2>2. ASSUME NEW j \in Tag, enable_detailed_call_logging_for_tag(t, j)
        PROVE  HistoryInv(k)'
    <3>1. /\ detailed' = detailed \cup {j} /\ UNCHANGED <<history, log, gaps>>
          /\ from' = IF j \in detailed THEN from
                     ELSE [from EXCEPT ![j] = Len(log[j])]
      BY <2>2 DEF enable_detailed_call_logging_for_tag
    <3>2. CASE k # j \/ k \in detailed
      <4>1. from'[k] = from[k] /\ (k \in detailed' <=> k \in detailed)
        BY <3>1, <3>2 DEF TypeOK
      <4> QED
        BY <2>0, <3>1, <4>1 DEF HistoryInv
    <3>3. CASE k = j /\ k \notin detailed
      <4>1. from'[k] = Len(log[k]) /\ Len(log[k]) \in Nat
        BY <2>0, <3>1, <3>3 DEF TypeOK
      <4>2. SubSeq(log[k], Len(log[k]) + 1, Len(log[k])) = <<>>
        BY <4>1, SubSeqEmpty
      <4>3. k \notin gaps => history[k] = <<>>
        BY <2>0, <3>3 DEF HistoryInv
      <4>4. /\ k \in detailed' /\ log'[k] = log[k] /\ history'[k] = history[k]
            /\ gaps' = gaps /\ from'[k] <= Len(log[k])
        BY <3>1, <3>3, <4>1
      <4> QED
        BY <4>1, <4>2, <4>3, <4>4 DEF HistoryInv
    <3> QED
      BY <3>2, <3>3
  <2>3. ASSUME NEW j \in Tag, disable_detailed_call_logging_for_tag(t, j)
        PROVE  HistoryInv(k)'
    BY <2>0, <2>3 DEF disable_detailed_call_logging_for_tag, HistoryInv
  <2> QED
    BY <2>1, <2>2, <2>3 DEF Operates
<1> QED
  BY <1>2, <1>3 DEF HistoriesInv

LEMMA NextHistories ==
  TypeOK /\ MutexInv /\ HistoriesInv /\ [Next]_vars => HistoriesInv'
<1> SUFFICES ASSUME TypeOK, MutexInv, HistoriesInv, [Next]_vars PROVE HistoriesInv'
  OBVIOUS
<1>1. CASE UNCHANGED vars
  BY <1>1 DEF vars, tables, auxVars, HistoriesInv, ExportInv, HistoryInv
<1>2. ASSUME NEW t \in Thread, Reports(t) PROVE HistoriesInv'
  <2>1. PICK r \in ThreadType :
          Moves(t, r) /\ (r.pc = "exported" => r.out = history[r.tag])
    BY <1>2, ReportsMove DEF Reporting
  <2>2. /\ thr'[t] = r
        /\ \A u \in Thread : u # t => thr'[u] = thr[u] /\ thr[u].pc = "idle"
    BY <2>1, MovesKeep
  <2>3. UNCHANGED <<history, detailed, log, from, gaps>>
    BY <1>2, ReportsMove
  <2>4. ExportInv'
    BY <2>1, <2>2, <2>3 DEF ExportInv
  <2> QED
    BY <2>3, <2>4 DEF HistoriesInv, HistoryInv
<1>3. ASSUME NEW t \in Thread, AddTotal(t) \/ AddCall(t) PROVE HistoriesInv'
  <2>1. PICK r \in ThreadType :
          /\ Moves(t, r) /\ r.pc \in {"calls", "history"}
          /\ UNCHANGED <<history, detailed, log, from, gaps>>
    BY <1>3, AddTotalIs, AddCallIs
  <2>2. /\ thr'[t] = r
        /\ \A u \in Thread : u # t => thr'[u] = thr[u] /\ thr[u].pc = "idle"
    BY <2>1, MovesKeep
  <2>3. ExportInv'
    BY <2>1, <2>2 DEF ExportInv
  <2> QED
    BY <2>1, <2>3 DEF HistoriesInv, HistoryInv
<1>4. ASSUME NEW t \in Thread, AddHistory(t) PROVE HistoriesInv'
  <2>1. PICK k \in Tag, us \in Duration :
           /\ Moves(t, Idle) /\ Idle \in ThreadType /\ Idle.pc = "idle"
           /\ log'[k] = Append(log[k], us)
           /\ history'[k] = IF k \in detailed THEN Append(history[k], us)
                            ELSE history[k]
           /\ \A j \in Tag \ {k} : log'[j] = log[j] /\ history'[j] = history[j]
           /\ UNCHANGED <<detailed, from, gaps>>
    BY <1>4, AddHistoryIs
  <2>2. \A u \in Thread : thr'[u].pc = "idle"
    BY <2>1, MovesKeep
  <2>3. ExportInv'
    BY <2>2 DEF ExportInv
  <2>4. ASSUME NEW j \in Tag PROVE HistoryInv(j)'
    <3>0. HistoryInv(j) /\ log[j] \in Seq(Duration) /\ from[j] \in Nat
      BY DEF HistoriesInv, TypeOK
    <3>1. CASE j # k
      BY <2>1, <3>0, <3>1 DEF HistoryInv
    <3>2. CASE j = k /\ j \in detailed \ gaps
      <4>1. PICK n \in 0 .. Len(log[k]) : n = from[k]
        BY <3>0, <3>2 DEF HistoryInv
      <4>2. SubSeq(Append(log[k], us), n + 1, Len(Append(log[k], us)))
              = Append(SubSeq(log[k], n + 1, Len(log[k])), us)
        BY <3>0, <3>2, SubSeqAppend
      <4>3. n <= Len(Append(log[k], us))
        BY <3>0, <3>2, <4>1
      <4>4. history[k] = SubSeq(log[k], n + 1, Len(log[k]))
        BY <3>0, <3>2, <4>1 DEF HistoryInv
      <4> QED
        BY <2>1, <3>2, <4>1, <4>2, <4>3, <4>4 DEF HistoryInv
    <3>3. CASE j = k /\ j \notin detailed \ gaps
      BY <2>1, <3>0, <3>3 DEF HistoryInv
    <3> QED
      BY <3>1, <3>2, <3>3
  <2> QED
    BY <2>3, <2>4 DEF HistoriesInv
<1> QED
  BY <1>1, <1>2, <1>3, <1>4, OperatesHistories, NextCases

\* The exported history of a tag that is enabled, and was never disabled, is
\* exactly the calls since the last reset (or since it was enabled), in the
\* order in which they were counted, however the threads interleave.
THEOREM HistoriesMatch == Spec => []HistoryMatchesCalls
<1>1. Init => TypeOK /\ MutexInv /\ HistoriesInv
  <2>1. Init => HistoriesInv
    BY DEF Init, HistoriesInv, ExportInv, HistoryInv, Idle
  <2> QED
    BY <2>1, InitTypes
<1>2. TypeOK /\ MutexInv /\ HistoriesInv /\ [Next]_vars
        => (TypeOK /\ MutexInv /\ HistoriesInv)'
  BY NextTypes, NextHistories
<1>3. MutexInv /\ HistoriesInv => HistoryMatchesCalls
  BY DEF MutexInv, HistoriesInv, ExportInv, HistoryInv, HistoryMatchesCalls
<1> QED
  BY <1>1, <1>2, <1>3, PTL DEF Spec

-----------------------------------------------------------------------------
(* What FoldSeq computes.  The induction is the least-number principle     *)
(* (WFMin) applied to sets of numbers: no operator is instantiated.        *)

\* A set of numbers that holds 0 and with n also n + 1 holds all of them.
LEMMA Induction ==
  ASSUME NEW B \in SUBSET Nat, 0 \in B, \A n \in B : n + 1 \in B
  PROVE  B = Nat
<1> DEFINE R == OpToRel(<, Nat)
           C == Nat \ B
<1>1. IsWellFoundedOn(R, Nat)
  BY NatLessThanWellFounded
<1>2. \A m, n \in Nat : m < n => <<m, n>> \in R
  BY DEF OpToRel
<1> HIDE DEF R
<1>3. SUFFICES ASSUME C # {} PROVE FALSE
  OBVIOUS
<1>4. PICK n \in C : \A m \in C : ~(<<m, n>> \in R)
  <2> HIDE DEF C
  <2>1. C \subseteq Nat
    BY DEF C
  <2> QED
    BY <1>1, <1>3, <2>1, WFMin
<1>5. n \in Nat /\ n # 0 /\ n - 1 \in Nat /\ n - 1 < n /\ (n - 1) + 1 = n
  OBVIOUS
<1>6. n - 1 \notin C
  BY <1>2, <1>4, <1>5
<1> QED
  BY <1>5, <1>6

Pick(T) == CHOOSE i \in T : TRUE

\* The recursion by which FoldSeq adds up s, over the sets of its indices.
AddUp(s, it) ==
  [T \in SUBSET DOMAIN s |-> IF T = {} THEN 0 ELSE s[Pick(T)] + it[T \ {Pick(T)}]]

Partial(s) == CHOOSE it : it = AddUp(s, it)

Total(s) == Partial(s)[DOMAIN s]

\* Index sets are finite, and lose one element to Pick.
LEMMA IndexSets ==
  ASSUME NEW s \in Seq(Nat), NEW T \in SUBSET DOMAIN s
  PROVE  /\ IsFiniteSet(T) /\ Cardinality(T) \in Nat
         /\ T # {} => /\ Cardinality(T) > 0
                      /\ \A i \in T : Cardinality(T \ {i}) = Cardinality(T) - 1
                      /\ Pick(T) \in T
         /\ \A i \in T : s[i] \in Nat
<1>1. DOMAIN s = 1 .. Len(s) /\ Len(s) \in Nat /\ \A i \in DOMAIN s : s[i] \in Nat
  OBVIOUS
<1>2. IsFiniteSet(DOMAIN s)
  BY <1>1, FS_Interval
<1>3. IsFiniteSet(T) /\ Cardinality(T) \in Nat
  BY <1>2, FS_Subset, FS_CardinalityType
<1>4. ASSUME T # {} PROVE Cardinality(T) # 0
  BY <1>3, <1>4, FS_EmptySet
<1>5. \A i \in T : Cardinality(T \ {i}) = Cardinality(T) - 1
  BY <1>3, FS_RemoveElement
<1>6. T # {} => Pick(T) \in T
  BY DEF Pick
<1> QED
  BY <1>1, <1>3, <1>4, <1>5, <1>6

\* The recursion has a solution: on the sets of at most n indices for every
\* n, hence on all of them.
Small(s, n) == {T \in SUBSET DOMAIN s : Cardinality(T) <= n}

Solves(s, n, g) ==
  /\ g \in [Small(s, n) -> Nat]
  /\ \A T \in Small(s, n) :
       g[T] = IF T = {} THEN 0 ELSE s[Pick(T)] + g[T \ {Pick(T)}]

LEMMA SolvesNone ==
  ASSUME NEW s \in Seq(Nat)
  PROVE  \E g : Solves(s, 0, g)
<1> DEFINE g == [T \in Small(s, 0) |-> 0]
<1>1. \A T \in Small(s, 0) : T = {}
  BY IndexSets DEF Small
<1>2. Solves(s, 0, g)
  BY <1>1 DEF Solves
<1> QED
  BY <1>2

LEMMA SolvesMore ==
  ASSUME NEW s \in Seq(Nat), NEW n \in Nat, NEW g, Solves(s, n, g)
  PROVE  \E h : Solves(s, n + 1, h)
<1> DEFINE Value(T) == IF T = {} THEN 0 ELSE s[Pick(T)] + g[T \ {Pick(T)}]
           h == [T \in Small(s, n + 1) |-> Value(T)]
<1>1. ASSUME NEW T \in Small(s, n + 1), T # {}
      PROVE  T \ {Pick(T)} \in Small(s, n) /\ s[Pick(T)] \in Nat
  <2>1. T \in SUBSET DOMAIN s /\ Cardinality(T) <= n + 1
    BY <1>1 DEF Small
  <2>2. /\ Cardinality(T) \in Nat /\ Pick(T) \in T /\ s[Pick(T)] \in Nat
        /\ Cardinality(T \ {Pick(T)}) = Cardinality(T) - 1
    BY <1>1, <2>1, IndexSets
  <2>3. Cardinality(T \ {Pick(T)}) <= n
    BY <2>1, <2>2
  <2> QED
    BY <2>1, <2>2, <2>3 DEF Small
<1>2. \A T \in Small(s, n + 1) : Value(T) \in Nat
  <2>1. \A U \in Small(s, n) : g[U] \in Nat
    BY DEF Solves
  <2>2. \A T \in Small(s, n + 1) : T # {} => g[T \ {Pick(T)}] \in Nat /\ s[Pick(T)] \in Nat
    BY <1>1, <2>1
  <2>3. \A a, b \in Nat : a + b \in Nat
    OBVIOUS
  <2> QED
    BY <2>2, <2>3
<1>3. ASSUME NEW T \in Small(s, n)
      PROVE  T \in Small(s, n + 1) /\ Value(T) = g[T]
  <2>1. T \in SUBSET DOMAIN s /\ Cardinality(T) <= n /\ Cardinality(T) \in Nat
    BY <1>3, IndexSets DEF Small
  <2>2. T \in Small(s, n + 1)
    BY <2>1 DEF Small
  <2> QED
    BY <2>2 DEF Solves
<1> HIDE DEF Value
<1>4. h \in [Small(s, n + 1) -> Nat] /\ \A T \in Small(s, n) : h[T] = g[T]
  BY <1>2, <1>3
<1>5. ASSUME NEW T \in Small(s, n + 1)
      PROVE  h[T] = IF T = {} THEN 0 ELSE s[Pick(T)] + h[T \ {Pick(T)}]
  <2>1. h[T] = Value(T)
    OBVIOUS
  <2>2. T # {} => h[T \ {Pick(T)}] = g[T \ {Pick(T)}]
    BY <1>1, <1>4
  <2> HIDE DEF h
  <2> QED
    BY <2>1, <2>2 DEF Value
<1> HIDE DEF h
<1>6. Solves(s, n + 1, h)
  BY <1>4, <1>5 DEF Solves
<1> QED
  BY <1>6

\* The recursion behind the fold has a solution on all sets of indices.
LEMMA PartialExists ==
  ASSUME NEW s \in Seq(Nat)
  PROVE  \E it : it \in [SUBSET DOMAIN s -> Nat] /\ it = AddUp(s, it)
<1> DEFINE B == {n \in Nat : \E g : Solves(s, n, g)}
<1>1. B \in SUBSET Nat /\ 0 \in B /\ \A n \in B : n + 1 \in B
  BY SolvesNone, SolvesMore
<1>2. B = Nat
  <2> HIDE DEF B
  <2> QED
    BY <1>1, Induction
<1>3. Len(s) \in Nat /\ DOMAIN s = 1 .. Len(s)
  OBVIOUS
<1>4. PICK g : Solves(s, Len(s), g)
  BY <1>2, <1>3
<1>5. Small(s, Len(s)) = SUBSET DOMAIN s
  <2>1. IsFiniteSet(1 .. Len(s)) /\ Cardinality(1 .. Len(s)) = Len(s)
    <3> DEFINE n == Len(s)
    <3>1. 1 \in Int /\ n \in Int /\ n >= 0
      BY <1>3
    <3> HIDE DEF n
    <3>2. /\ IsFiniteSet(1 .. n)
          /\ Cardinality(1 .. n) = IF 1 > n THEN 0 ELSE n - 1 + 1
      BY <3>1, FS_Interval
    <3>3. Cardinality(1 .. n) = n
      BY <3>1, <3>2
    <3> QED
      BY <3>2, <3>3 DEF n
  <2>2. \A T \in SUBSET DOMAIN s : Cardinality(T) <= Len(s)
    BY <1>3, <2>1, FS_Subset
  <2> QED
    BY <2>2 DEF Small
<1>6. g \in [SUBSET DOMAIN s -> Nat] /\ g = AddUp(s, g)
  BY <1>4, <1>5 DEF AddUp, Solves
<1> QED
  BY <1>6

LEMMA PartialIs ==
  ASSUME NEW s \in Seq(Nat), NEW T \in SUBSET DOMAIN s
  PROVE  /\ Partial(s)[T] = IF T = {} THEN 0
                            ELSE s[Pick(T)] + Partial(s)[T \ {Pick(T)}]
<1>1. \E it : it = AddUp(s, it)
  BY PartialExists
<1>2. Partial(s) = AddUp(s, Partial(s))
  BY <1>1 DEF Partial
<1> QED
  BY <1>2 DEF AddUp

\* What passes from the sets with one index less to a set holds for all.
LEMMA IndexInduction ==
  ASSUME NEW s \in Seq(Nat), NEW B,
         \A T \in SUBSET DOMAIN s : (\A i \in T : T \ {i} \in B) => T \in B
  PROVE  SUBSET DOMAIN s \subseteq B
<1> DEFINE N == {n \in Nat : \A T \in SUBSET DOMAIN s : Cardinality(T) = n => T \in B}
<1>1. 0 \in N
  <2>1. \A T \in SUBSET DOMAIN s : Cardinality(T) = 0 => T = {}
    BY IndexSets
  <2> QED
    BY <2>1
<1>2. ASSUME NEW n \in N PROVE n + 1 \in N
  <2> SUFFICES ASSUME NEW T \in SUBSET DOMAIN s, Cardinality(T) = n + 1
               PROVE  T \in B
    OBVIOUS
  <2>1. ASSUME NEW i \in T PROVE T \ {i} \in B
    <3>1. Cardinality(T \ {i}) = (n + 1) - 1 /\ n \in Nat
      BY <2>1, IndexSets
    <3>2. Cardinality(T \ {i}) = n /\ T \ {i} \in SUBSET DOMAIN s
      BY <3>1
    <3> QED
      BY <3>2
  <2> QED
    BY <2>1
<1>3. N = Nat
  <2>1. N \in SUBSET Nat
    OBVIOUS
  <2> HIDE DEF N
  <2> QED
    BY <1>1, <1>2, <2>1, Induction
<1>4. \A T \in SUBSET DOMAIN s : Cardinality(T) \in Nat
  BY IndexSets
<1> QED
  BY <1>3, <1>4

LEMMA PartialNat ==
  ASSUME NEW s \in Seq(Nat), NEW T \in SUBSET DOMAIN s
  PROVE  Partial(s)[T] \in Nat
<1> DEFINE B == {U \in SUBSET DOMAIN s : Partial(s)[U] \in Nat}
<1>1. ASSUME NEW U \in SUBSET DOMAIN s, \A i \in U : U \ {i} \in B
      PROVE  U \in B
  <2>1. CASE U = {}
    <3>1. Partial(s)[U] = 0
      BY <2>1, PartialIs
    <3> QED
      BY <3>1
  <2>2. CASE U # {}
    <3>1. Pick(U) \in U /\ s[Pick(U)] \in Nat
      BY <2>2, IndexSets
    <3>2. Partial(s)[U \ {Pick(U)}] \in Nat
      BY <1>1, <3>1
    <3>3. Partial(s)[U] = s[Pick(U)] + Partial(s)[U \ {Pick(U)}]
      BY <2>2, PartialIs
    <3> QED
      BY <3>1, <3>2, <3>3
  <2> QED
    BY <2>1, <2>2
<1>2. SUBSET DOMAIN s \subseteq B
  <2> HIDE DEF B
  <2> QED
    BY <1>1, IndexInduction
<1> QED
  BY <1>2

\* Any index may be added last.
LEMMA PartialSplits ==
  ASSUME NEW s \in Seq(Nat), NEW T \in SUBSET DOMAIN s, NEW i \in T
  PROVE  Partial(s)[T] = s[i] + Partial(s)[T \ {i}]
<1> DEFINE P == Partial(s)
           B == {U \in SUBSET DOMAIN s : \A j \in U : P[U] = s[j] + P[U \ {j}]}
<1>1. ASSUME NEW U \in SUBSET DOMAIN s, \A j \in U : U \ {j} \in B
      PROVE  U \in B
  <2> SUFFICES ASSUME NEW j \in U PROVE P[U] = s[j] + P[U \ {j}]
    OBVIOUS
  <2> DEFINE k == Pick(U)
  <2>1. k \in U /\ s[k] \in Nat /\ s[j] \in Nat
    BY IndexSets
  <2>2. P[U] = s[k] + P[U \ {k}]
    BY PartialIs
  <2>3. CASE j = k
    BY <2>2, <2>3
  <2>4. CASE j # k
    <3> HIDE DEF P
    <3>1. U \ {k} \in B /\ U \ {j} \in B /\ j \in U \ {k} /\ k \in U \ {j}
      BY <1>1, <2>1, <2>4
    <3>2. (U \ {k}) \ {j} = (U \ {j}) \ {k}
      OBVIOUS
    <3>3. P[U \ {k}] = s[j] + P[(U \ {j}) \ {k}]
      BY <3>1, <3>2
    <3>4. P[U \ {j}] = s[k] + P[(U \ {j}) \ {k}]
      BY <3>1
    <3>5. P[(U \ {j}) \ {k}] \in Nat
      BY PartialNat DEF P
    <3> QED
      BY <2>1, <2>2, <3>3, <3>4, <3>5
  <2> QED
    BY <2>3, <2>4
<1>2. SUBSET DOMAIN s \subseteq B
  <2> HIDE DEF B
  <2> QED
    BY <1>1, IndexInduction
<1> QED
  BY <1>2

\* Only the elements at T count.
LEMMA PartialAgrees ==
  ASSUME NEW s \in Seq(Nat), NEW x \in Nat, NEW T \in SUBSET DOMAIN s
  PROVE  Partial(Append(s, x))[T] = Partial(s)[T]
<1> DEFINE a == Append(s, x)
           B == {U \in SUBSET DOMAIN s : Partial(a)[U] = Partial(s)[U]}
<1>1. /\ a \in Seq(Nat) /\ DOMAIN s \subseteq DOMAIN a
      /\ \A i \in DOMAIN s : a[i] = s[i]
  OBVIOUS
<1> HIDE DEF a
<1>2. ASSUME NEW U \in SUBSET DOMAIN s, \A i \in U : U \ {i} \in B
      PROVE  U \in B
  <2>1. U \in SUBSET DOMAIN a
    BY <1>1
  <2>2. CASE U = {}
    BY <1>1, <2>1, <2>2, PartialIs
  <2>3. CASE U # {}
    <3>1. Pick(U) \in U
      BY <2>3, IndexSets
    <3>2. /\ Partial(a)[U] = a[Pick(U)] + Partial(a)[U \ {Pick(U)}]
          /\ Partial(s)[U] = s[Pick(U)] + Partial(s)[U \ {Pick(U)}]
      BY <1>1, <2>1, <2>3, PartialIs
    <3> QED
      BY <1>1, <1>2, <3>1, <3>2
  <2> QED
    BY <2>2, <2>3
<1>3. SUBSET DOMAIN s \subseteq B
  <2> HIDE DEF B
  <2> QED
    BY <1>2, IndexInduction
<1> QED
  BY <1>3 DEF a

\* So the fold adds up the elements of a sequence.
LEMMA TotalAdds ==
  /\ Total(<<>>) = 0
  /\ \A s \in Seq(Nat) : Total(s) \in Nat
  /\ \A s \in Seq(Nat), x \in Nat : Total(Append(s, x)) = Total(s) + x
<1>1. Total(<<>>) = 0
  <2>1. <<>> \in Seq(Nat) /\ DOMAIN <<>> = {}
    OBVIOUS
  <2> QED
    BY <2>1, PartialIs DEF Total
<1>2. \A s \in Seq(Nat) : Total(s) \in Nat
  BY PartialNat DEF Total
<1>3. ASSUME NEW s \in Seq(Nat), NEW x \in Nat
      PROVE  Total(Append(s, x)) = Total(s) + x
  <2> DEFINE a == Append(s, x)
             n == Len(s) + 1
  <2>1. a \in Seq(Nat) /\ Len(a) = n /\ a[n] = x /\ n \in Nat
    OBVIOUS
  <2>2. DOMAIN s = 1 .. Len(s) /\ DOMAIN a = 1 .. n
    OBVIOUS
  <2>3. n \in DOMAIN a /\ DOMAIN a \ {n} = DOMAIN s
    BY <2>2
  <2> HIDE DEF a, n
  <2>4. Partial(a)[DOMAIN a] = x + Partial(a)[DOMAIN s]
    <3>1. \A T \in SUBSET DOMAIN a : \A i \in T :
            Partial(a)[T] = a[i] + Partial(a)[T \ {i}]
      BY <2>1, PartialSplits
    <3>2. DOMAIN a \in SUBSET DOMAIN a
      OBVIOUS
    <3>3. Partial(a)[DOMAIN a] = a[n] + Partial(a)[DOMAIN a \ {n}]
      BY <2>3, <3>1, <3>2, Zenon
    <3> QED
      BY <2>1, <2>3, <3>3
  <2>5. Partial(a)[DOMAIN s] = Partial(s)[DOMAIN s]
    BY PartialAgrees DEF a
  <2>6. Partial(s)[DOMAIN s] \in Nat
    BY PartialNat
  <2>7. Total(a) = Total(s) + x
    BY <2>4, <2>5, <2>6 DEF Total
  <2> QED
    BY <2>7 DEF a
<1> QED
  BY <1>1, <1>2, <1>3

-----------------------------------------------------------------------------
(* The summary.                                                            *)

\* Adds up sequences of durations.
Adds(Sum) ==
  /\ Sum \in [Seq(Duration) -> Nat]
  /\ Sum[<<>>] = 0
  /\ \A s \in Seq(Duration), x \in Duration : Sum[Append(s, x)] = Sum[s] + x

TotalsInv(Sum) == \A k \in Tag : table[k].total = Sum[log[k]] + Added(k)

ColumnsInv(Sum) == CallsInv /\ TotalsInv(Sum) /\ RowsInv

LEMMA AddTotalColumns ==
  ASSUME TypeOK, MutexInv, NEW Sum, Adds(Sum), ColumnsInv(Sum), NEW t \in Thread,
         AddTotal(t)
  PROVE  ColumnsInv(Sum)'
<1>1. PICK k \in Tag, r \in ThreadType :
           /\ mutex = t /\ thr[t].tag = k /\ thr[t].pc = "total"
           /\ Moves(t, r) /\ r.pc = "calls" /\ r.tag = k /\ r.us = thr[t].us
           /\ table'[k].total = table[k].total + thr[t].us
           /\ table'[k].calls = table[k].calls
           /\ \A j \in Tag \ {k} : table'[j] = table[j]
           /\ UNCHANGED log
  BY AddTotalIs
<1>2. /\ mutex' = t /\ thr'[t] = r
      /\ \A u \in Thread : u # t => thr'[u] = thr[u] /\ thr[u].pc = "idle"
  BY <1>1, MovesKeep DEF Moves
<1>3. \A j \in Tag : Counted(j) = 0 /\ Added(j) = 0
  BY <1>1 DEF Counted, Added, Recording
<1>4. \A j \in Tag : /\ Counted(j)' = 0
                     /\ Added(j)' = IF j = k THEN thr[t].us ELSE 0
  BY <1>1, <1>2 DEF Counted, Added, Recording
<1>5. RowsInv'
  BY <1>1, <1>2 DEF RowsInv
<1>6. ASSUME NEW j \in Tag PROVE table'[j].calls = Len(log'[j]) + Counted(j)'
  <2>1. table[j].calls = Len(log[j]) + 0
    BY <1>3 DEF ColumnsInv, CallsInv
  <2> QED
    BY <1>1, <1>4, <2>1
<1>7. ASSUME NEW j \in Tag PROVE table'[j].total = Sum[log'[j]] + Added(j)'
  <2>1. table[j].total = Sum[log[j]] + 0 /\ Sum[log[j]] \in Nat
    BY <1>3 DEF ColumnsInv, TotalsInv, Adds, TypeOK
  <2>2. CASE j = k
    BY <1>1, <1>4, <2>1, <2>2
  <2>3. CASE j # k
    BY <1>1, <1>4, <2>1, <2>3
  <2> QED
    BY <2>2, <2>3
<1> QED
  BY <1>5, <1>6, <1>7 DEF ColumnsInv, CallsInv, TotalsInv

LEMMA AddCallColumns ==
  ASSUME TypeOK, MutexInv, NEW Sum, Adds(Sum), ColumnsInv(Sum), NEW t \in Thread,
         AddCall(t)
  PROVE  ColumnsInv(Sum)'
<1>1. PICK k \in Tag, r \in ThreadType :
           /\ mutex = t /\ thr[t].tag = k /\ thr[t].pc = "calls"
           /\ Moves(t, r) /\ r.pc = "history" /\ r.tag = k /\ r.us = thr[t].us
           /\ table'[k].calls = table[k].calls + 1
           /\ table'[k].total = table[k].total
           /\ \A j \in Tag \ {k} : table'[j] = table[j]
           /\ UNCHANGED log
  BY AddCallIs
<1>2. /\ mutex' = t /\ thr'[t] = r
      /\ \A u \in Thread : u # t => thr'[u] = thr[u] /\ thr[u].pc = "idle"
  BY <1>1, MovesKeep DEF Moves
<1>3. \A j \in Tag : /\ Counted(j) = 0
                     /\ Added(j) = IF j = k THEN thr[t].us ELSE 0
  BY <1>1 DEF Counted, Added, Recording
<1>4. \A j \in Tag : /\ Counted(j)' = IF j = k THEN 1 ELSE 0
                     /\ Added(j)' = IF j = k THEN thr[t].us ELSE 0
  BY <1>1, <1>2 DEF Counted, Added, Recording
<1>5. RowsInv'
  BY <1>1, <1>2 DEF RowsInv
<1>6. ASSUME NEW j \in Tag PROVE table'[j].calls = Len(log'[j]) + Counted(j)'
  <2>1. table[j].calls = Len(log[j]) + 0 /\ Len(log[j]) \in Nat
    BY <1>3 DEF ColumnsInv, CallsInv, TypeOK
  <2>2. CASE j = k
    BY <1>1, <1>4, <2>1, <2>2
  <2>3. CASE j # k
    BY <1>1, <1>4, <2>1, <2>3
  <2> QED
    BY <2>2, <2>3
<1>7. ASSUME NEW j \in Tag PROVE table'[j].total = Sum[log'[j]] + Added(j)'
  <2>1. table[j].total = Sum[log[j]] + Added(j) /\ table'[j].total = table[j].total
    BY <1>1 DEF ColumnsInv, TotalsInv
  <2>2. Added(j)' = Added(j)
    BY <1>3, <1>4
  <2> QED
    BY <1>1, <2>1, <2>2
<1> QED
  BY <1>5, <1>6, <1>7 DEF ColumnsInv, CallsInv, TotalsInv

LEMMA AddHistoryColumns ==
  ASSUME TypeOK, MutexInv, NEW Sum, Adds(Sum), ColumnsInv(Sum), NEW t \in Thread,
         AddHistory(t)
  PROVE  ColumnsInv(Sum)'
<1>1. PICK k \in Tag, us \in Duration :
           /\ mutex = t /\ thr[t].tag = k /\ thr[t].us = us /\ thr[t].pc = "history"
           /\ Moves(t, Idle) /\ Idle \in ThreadType /\ Idle.pc = "idle"
           /\ log'[k] = Append(log[k], us)
           /\ \A j \in Tag \ {k} : log'[j] = log[j]
           /\ UNCHANGED table
  BY AddHistoryIs
<1>2. \A u \in Thread : thr'[u].pc = "idle"
  BY <1>1, MovesKeep
<1>3. \A j \in Tag : /\ Counted(j) = IF j = k THEN 1 ELSE 0
                     /\ Added(j) = IF j = k THEN us ELSE 0
  BY <1>1 DEF Counted, Added, Recording
<1>4. \A j \in Tag : Counted(j)' = 0 /\ Added(j)' = 0
  BY <1>2 DEF Counted, Added, Recording
<1>5. RowsInv'
  BY <1>2 DEF RowsInv
<1>6. ASSUME NEW j \in Tag PROVE table'[j].calls = Len(log'[j]) + Counted(j)'
  <2>1. /\ table[j].calls = Len(log[j]) + Counted(j) /\ Len(log[j]) \in Nat
        /\ log[j] \in Seq(Duration)
    BY DEF ColumnsInv, CallsInv, TypeOK
  <2>2. Len(log'[j]) = Len(log[j]) + Counted(j)
    BY <1>1, <1>3, <2>1
  <2> QED
    BY <1>1, <1>3, <1>4, <2>1, <2>2
<1>7. ASSUME NEW j \in Tag PROVE table'[j].total = Sum[log'[j]] + Added(j)'
  <2>1. /\ table[j].total = Sum[log[j]] + Added(j) /\ Sum[log[j]] \in Nat
        /\ log[j] \in Seq(Duration)
    BY DEF ColumnsInv, TotalsInv, Adds, TypeOK
  <2>2. us \in Nat
    BY TimerConstants
  <2>3. CASE j = k
    <3>1. Sum[log'[j]] = Sum[log[j]] + us
      BY <1>1, <2>1, <2>3 DEF Adds
    <3> QED
      BY <1>1, <1>3, <1>4, <2>1, <2>2, <2>3, <3>1
  <2>4. CASE j # k
    BY <1>1, <1>3, <1>4, <2>1, <2>4
  <2> QED
    BY <2>3, <2>4
<1> QED
  BY <1>5, <1>6, <1>7 DEF ColumnsInv, CallsInv, TotalsInv

LEMMA NextColumns ==
  ASSUME NEW Sum, Adds(Sum)
  PROVE  TypeOK /\ MutexInv /\ ColumnsInv(Sum) /\ [Next]_vars => ColumnsInv(Sum)'
<1> SUFFICES ASSUME TypeOK, MutexInv, ColumnsInv(Sum), [Next]_vars
             PROVE  ColumnsInv(Sum)'
  OBVIOUS
<1>1. CASE UNCHANGED vars
  BY <1>1 DEF vars, tables, auxVars, ColumnsInv, CallsInv, TotalsInv, RowsInv,
     Counted, Added, Recording
<1>2. ASSUME NEW t \in Thread, Reports(t) PROVE ColumnsInv(Sum)'
  <2>1. PICK r \in ThreadType : Reporting(t, r)
    BY <1>2, ReportsMove
  <2>2. /\ thr'[t] = r
        /\ \A u \in Thread : u # t => thr'[u] = thr[u] /\ thr[u].pc = "idle"
    BY <2>1, MovesKeep DEF Reporting
  <2>3. UNCHANGED <<table, log>>
    BY <1>2, ReportsMove
  <2>4. /\ \A u \in Thread : thr[u].pc \notin {"calls", "history"}
        /\ \A u \in Thread : thr'[u].pc \notin {"calls", "history"}
    BY <2>1, <2>2 DEF Reporting
  <2>5. \A k \in Tag : Counted(k)' = Counted(k) /\ Added(k)' = Added(k)
    BY <2>4 DEF Counted, Added, Recording
  <2>6. RowsInv'
    BY <2>1, <2>2, <2>3 DEF Reporting, ColumnsInv, RowsInv
  <2> QED
    BY <2>3, <2>5, <2>6 DEF ColumnsInv, CallsInv, TotalsInv
<1>3. ASSUME NEW t \in Thread, Operates(t) PROVE ColumnsInv(Sum)'
  <2>1. UNCHANGED <<mutex, thr>> /\ \A u \in Thread : thr[u].pc = "idle"
    BY <1>3, OperatesIdle
  <2>2. RowsInv'
    BY <2>1 DEF RowsInv
  <2>3. \A k \in Tag : /\ Counted(k)' = 0 /\ Added(k)' = 0
                       /\ Counted(k) = 0 /\ Added(k) = 0
    BY <2>1 DEF Counted, Added, Recording
  <2>4. CASE reset_all_stats(t)
    <3>1. \A k \in Tag : /\ table'[k].calls = 0 /\ table'[k].total = 0
                         /\ log'[k] = <<>>
      BY <2>4 DEF reset_all_stats, NoRows, NoStat
    <3>2. Len(<<>>) = 0 /\ Sum[<<>>] = 0
      BY DEF Adds
    <3> QED
      BY <2>2, <2>3, <3>1, <3>2 DEF ColumnsInv, CallsInv, TotalsInv
  <2>5. CASE ~reset_all_stats(t)
    <3>1. UNCHANGED <<table, log>>
      BY <1>3, <2>5 DEF Operates, enable_detailed_call_logging_for_tag,
         disable_detailed_call_logging_for_tag
    <3> QED
      BY <2>2, <2>3, <3>1 DEF ColumnsInv, CallsInv, TotalsInv
  <2> QED
    BY <2>4, <2>5
<1> QED
  BY <1>1, <1>2, <1>3, AddTotalColumns, AddCallColumns, AddHistoryColumns, NextCases

LEMMA InitColumns ==
  ASSUME NEW Sum, Adds(Sum)
  PROVE  Init => ColumnsInv(Sum)
<1> SUFFICES ASSUME Init PROVE ColumnsInv(Sum)
  OBVIOUS
<1>1. \A k \in Tag : table[k].calls = 0 /\ table[k].total = 0 /\ log[k] = <<>>
  BY DEF Init, NoRows, NoStat
<1>2. \A t \in Thread : thr[t].pc = "idle"
  BY DEF Init, Idle
<1>3. \A k \in Tag : Counted(k) = 0 /\ Added(k) = 0
  BY <1>2 DEF Counted, Added, Recording
<1>4. Len(<<>>) = 0 /\ Sum[<<>>] = 0
  BY DEF Adds
<1> QED
  BY <1>1, <1>2, <1>3, <1>4 DEF ColumnsInv, CallsInv, TotalsInv, RowsInv

\* The fold of the property, as such a function.
SumOf == [s \in Seq(Duration) |-> Total(s)]

LEMMA SumOfAdds == Adds(SumOf)
<1>1. \A s \in Seq(Duration) : s \in Seq(Nat)
  BY TimerConstants, SeqMonotonic
<1>2. <<>> \in Seq(Duration)
  OBVIOUS
<1>3. \A s \in Seq(Duration), x \in Duration :
        Append(s, x) \in Seq(Duration) /\ x \in Nat
  BY TimerConstants
<1>4. SumOf \in [Seq(Duration) -> Nat]
  BY <1>1, TotalAdds DEF SumOf
<1>5. SumOf[<<>>] = 0
  BY <1>2, TotalAdds DEF SumOf
<1>6. ASSUME NEW s \in Seq(Duration), NEW x \in Duration
      PROVE  SumOf[Append(s, x)] = SumOf[s] + x
  <2>1. Total(Append(s, x)) = Total(s) + x
    BY <1>1, <1>3, TotalAdds
  <2> QED
    BY <1>3, <2>1 DEF SumOf
<1> QED
  BY <1>4, <1>5, <1>6 DEF Adds

LEMMA ColumnsGiveSnapshot ==
  ASSUME TypeOK, MutexInv, ColumnsInv(SumOf)
  PROVE  SummaryIsSnapshot
<1>1. ASSUME NEW t \in Thread, thr[t].pc = "rows", thr[t].todo = {}, NEW k \in Tag
      PROVE  thr[t].rows[k] = [total |-> Total(log[k]), calls |-> Len(log[k])]
  <2>1. thr[t].rows[k] = table[k] /\ mutex = t /\ table[k] \in Stat
    BY <1>1 DEF ColumnsInv, RowsInv, MutexInv, TypeOK
  <2>2. Counted(k) = 0 /\ Added(k) = 0
    BY <1>1, <2>1 DEF Counted, Added, Recording
  <2>3. table[k].calls = Len(log[k]) + 0 /\ table[k].total = SumOf[log[k]] + 0
    BY <2>2 DEF ColumnsInv, CallsInv, TotalsInv
  <2>4. log[k] \in Seq(Duration) /\ Len(log[k]) \in Nat /\ SumOf[log[k]] \in Nat
    BY SumOfAdds DEF TypeOK, Adds
  <2>5. SumOf[log[k]] = Total(log[k])
    BY <2>4 DEF SumOf
  <2> QED
    BY <2>1, <2>3, <2>4, <2>5 DEF Stat
<1> QED
  BY <1>1 DEF SummaryIsSnapshot, FoldSeq, FoldFunction, FoldFunctionOnSet,
     MapThenFoldSet, Total, Partial, AddUp, Pick

\* A printed summary is one snapshot: its rows, of all tags together, give
\* the number and the sum of exactly the calls recorded since the last
\* reset, whichever threads end timed scopes meanwhile.
THEOREM SummariesAreSnapshots == Spec => []SummaryIsSnapshot
<1>1. Init => TypeOK /\ MutexInv /\ ColumnsInv(SumOf)
  BY InitTypes, InitColumns, SumOfAdds
<1>2. TypeOK /\ MutexInv /\ ColumnsInv(SumOf) /\ [Next]_vars
        => (TypeOK /\ MutexInv /\ ColumnsInv(SumOf))'
  BY NextTypes, NextColumns, SumOfAdds
<1>3. TypeOK /\ MutexInv /\ ColumnsInv(SumOf) => SummaryIsSnapshot
  BY ColumnsGiveSnapshot
<1> QED
  BY <1>1, <1>2, <1>3, PTL DEF Spec

=============================================================================
