------------------------------- MODULE Timer -------------------------------
(***************************************************************************)
(* The timing tables of mthvac_timer.h, in a client or a server process:   *)
(* cumulative statistics and call histories per tag, filled by the         *)
(* destructor of TimerGuard in every thread, printed, exported and reset   *)
(* by any of them, under one mutex.                                        *)
(***************************************************************************)
EXTENDS Integers, Sequences, SequencesExt

CONSTANTS
  Thread,     \* threads of the process
  Tag,        \* names of timed sections
  Duration,   \* measured times
  None,       \* "no thread", "no tag"
  MaxCalls    \* bound: recorded calls per tag

ASSUME TimerConstants ==
  /\ Duration \subseteq Nat /\ MaxCalls \in Nat
  /\ None \notin Thread /\ None \notin Tag

VARIABLES
  mutex,      \* the holder of get_mutex()
  table,      \* get_table(): total_us and calls of each tag
  history,    \* get_call_history_table()
  detailed,   \* get_detailed_log_tags_set()
  thr,        \* where each thread is
  log,        \* log[k]: the calls of tag k since the last reset (auxiliary)
  from,       \* from[k]: how many of them precede its enabling (auxiliary)
  gaps        \* tags that were disabled at some time (auxiliary)

tables  == <<table, history, detailed>>
auxVars == <<log, from, gaps>>
vars    == <<mutex, tables, thr, auxVars>>

Stat  == [total : Nat, calls : Nat]
NoStat == [total |-> 0, calls |-> 0]
NoRows == [k \in Tag |-> NoStat]
Idle  == [pc |-> "idle", tag |-> None, us |-> 0, todo |-> {}, rows |-> NoRows,
          out |-> <<>>]

TypeOK ==
  /\ mutex \in Thread \cup {None}
  /\ table \in [Tag -> Stat]
  /\ history \in [Tag -> Seq(Duration)]
  /\ detailed \in SUBSET Tag
  /\ thr \in [Thread ->
       [pc : {"idle", "total", "calls", "history", "rows", "exported"},
        tag : Tag \cup {None}, us : Duration \cup {0}, todo : SUBSET Tag,
        rows : [Tag -> Stat], out : Seq(Duration)]]
  /\ log \in [Tag -> Seq(Duration)]
  /\ from \in [Tag -> Nat]
  /\ gaps \in SUBSET Tag

Init ==
  /\ mutex = None
  /\ table = NoRows
  /\ history = [k \in Tag |-> <<>>]
  /\ detailed = {}
  /\ thr = [t \in Thread |-> Idle]
  /\ log = [k \in Tag |-> <<>>]
  /\ from = [k \in Tag |-> 0]
  /\ gaps = {}

-----------------------------------------------------------------------------
At(t, pc) == thr[t].pc = pc
Goto(t, pc) == thr' = [thr EXCEPT ![t].pc = pc]

\* std::lock_guard<std::mutex> lk(get_mutex())
Lock(t) == mutex = None /\ mutex' = t
Unlock == mutex' = None

-----------------------------------------------------------------------------
(* ~TimerGuard: a timed scope ends.                                        *)

Bounded(k) == Len(log[k]) < MaxCalls /\ Len(history[k]) < MaxCalls

\* The time is taken, then the mutex.
End(t, k, us) ==
  /\ At(t, "idle") /\ Bounded(k)
  /\ Lock(t)
  /\ thr' = [thr EXCEPT ![t].pc = "total", ![t].tag = k, ![t].us = us]
  /\ UNCHANGED <<tables, auxVars>>

\* Mutant: start - now.
AddNegated(t) ==
  /\ At(t, "total")
  /\ table' = [table EXCEPT ![thr[t].tag].total = @ - thr[t].us]
  /\ Goto(t, "calls")
  /\ UNCHANGED <<mutex, history, detailed, auxVars>>

\* The compare-and-exchange loop on total_us.
AddTotal(t) ==
  /\ At(t, "total")
  /\ table' = [table EXCEPT ![thr[t].tag].total = @ + thr[t].us]
  /\ Goto(t, "calls")
  /\ UNCHANGED <<mutex, history, detailed, auxVars>>

AddCall(t) ==
  /\ At(t, "calls")
  /\ table' = [table EXCEPT ![thr[t].tag].calls = @ + 1]
  /\ Goto(t, "history")
  /\ UNCHANGED <<mutex, history, detailed, auxVars>>

\* push_back for a tag with detailed logging; the guard is gone.
AddHistory(t) ==
  LET k == thr[t].tag
  IN  /\ At(t, "history")
      /\ history' = IF k \in detailed
                    THEN [history EXCEPT ![k] = Append(@, thr[t].us)]
                    ELSE history
      /\ log' = [log EXCEPT ![k] = Append(@, thr[t].us)]
      /\ thr' = [thr EXCEPT ![t] = Idle]
      /\ Unlock
      /\ UNCHANGED <<table, detailed, from, gaps>>

-----------------------------------------------------------------------------
(* Reports.  Rows are written one tag after the other, in the order of the *)
(* hash table.                                                             *)

\* Mutant: the table is printed without the mutex.
PrintUnlocked(t) ==
  /\ At(t, "idle")
  /\ thr' = [thr EXCEPT ![t].pc = "rows", ![t].todo = Tag]
  /\ UNCHANGED <<mutex, tables, auxVars>>

\* Also behind hvac_trigger_print_all_stats.
print_all_stats(t) ==
  /\ At(t, "idle")
  /\ Lock(t)
  /\ thr' = [thr EXCEPT ![t].pc = "rows", ![t].todo = Tag]
  /\ UNCHANGED <<tables, auxVars>>

\* The same loop, or print_all_stats itself if the file cannot be opened.
export_all_stats_to_file(t) == print_all_stats(t)

\* The server's side of the statistics RPC: the progress thread prints, then
\* responds.
hvac_trigger_srv_print_stats_handler(t) == print_all_stats(t)

Row(t) ==
  /\ At(t, "rows")
  /\ \E k \in thr[t].todo :
       thr' = [thr EXCEPT ![t].todo = @ \ {k}, ![t].rows[k] = table[k]]
  /\ UNCHANGED <<mutex, tables, auxVars>>

\* export_tag_call_history_to_file: the recorded calls of one tag.
export_tag_call_history(t, k) ==
  /\ At(t, "idle")
  /\ Lock(t)
  /\ thr' = [thr EXCEPT ![t].pc = "exported", ![t].tag = k,
                         ![t].out = history[k]]
  /\ UNCHANGED <<tables, auxVars>>

ReportDone(t) ==
  /\ At(t, "exported") \/ (At(t, "rows") /\ thr[t].todo = {})
  /\ thr' = [thr EXCEPT ![t] = Idle]
  /\ Unlock
  /\ UNCHANGED <<tables, auxVars>>

-----------------------------------------------------------------------------
(* Operations that are one critical section.                               *)

\* Mutant: the histories are forgotten.
ResetTableOnly(t) ==
  /\ At(t, "idle") /\ mutex = None
  /\ table' = NoRows
  /\ log' = [k \in Tag |-> <<>>]
  /\ from' = [k \in Tag |-> 0]
  /\ UNCHANGED <<mutex, thr, history, detailed, gaps>>

\* The histories of tags that are not enabled at the moment stay.
reset_all_stats(t) ==
  /\ At(t, "idle") /\ mutex = None
  /\ table' = NoRows
  /\ history' = [k \in Tag |-> IF k \in detailed THEN <<>> ELSE history[k]]
  /\ log' = [k \in Tag |-> <<>>]
  /\ from' = [k \in Tag |-> 0]
  /\ UNCHANGED <<mutex, thr, detailed, gaps>>

enable_detailed_call_logging_for_tag(t, k) ==
  /\ At(t, "idle") /\ mutex = None
  /\ detailed' = detailed \cup {k}
  /\ from' = IF k \in detailed THEN from ELSE [from EXCEPT ![k] = Len(log[k])]
  /\ UNCHANGED <<mutex, thr, table, history, log, gaps>>

disable_detailed_call_logging_for_tag(t, k) ==
  /\ At(t, "idle") /\ mutex = None
  /\ detailed' = detailed \ {k}
  /\ gaps' = gaps \cup {k}
  /\ UNCHANGED <<mutex, thr, table, history, log, from>>

-----------------------------------------------------------------------------
Next ==
  \E t \in Thread :
    \/ \E k \in Tag, us \in Duration : End(t, k, us)
    \/ AddTotal(t) \/ AddCall(t) \/ AddHistory(t)
    \/ print_all_stats(t) \/ export_all_stats_to_file(t)
    \/ hvac_trigger_srv_print_stats_handler(t) \/ Row(t)
    \/ ReportDone(t) \/ reset_all_stats(t)
    \/ \E k \in Tag : \/ export_tag_call_history(t, k)
                      \/ enable_detailed_call_logging_for_tag(t, k)
                      \/ disable_detailed_call_logging_for_tag(t, k)

Spec == Init /\ [][Next]_vars

-----------------------------------------------------------------------------
(* Properties.                                                             *)

\* A printed summary is one snapshot: its rows, of all tags together, give
\* the number and the sum of exactly the calls recorded since the last
\* reset, and no call is counted in one column and missing in another.
SummaryIsSnapshot ==
  \A t \in Thread :
    thr[t].pc = "rows" /\ thr[t].todo = {} =>
      \A k \in Tag :
        thr[t].rows[k] = [total |-> FoldSeq(+, 0, log[k]), calls |-> Len(log[k])]

\* The exported history of a tag that is enabled, and was never disabled,
\* lists exactly the calls since the last reset (or since it was enabled),
\* in the order in which they were counted.
HistoryMatchesCalls ==
  \A t \in Thread :
    thr[t].pc = "exported" /\ thr[t].tag \in detailed \ gaps =>
      LET k == thr[t].tag
      IN  thr[t].out = SubSeq(log[k], from[k] + 1, Len(log[k]))
=============================================================================
