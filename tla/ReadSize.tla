------------------------------ MODULE ReadSize ------------------------------
(***************************************************************************)
(* The sizes in a read: the size_t the application asks for and the        *)
(* ssize_t it gets back travel as int32_t in hvac_rpc_in_t and             *)
(* hvac_rpc_out_t, and the read wrapper keeps the result in an int.  One   *)
(* application reads one tracked file with read() and pread(); all sizes   *)
(* are in bytes.                                                           *)
(***************************************************************************)
EXTENDS Integers

CONSTANTS
  Word,       \* 2^32, the number of values of an int32_t
  FileSize,   \* the length of the file, a 64-bit off_t
  Count,      \* sizes the application asks for
  MaxTransfer \* the most a Linux read() transfers, 2^31 - 4096

Half == Word \div 2

ASSUME ReadSizeConstants ==
  /\ Word \in Nat /\ Word = 2 * Half /\ Half > 0
  /\ FileSize \in Nat
  /\ Count \subseteq Nat \ {0}
  /\ MaxTransfer \in 1 .. Half - 1

VARIABLES
  pc,       \* where the call is
  count,    \* the size asked for
  offset,   \* in.offset: -1 for read()
  wire,     \* the int32_t in flight: input_val, then ret
  size,     \* size of the server's hvac_rpc_state: a size_t
  pos,      \* the offset of the server's descriptor
  got,      \* bytes read() has delivered to the application
  eof,      \* read() has returned 0
  dead      \* an assert of the server failed

vars == <<pc, count, offset, wire, size, pos, got, eof, dead>>

Int32 == -Half .. Half - 1

TypeOK ==
  /\ pc \in {"idle", "handler", "pushed", "callback"}
  /\ count \in Count \cup {0}
  /\ offset \in -1 .. FileSize
  /\ wire \in Int32
  /\ size \in Nat
  /\ pos \in Nat /\ got \in Nat
  /\ eof \in BOOLEAN /\ dead \in BOOLEAN

Init ==
  /\ pc = "idle" /\ count = 0 /\ offset = -1 /\ wire = 0 /\ size = 0
  /\ pos = 0 /\ got = 0 /\ eof = FALSE /\ dead = FALSE

\* Mutant: the field is as wide as the size.
NoConversion(x) == x

\* Conversion to int32_t: input_val and ret, and ret of the read wrapper.
ToInt32(x) == ((x + Half) % Word) - Half

\* gen_read_rpc: in.input_val = count.  The application reads until read()
\* returns 0.
gen_read_rpc(n, o) ==
  /\ pc = "idle" /\ ~eof /\ ~dead
  /\ pc' = "handler"
  /\ count' = n /\ offset' = o
  /\ wire' = ToInt32(n)
  /\ UNCHANGED <<size, pos, got, eof, dead>>

\* What read() or pread() may transfer: anything up to n bytes, but at least
\* one unless at the end of the file.
Transfers(n, at) ==
  {k \in 0 .. FileSize :
     /\ k <= n /\ k <= MaxTransfer /\ at + k <= FileSize
     /\ k = 0 => n = 0 \/ at >= FileSize}

\* calloc of a negative size, which becomes a huge size_t, fails, and so does
\* the assert on its result.
AllocFails ==
  /\ pc = "handler" /\ ~dead /\ wire < 0
  /\ dead' = TRUE
  /\ UNCHANGED <<pc, count, offset, wire, size, pos, got, eof>>

\* Mutant: the transfer is not reduced to what was read.
HandlerKeepsSize ==
  /\ pc = "handler" /\ ~dead /\ wire >= 0
  /\ \E k \in Transfers(wire, IF offset = -1 THEN pos ELSE offset) :
       /\ size' = wire
       /\ pos' = IF offset = -1 THEN pos + k ELSE pos
  /\ pc' = "pushed"
  /\ UNCHANGED <<count, offset, wire, got, eof, dead>>

\* Mutant: the read is made with the size the buffer was registered for.
HandlerReadsMax ==
  /\ pc = "handler" /\ ~dead /\ wire >= 0
  /\ \E k \in Transfers(MaxTransfer, IF offset = -1 THEN pos ELSE offset) :
       /\ size' = k
       /\ pos' = IF offset = -1 THEN pos + k ELSE pos
  /\ pc' = "pushed"
  /\ UNCHANGED <<count, offset, wire, got, eof, dead>>

\* read() or pread() of size bytes; size = readbytes.
hvac_rpc_handler ==
  /\ pc = "handler" /\ ~dead /\ wire >= 0
  /\ \E k \in Transfers(wire, IF offset = -1 THEN pos ELSE offset) :
       /\ size' = k
       /\ pos' = IF offset = -1 THEN pos + k ELSE pos
  /\ pc' = "pushed"
  /\ UNCHANGED <<count, offset, wire, got, eof, dead>>

\* out.ret = size
hvac_rpc_handler_bulk_cb ==
  /\ pc = "pushed"
  /\ wire' = ToInt32(size)
  /\ pc' = "callback"
  /\ UNCHANGED <<count, offset, size, pos, got, eof, dead>>

\* Mutant: a short read ends the file.
ShortReadEndsFile ==
  /\ pc = "callback"
  /\ pc' = "idle"
  /\ got' = IF offset = -1 THEN got + ToInt32(wire) ELSE got
  /\ eof' = (offset = -1 /\ ToInt32(wire) < count)
  /\ UNCHANGED <<count, offset, wire, size, pos, dead>>

\* hvac_read_cb, and the wrapper, whose ret is an int.
hvac_read_cb ==
  /\ pc = "callback"
  /\ pc' = "idle"
  /\ got' = IF offset = -1 THEN got + ToInt32(wire) ELSE got
  /\ eof' = (offset = -1 /\ ToInt32(wire) = 0)
  /\ UNCHANGED <<count, offset, wire, size, pos, dead>>

Read  == \E n \in Count : gen_read_rpc(n, -1)
Pread == \E n \in Count, o \in 0 .. FileSize : gen_read_rpc(n, o)
Library ==
  AllocFails \/ hvac_rpc_handler \/ hvac_rpc_handler_bulk_cb \/ hvac_read_cb

Next == Read \/ Pread \/ Library

Spec == Init /\ [][Next]_vars

\* The library answers, and the application reads on.
FairSpec == Spec /\ WF_vars(Library) /\ SF_vars(Read)

-----------------------------------------------------------------------------
(* Properties.                                                             *)

\* What a call returns (hvac_rpc_handler_bulk_cb's out.ret) is the number of
\* bytes the server transferred into the caller's buffer, never more than the
\* buffer holds, and 0 only at the end of the file: unless the size asked for
\* is a multiple of 2^32, no conversion on the way produces a false end of
\* file.
SizesSurvive ==
  pc = "callback" =>
    /\ wire = size /\ wire \in 0 .. count
    /\ wire = 0 =>
         \/ (IF offset = -1 THEN pos ELSE offset) >= FileSize
         \/ count % Word = 0

\* The bytes read() has returned add up to the server's offset, beyond 2^32
\* too, whatever preads came in between; and the server's assert on calloc
\* fails only for a size that is negative as an int32_t, so for none below
\* 2^31.
PositionsAgree ==
  /\ pc = "idle" => got = pos /\ pos <= FileSize
  /\ dead => count % Word >= Half

\* An application that reads with sizes below 2^31 until read() returns 0
\* gets the whole file, however short the reads of the server are.
WholeFileRead == <>(count >= Half) \/ <>(eof /\ got = FileSize)
=============================================================================
