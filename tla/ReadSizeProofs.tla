--------------------------- MODULE ReadSizeProofs ---------------------------
(***************************************************************************)
(* Proofs about ReadSize: sizes and positions of reads, for every width of *)
(* the fields, every file length and every set of sizes.                   *)
(***************************************************************************)
EXTENDS ReadSize, TLAPS

-----------------------------------------------------------------------------
(* The conversion.                                                         *)

\* Division with remainder.
LEMMA DivMod ==
  ASSUME NEW x \in Int, NEW d \in Nat, d > 0
  PROVE  /\ x % d \in 0 .. d - 1
         /\ x \div d \in Int
         /\ x = d * (x \div d) + (x % d)
  OBVIOUS

\* The remainder is unique.
LEMMA ModUnique ==
  ASSUME NEW d \in Nat, d > 0, NEW q \in Int, NEW r \in 0 .. d - 1,
         NEW p \in Int, NEW s \in 0 .. d - 1, d * q + r = d * p + s
  PROVE  r = s
<1>1. d * (q - p) = s - r
  OBVIOUS
<1>2. CASE q - p >= 1
  <2>1. d * (q - p) >= d
    BY <1>2
  <2> QED
    BY <1>1, <2>1
<1>3. CASE q - p <= -1
  <2>1. d * (q - p) <= -d
    BY <1>3
  <2> QED
    BY <1>1, <2>1
<1>4. CASE q = p
  BY <1>1, <1>4
<1> QED
  BY <1>2, <1>3, <1>4

LEMMA Halves == Half \in Nat /\ Half > 0 /\ Word = Half + Half /\ Word > 0
  BY ReadSizeConstants DEF Half

\* A size below 2^31 is not changed.
LEMMA SmallSizes ==
  ASSUME NEW x \in 0 .. Half - 1
  PROVE  ToInt32(x) = x
<1>1. (x + Half) % Word = x + Half
  <2>1. x + Half \in 0 .. Word - 1
    BY Halves
  <2> DEFINE y == x + Half
  <2>2. y \in Int /\ Word \in Nat
    BY <2>1, ReadSizeConstants
  <2>3. /\ y % Word \in 0 .. Word - 1 /\ y \div Word \in Int
        /\ y = Word * (y \div Word) + (y % Word)
    BY <2>2, Halves, DivMod
  <2>4. y = Word * 0 + y
    BY <2>2
  <2>5. y % Word = y
    BY <2>1, <2>2, <2>3, <2>4, Halves, ModUnique
  <2> QED
    BY <2>5
<1> QED
  BY <1>1, Halves DEF ToInt32

\* Any other is at most itself if it is not negative, 0 only if it is a
\* multiple of 2^32, and negative only if its remainder is at least 2^31.
LEMMA AllSizes ==
  ASSUME NEW x \in Nat
  PROVE  /\ ToInt32(x) \in Int32
         /\ ToInt32(x) <= x
         /\ ToInt32(x) = 0 => x % Word = 0
         /\ ToInt32(x) < 0 => x % Word >= Half
<1> DEFINE r == x % Word  q == x \div Word  y == x + Half  s == y % Word
           p == y \div Word
<1>1. /\ r \in 0 .. Word - 1 /\ q \in Int /\ x = Word * q + r
      /\ s \in 0 .. Word - 1 /\ p \in Int /\ y = Word * p + s
  BY Halves, ReadSizeConstants, DivMod
<1>2. Word \in Nat /\ Half \in Nat /\ Word = Half + Half /\ Half > 0
  BY Halves
<1> HIDE DEF r, q, s, p
<1>3. CASE r < Half
  <2>1. y = Word * q + (r + Half) /\ r + Half \in 0 .. Word - 1
    BY <1>1, <1>2, <1>3
  <2>2. s = r + Half
    BY <1>1, <1>2, <2>1, ModUnique
  <2>3. ToInt32(x) = r
    BY <1>1, <1>2, <2>2 DEF ToInt32, s
  <2>4. q >= 0
    <3>1. CASE q <= -1
      <4>1. Word * q <= -Word
        BY <1>1, <1>2, <3>1
      <4> QED
        BY <1>1, <1>2, <4>1
    <3> QED
      BY <1>1, <3>1
  <2>5. Word * q >= 0
    BY <1>1, <1>2, <2>4
  <2>6. r <= x
    BY <1>1, <1>2, <2>5
  <2> QED
    BY <1>1, <1>2, <1>3, <2>3, <2>6 DEF Int32, r
<1>4. CASE r >= Half
  <2> DEFINE n == q + 1  t == r - Half
  <2>1. y = Word * n + t /\ t \in 0 .. Word - 1 /\ n \in Int
    BY <1>1, <1>2, <1>4
  <2>2. s = t
    <3> HIDE DEF n, t
    <3> QED
      BY <1>1, <1>2, <2>1, ModUnique
  <2>3. ToInt32(x) = r - Word
    BY <1>1, <1>2, <2>2 DEF ToInt32, s
  <2> QED
    BY <1>1, <1>2, <1>4, <2>3 DEF Int32, r
<1> QED
  BY <1>1, <1>2, <1>3, <1>4

-----------------------------------------------------------------------------
(* The inductive invariant.                                                *)

\* Where the read in progress starts, before the server's offset moves.
Start == IF offset = -1 THEN got ELSE offset

\* What the server has transferred but the application not yet seen.
InFlight == IF offset = -1 THEN size ELSE 0

\* A transfer fits the caller's buffer and an int32_t, and is empty only at
\* the end of the file or for a size that is a multiple of 2^32.
Transferred ==
  /\ size <= MaxTransfer /\ size <= count
  /\ size = 0 => Start >= FileSize \/ count % Word = 0
  /\ pos = got + InFlight

IInv ==
  /\ TypeOK
  /\ pos <= FileSize
  /\ pc \in {"idle", "handler"} => pos = got
  /\ pc = "handler" => count \in Count /\ wire = ToInt32(count)
  /\ pc = "pushed" => Transferred
  /\ pc = "callback" => Transferred /\ wire = size
  /\ dead => count % Word >= Half

LEMMA Constants ==
  /\ Half \in Nat /\ Half > 0 /\ Word = Half + Half
  /\ FileSize \in Nat /\ Count \subseteq Nat \ {0}
  /\ MaxTransfer \in 1 .. Half - 1
  BY ReadSizeConstants, Halves

LEMMA InitIInv == Init => IInv
<1> SUFFICES ASSUME Init PROVE IInv
  OBVIOUS
<1>1. 0 \in Int32 /\ -1 \in -1 .. FileSize /\ 0 <= FileSize
  BY Constants DEF Int32
<1>2. TypeOK
  BY <1>1 DEF Init, TypeOK
<1> QED
  BY <1>1, <1>2 DEF Init, IInv

LEMMA GenReadIInv ==
  ASSUME IInv, NEW n \in Count, NEW o \in -1 .. FileSize, gen_read_rpc(n, o)
  PROVE  IInv'
<1>1. ToInt32(n) \in Int32
  BY Constants, AllSizes
<1> QED
  BY <1>1, Constants DEF IInv, TypeOK, gen_read_rpc

LEMMA AllocFailsIInv ==
  ASSUME IInv, AllocFails
  PROVE  IInv'
<1>1. count % Word >= Half
  BY Constants, AllSizes DEF IInv, AllocFails
<1>2. Transferred' = Transferred
  BY DEF AllocFails, Transferred, Start, InFlight
<1> QED
  BY <1>1, <1>2 DEF IInv, TypeOK, AllocFails

LEMMA HandlerIInv ==
  ASSUME IInv, hvac_rpc_handler
  PROVE  IInv'
<1> DEFINE at == IF offset = -1 THEN pos ELSE offset
<1>1. PICK k \in Transfers(wire, at) :
        size' = k /\ pos' = IF offset = -1 THEN pos + k ELSE pos
  BY DEF hvac_rpc_handler
<1>2. /\ k \in 0 .. FileSize /\ k <= wire /\ k <= MaxTransfer
      /\ at + k <= FileSize
      /\ k = 0 => wire = 0 \/ at >= FileSize
  BY <1>1 DEF Transfers
<1>3. pos = got /\ count \in Nat /\ wire <= count /\ (wire = 0 => count % Word = 0)
  BY Constants, AllSizes DEF IInv, hvac_rpc_handler
<1>4. Transferred'
  BY <1>1, <1>2, <1>3, Constants
     DEF IInv, TypeOK, hvac_rpc_handler, Transferred, Start, InFlight, Int32
<1> QED
  BY <1>1, <1>2, <1>3, <1>4, Constants DEF IInv, TypeOK, hvac_rpc_handler

LEMMA BulkIInv ==
  ASSUME IInv, hvac_rpc_handler_bulk_cb
  PROVE  IInv'
<1>1. size \in 0 .. Half - 1
  BY Constants DEF IInv, TypeOK, hvac_rpc_handler_bulk_cb, Transferred
<1>2. wire' = size /\ wire' \in Int32
  BY <1>1, SmallSizes, Constants DEF hvac_rpc_handler_bulk_cb, Int32
<1>3. Transferred'
  BY DEF IInv, hvac_rpc_handler_bulk_cb, Transferred, Start, InFlight
<1> QED
  BY <1>2, <1>3 DEF IInv, TypeOK, hvac_rpc_handler_bulk_cb

LEMMA ReadCbIInv ==
  ASSUME IInv, hvac_read_cb
  PROVE  IInv'
<1>1. size \in 0 .. Half - 1 /\ wire = size
  BY Constants DEF IInv, TypeOK, hvac_read_cb, Transferred
<1>2. ToInt32(wire) = size
  BY <1>1, SmallSizes
<1>3. got' = pos
  BY <1>1, <1>2, Constants
     DEF IInv, TypeOK, hvac_read_cb, Transferred, InFlight
<1> QED
  BY <1>3, Constants DEF IInv, TypeOK, hvac_read_cb

LEMMA NextIInv == IInv /\ [Next]_vars => IInv'
<1> SUFFICES ASSUME IInv, [Next]_vars
             PROVE  IInv'
  OBVIOUS
<1>1. CASE Read
  BY <1>1, GenReadIInv, Constants DEF Read
<1>2. CASE Pread
  BY <1>2, GenReadIInv, Constants DEF Pread
<1>3. CASE AllocFails
  BY <1>3, AllocFailsIInv
<1>4. CASE hvac_rpc_handler
  BY <1>4, HandlerIInv
<1>5. CASE hvac_rpc_handler_bulk_cb
  BY <1>5, BulkIInv
<1>6. CASE hvac_read_cb
  BY <1>6, ReadCbIInv
<1>7. CASE UNCHANGED vars
  BY <1>7 DEF vars, IInv, TypeOK, Transferred, Start, InFlight
<1> QED
  BY <1>1, <1>2, <1>3, <1>4, <1>5, <1>6, <1>7 DEF Next, Library

-----------------------------------------------------------------------------
(* The theorems.                                                           *)

\* IInv holds in every reachable state, for every width of the fields.
THEOREM Invariance == Spec => []IInv
<1> QED
  BY InitIInv, NextIInv, PTL DEF Spec

\* Every variable keeps its type: what travels fits an int32_t.
THEOREM TypeCorrect == Spec => []TypeOK
<1>1. IInv => TypeOK
  BY DEF IInv
<1> QED
  BY <1>1, Invariance, PTL

\* What a call returns is what the server transferred, fits the caller's
\* buffer, and is 0 only at the end of the file or for a multiple of 2^32.
THEOREM SizesAreKept == Spec => []SizesSurvive
<1>1. IInv => SizesSurvive
  BY Constants DEF IInv, TypeOK, SizesSurvive, Transferred, Start, InFlight
<1> QED
  BY <1>1, Invariance, PTL

\* The bytes returned add up to the server's offset, and no size below 2^31
\* makes the server's calloc fail.
THEOREM Positions == Spec => []PositionsAgree
<1>1. IInv => PositionsAgree
  BY DEF IInv, PositionsAgree
<1> QED
  BY <1>1, Invariance, PTL
=============================================================================
