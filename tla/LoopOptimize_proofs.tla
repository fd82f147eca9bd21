--------------------------- MODULE LoopOptimize_proofs ---------------------------
(***************************************************************************)
(* Theorems about the range that takes the place of a tsan call in a loop  *)
(* over the chunks of an OpenMP loop: it holds what the iterations of one  *)
(* chunk access, whichever way the pointer moves.  Offsets are counted     *)
(* from the address in the first iteration.                                *)
(***************************************************************************)
EXTENDS LoopOptimize, TLAPS

Step(p, l, call) == p.pointer[call.ptr].step[l]

\* The byte b of the access in iteration k.
ByteAt(p, l, call, k, b) == Step(p, l, call) * k + b

RangeBytes(range) == range.shift .. range.shift + range.size - 1

LEMMA ProductUpTo ==
  ASSUME NEW s \in Nat, NEW n \in Nat, NEW size \in Nat, NEW k \in 0 .. n, s <= size
  PROVE  0 <= s * k /\ s * k <= size * n
<1>1. s * k \in Nat /\ size * (n - k) \in Nat /\ (size - s) * k \in Nat
  <2>1. n - k \in Nat /\ size - s \in Nat /\ k \in Nat
    OBVIOUS
  <2> QED BY <2>1
<1>2. size * n = s * k + (size - s) * k + size * (n - k)
  OBVIOUS
<1> QED BY <1>1, <1>2

LEMMA AbsIntCases ==
  ASSUME NEW s \in Int
  PROVE  \/ s \in Nat /\ AbsInt(s) = s
         \/ -s \in Nat /\ s < 0 /\ AbsInt(s) = -s
BY DEF AbsInt

\* What the range is: one element per iteration, from the lowest address on.
LEMMA RangeFields ==
  ASSUME NEW p, NEW l, NEW kind, NEW ptr, NEW size,
         NEW call, call = RangeCall(kind, ptr, size)
  PROVE  /\ RangeOfChunk(p, l, call).size = ChunkSize(p) * size
         /\ RangeOfChunk(p, l, call).shift = LowerBound(p, l, ptr)
         /\ call.ptr = ptr /\ call.size = size
BY DEF RangeOfChunk, RangeCall

\* Every byte that an iteration of the chunk accesses is in the range, for every
\* chunk size, every step up to the size of the access and both directions:
\* create_tsan_replacement and prepare_tsan_ranges lose nothing within a chunk.
THEOREM ChunkIsCovered ==
  ASSUME NEW p, NEW l, NEW kind, NEW ptr, NEW size \in Nat,
         NEW call, call = RangeCall(kind, ptr, size),
         ChunkSize(p) \in Nat, ChunkSize(p) > 1,
         Step(p, l, call) \in Int, AbsInt(Step(p, l, call)) <= size,
         NEW k \in 0 .. ChunkSize(p) - 1, NEW b \in 0 .. size - 1
  PROVE  ByteAt(p, l, call, k, b) \in RangeBytes(RangeOfChunk(p, l, call))
<1> DEFINE s == Step(p, l, call)
           n == ChunkSize(p) - 1
           range == RangeOfChunk(p, l, call)
<1>1. range.size = (n + 1) * size /\ range.shift = IF s < 0 THEN s * n ELSE 0
  BY RangeFields DEF Step, LowerBound
<1>2. n \in Nat /\ s \in Int /\ k \in 0 .. n /\ ChunkSize(p) = n + 1
  OBVIOUS
<1> HIDE DEF s, n, range
<1>3. (n + 1) * size = n * size + size /\ n * size = size * n
  BY <1>2
<1>4. CASE s \in Nat /\ AbsInt(s) = s
  <2>1. 0 <= s * k /\ s * k <= size * n
    BY <1>2, <1>4, ProductUpTo DEF s
  <2>2. s * k \in Int /\ size * n \in Int
    BY <1>2
  <2> QED BY <2>1, <2>2, <1>1, <1>2, <1>3, <1>4 DEF ByteAt, RangeBytes, s, range
<1>5. CASE -s \in Nat /\ s < 0 /\ AbsInt(s) = -s
  <2>1. n - k \in 0 .. n /\ -s <= size
    BY <1>2, <1>5 DEF s
  <2>2. 0 <= (-s) * (n - k) /\ (-s) * (n - k) <= size * n
    BY <2>1, <1>2, <1>5, ProductUpTo
  <2>3. (-s) * (n - k) = s * k - s * n
    BY <1>2, <2>1
  <2>4. s * k \in Int /\ size * n \in Int /\ s * n \in Int
    BY <1>2
  <2> QED BY <2>2, <2>3, <2>4, <1>1, <1>2, <1>3, <1>5 DEF ByteAt, RangeBytes, s, range
<1> QED BY <1>4, <1>5, <1>2, AbsIntCases

\* If the accesses of two iterations do not overlap, the range holds nothing else:
\* each of its bytes is accessed in an iteration of a full chunk.
THEOREM ChunkIsExact ==
  ASSUME NEW p, NEW l, NEW kind, NEW ptr, NEW size \in Nat,
         NEW call, call = RangeCall(kind, ptr, size),
         ChunkSize(p) \in Nat, ChunkSize(p) > 1,
         Step(p, l, call) \in Int, AbsInt(Step(p, l, call)) = size, size > 0,
         NEW x \in RangeBytes(RangeOfChunk(p, l, call))
  PROVE  \E k \in 0 .. ChunkSize(p) - 1 : \E b \in 0 .. size - 1 :
           x = ByteAt(p, l, call, k, b)
<1> DEFINE s == Step(p, l, call)
           n == ChunkSize(p) - 1
           range == RangeOfChunk(p, l, call)
<1>1. range.size = (n + 1) * size /\ range.shift = IF s < 0 THEN s * n ELSE 0
  BY RangeFields DEF Step, LowerBound
<1>2. n \in Nat /\ s \in Int /\ ChunkSize(p) = n + 1 /\ s # 0
  BY AbsIntCases DEF AbsInt
<1>3. x \in RangeBytes(range)
  OBVIOUS
<1>4. \A k : \A b : ByteAt(p, l, call, k, b) = s * k + b
  BY DEF ByteAt
<1> HIDE DEF s, n, range
<1>5. s * n \in Int /\ size * n \in Int /\ (n + 1) * size = size * n + size
  BY <1>2
<1> DEFINE y == x - range.shift
           q == y \div size
           r == y % size
<1>6. range.shift \in Int
  BY <1>1, <1>5
<1>7. y \in Nat /\ y < size * n + size /\ x = range.shift + y
  BY <1>1, <1>3, <1>5, <1>6 DEF RangeBytes
<1> HIDE DEF y
<1>8. q \in Int /\ r \in 0 .. size - 1 /\ y = size * q + r
  BY <1>7
<1> HIDE DEF q, r
<1>9. q \in 0 .. n
  <2>1. ASSUME q < 0 PROVE FALSE
    <3>1. size * q <= size * (-1)
      BY <1>8, <2>1
    <3> QED BY <3>1, <1>7, <1>8
  <2>2. ASSUME q > n PROVE FALSE
    <3>1. size * (q - n - 1) >= 0
      BY <1>2, <1>8, <2>2
    <3>2. size * q = size * (q - n - 1) + size * n + size
      BY <1>2, <1>8
    <3> QED BY <3>1, <3>2, <1>2, <1>5, <1>7, <1>8
  <2> QED BY <2>1, <2>2, <1>2, <1>8
<1>10. CASE s > 0
  <2>1. s = size /\ range.shift = 0
    BY <1>1, <1>2, <1>10 DEF AbsInt, s
  <2>2. x = ByteAt(p, l, call, q, r)
    BY <2>1, <1>4, <1>7, <1>8
  <2> QED BY <2>2, <1>8, <1>9 DEF n
<1>11. CASE s < 0
  <2>1. s = -size /\ range.shift = s * n
    BY <1>1, <1>2, <1>11 DEF AbsInt, s
  <2>2. n - q \in 0 .. n
    BY <1>2, <1>9
  <2>3. s * (n - q) = s * n + size * q
    BY <2>1, <1>2, <1>9
  <2>4. x = ByteAt(p, l, call, n - q, r)
    BY <2>1, <2>3, <1>4, <1>5, <1>7, <1>8
  <2> QED BY <2>2, <2>4, <1>8 DEF n
<1> QED BY <1>2, <1>10, <1>11

=============================================================================
