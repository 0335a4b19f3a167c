----------------------------- MODULE TtyProofs ------------------------------
(***************************************************************************)
(* Proofs about the two rings of the terminal: the console's input in      *)
(* Console, and the transmitter's output in Uart.  No reader sleeps on     *)
(* input that is there, the transmitter does not stall, and the rings      *)
(* implement LineQueue and TxQueue, for every size of the rings, any       *)
(* processes and any characters.                                           *)
(***************************************************************************)
EXTENDS Console, Uart, Integers, SequenceTheorems, TLAPS

(***************************************************************************)
(* Arithmetic of the ring buffers cons.buf and uart_tx_buf: indices that   *)
(* count modulo M, the range of their C type, and select an entry modulo   *)
(* N, the size of the ring, which divides M.                               *)
(***************************************************************************)
(***************************************************************************)
(* Division with remainder, for a divisor that is not a numeral.           *)
(***************************************************************************)
LEMMA Division ==
  ASSUME NEW x \in Nat, NEW N \in Nat, N > 0
  PROVE  /\ x \div N \in Int /\ x % N \in 0 .. N - 1
         /\ x = N * (x \div N) + (x % N)
<1>1. x = N * (x \div N) + (x % N)
  BY Z3
<1>2. x \div N \in Int
  OBVIOUS
<1>3. x % N \in 0 .. N - 1
  OBVIOUS
<1> QED BY <1>1, <1>2, <1>3

(***************************************************************************)
(* The remainder is the only one.                                          *)
(***************************************************************************)
LEMMA Remainder ==
  ASSUME NEW x \in Nat, NEW N \in Nat, N > 0, NEW q \in Int,
         NEW s \in 0 .. N - 1, x = N * q + s
  PROVE  x % N = s
OBVIOUS

(***************************************************************************)
(* The entry j places after the one that x selects.                        *)
(***************************************************************************)
LEMMA ModAdd ==
  ASSUME NEW x \in Nat, NEW N \in Nat, N > 0, NEW j \in 0 .. N
  PROVE  (x + j) % N = IF (x % N) + j < N THEN (x % N) + j ELSE (x % N) + j - N
<1> DEFINE q == x \div N
           s == x % N
<1>1. q \in Int /\ s \in 0 .. N - 1 /\ x = N * q + s
  BY Division
<1> HIDE DEF q, s
<1>2. CASE s + j < N
  <2>1. x + j = N * q + (s + j) /\ s + j \in 0 .. N - 1 /\ x + j \in Nat
    BY <1>1, <1>2
  <2>2. (x + j) % N = s + j
    BY <1>1, <2>1, Remainder
  <2> QED BY <1>2, <2>2 DEF s
<1>3. CASE ~(s + j < N)
  <2>1. N * (q + 1) = N * q + N
    BY <1>1
  <2>2. /\ x + j = N * (q + 1) + (s + j - N) /\ s + j - N \in 0 .. N - 1
        /\ x + j \in Nat /\ q + 1 \in Int
    BY <1>1, <1>3, <2>1
  <2>3. (x + j) % N = s + j - N
    BY <2>2, Remainder
  <2> QED BY <1>3, <2>3 DEF s
<1> QED BY <1>2, <1>3

(***************************************************************************)
(* Indices wrap once: a sum of an index and at most M.                     *)
(***************************************************************************)
LEMMA IndexAdd ==
  ASSUME NEW M \in Nat, M > 0, NEW a \in 0 .. M - 1, NEW k \in 0 .. M
  PROVE  (a + k) % M = IF a + k < M THEN a + k ELSE a + k - M
<1>1. a % M = a
  OBVIOUS
<1> QED BY <1>1, ModAdd

(***************************************************************************)
(* How far index b is ahead of index a.                                    *)
(***************************************************************************)
LEMMA IndexDist ==
  ASSUME NEW M \in Nat, M > 0, NEW a \in 0 .. M - 1, NEW b \in 0 .. M - 1
  PROVE  (b + M - a) % M = IF b >= a THEN b - a ELSE b + M - a
<1>1. M - a \in 0 .. M /\ b + M - a = b + (M - a)
  OBVIOUS
<1>2. (b + (M - a)) % M = IF b + (M - a) < M THEN b + (M - a)
                          ELSE b + (M - a) - M
  BY <1>1, IndexAdd
<1> QED BY <1>1, <1>2

(***************************************************************************)
(* The wrap of an index does not move the entry it selects.                *)
(***************************************************************************)
LEMMA WrapKeepsEntry ==
  ASSUME NEW x \in Nat, NEW N \in Nat, N > 0,
         NEW M \in Nat, M > 0, M % N = 0, x < 2 * M
  PROVE  (x % M) % N = x % N
<1> DEFINE q == x \div N
           s == x % N
           p == M \div N
<1>1. q \in Int /\ s \in 0 .. N - 1 /\ x = N * q + s
  BY Division
<1>2. p \in Int /\ M = N * p
  BY Division
<1> HIDE DEF q, s, p
<1>3. CASE x < M
  BY <1>3
<1>4. CASE ~(x < M)
  <2>1. x = M * 1 + (x - M) /\ x - M \in 0 .. M - 1
    BY <1>4
  <2>2. x % M = x - M
    BY <2>1, Remainder
  <2>3. N * (q - p) = N * q - N * p
    BY <1>1, <1>2
  <2>4. x - M = N * (q - p) + s /\ x - M \in Nat /\ q - p \in Int
    BY <1>1, <1>2, <1>4, <2>3
  <2>5. (x - M) % N = s
    BY <1>1, <2>4, Remainder
  <2> QED BY <2>2, <2>5 DEF s
<1> QED BY <1>3, <1>4

(***************************************************************************)
(* Fewer than N places apart, two indices select two entries.              *)
(***************************************************************************)
LEMMA EntriesDiffer ==
  ASSUME NEW x \in Nat, NEW N \in Nat, N > 0,
         NEW j \in 0 .. N - 1, NEW k \in 0 .. N - 1, j # k
  PROVE  (x + j) % N # (x + k) % N
<1>1. x % N \in 0 .. N - 1 /\ j \in 0 .. N /\ k \in 0 .. N
  BY Division
<1>2. (x + j) % N = IF (x % N) + j < N THEN (x % N) + j ELSE (x % N) + j - N
  BY <1>1, ModAdd
<1>3. (x + k) % N = IF (x % N) + k < N THEN (x % N) + k ELSE (x % N) + k - N
  BY <1>1, ModAdd
<1> QED BY <1>1, <1>2, <1>3

(***************************************************************************)
(* How far index b is ahead of index a, and what steps of the two do.      *)
(***************************************************************************)
Dist(b, a, M) == (b + M - a) % M

LEMMA DistFacts ==
  ASSUME NEW M \in Nat, M > 0, NEW a \in 0 .. M - 1, NEW b \in 0 .. M - 1
  PROVE  /\ Dist(b, a, M) \in 0 .. M - 1
         /\ Dist(b, a, M) = IF b >= a THEN b - a ELSE b + M - a
         /\ Dist(b, a, M) = 0 <=> a = b
         /\ (a + Dist(b, a, M)) % M = b
<1> DEFINE d == Dist(b, a, M)
<1>1. d = IF b >= a THEN b - a ELSE b + M - a
  BY IndexDist DEF Dist
<1> HIDE DEF d
<1>2. d \in 0 .. M - 1 /\ (d = 0 <=> a = b)
  BY <1>1
<1>3. (a + d) % M = IF a + d < M THEN a + d ELSE a + d - M
  BY <1>2, IndexAdd
<1>4. (a + d) % M = b
  BY <1>1, <1>3
<1> QED BY <1>1, <1>2, <1>4 DEF d

LEMMA DistGrows ==
  ASSUME NEW M \in Nat, M > 0, NEW a \in 0 .. M - 1, NEW b \in 0 .. M - 1,
         Dist(b, a, M) < M - 1
  PROVE  /\ (b + 1) % M \in 0 .. M - 1
         /\ Dist((b + 1) % M, a, M) = Dist(b, a, M) + 1
<1> DEFINE c == (b + 1) % M
<1>1. c = IF b + 1 < M THEN b + 1 ELSE b + 1 - M
  BY IndexAdd
<1> HIDE DEF c
<1>2. c \in 0 .. M - 1
  BY <1>1
<1>3. Dist(c, a, M) = IF c >= a THEN c - a ELSE c + M - a
  BY <1>2, DistFacts
<1>4. Dist(b, a, M) = IF b >= a THEN b - a ELSE b + M - a
  BY DistFacts
<1>5. Dist(c, a, M) = Dist(b, a, M) + 1
  BY <1>1, <1>3, <1>4
<1> QED BY <1>2, <1>5 DEF c

LEMMA DistShrinks ==
  ASSUME NEW M \in Nat, M > 0, NEW a \in 0 .. M - 1, NEW b \in 0 .. M - 1,
         a # b
  PROVE  /\ (a + 1) % M \in 0 .. M - 1
         /\ Dist(b, (a + 1) % M, M) = Dist(b, a, M) - 1
<1> DEFINE c == (a + 1) % M
<1>1. c = IF a + 1 < M THEN a + 1 ELSE a + 1 - M
  BY IndexAdd
<1> HIDE DEF c
<1>2. c \in 0 .. M - 1
  BY <1>1
<1>3. Dist(b, c, M) = IF b >= c THEN b - c ELSE b + M - c
  BY <1>2, DistFacts
<1>4. Dist(b, a, M) = IF b >= a THEN b - a ELSE b + M - a
  BY DistFacts
<1>5. Dist(b, c, M) = Dist(b, a, M) - 1
  BY <1>1, <1>3, <1>4
<1> QED BY <1>2, <1>5 DEF c

(***************************************************************************)
(* Distances add up as long as they do not come to M.                      *)
(***************************************************************************)
LEMMA DistSum ==
  ASSUME NEW M \in Nat, M > 0, NEW a \in 0 .. M - 1, NEW b \in 0 .. M - 1,
         NEW c \in 0 .. M - 1, Dist(b, a, M) + Dist(c, b, M) < M
  PROVE  Dist(c, a, M) = Dist(b, a, M) + Dist(c, b, M)
<1>1. Dist(b, a, M) = IF b >= a THEN b - a ELSE b + M - a
  BY DistFacts
<1>2. Dist(c, b, M) = IF c >= b THEN c - b ELSE c + M - b
  BY DistFacts
<1>3. Dist(c, a, M) = IF c >= a THEN c - a ELSE c + M - a
  BY DistFacts
<1> QED BY <1>1, <1>2, <1>3

(***************************************************************************)
(* The index k places ahead of a, k less than M, is the one at distance k. *)
(***************************************************************************)
LEMMA DistIs ==
  ASSUME NEW M \in Nat, M > 0, NEW a \in 0 .. M - 1, NEW b \in 0 .. M - 1,
         NEW k \in 0 .. M - 1
  PROVE  b = (a + k) % M <=> Dist(b, a, M) = k
<1>1. Dist(b, a, M) = IF b >= a THEN b - a ELSE b + M - a
  BY DistFacts
<1>2. (a + k) % M = IF a + k < M THEN a + k ELSE a + k - M
  BY IndexAdd
<1> QED BY <1>1, <1>2

(***************************************************************************)
(* The index in front of b; and the one behind it has b in front.          *)
(***************************************************************************)
LEMMA DistBack ==
  ASSUME NEW M \in Nat, M > 0, NEW a \in 0 .. M - 1, NEW b \in 0 .. M - 1
  PROVE  /\ (b + M - 1) % M \in 0 .. M - 1
         /\ a # b => Dist((b + M - 1) % M, a, M) = Dist(b, a, M) - 1
         /\ (((b + 1) % M) + M - 1) % M = b
<1>1. ASSUME NEW x \in 0 .. M - 1
      PROVE  (x + M - 1) % M = IF x = 0 THEN M - 1 ELSE x - 1
  <2>1. M - 1 \in 0 .. M /\ x + (M - 1) = x + M - 1
    OBVIOUS
  <2>2. (x + (M - 1)) % M = IF x + (M - 1) < M THEN x + (M - 1) ELSE x + (M - 1) - M
    BY <2>1, IndexAdd
  <2> QED BY <2>1, <2>2
<1> DEFINE c == (b + M - 1) % M
           d == (b + 1) % M
<1>2. c = IF b = 0 THEN M - 1 ELSE b - 1
  BY <1>1
<1>3. d = IF b + 1 < M THEN b + 1 ELSE b + 1 - M
  BY IndexAdd
<1> HIDE DEF c, d
<1>4. c \in 0 .. M - 1 /\ d \in 0 .. M - 1
  BY <1>2, <1>3
<1>5. (d + M - 1) % M = b
  <2>1. (d + M - 1) % M = IF d = 0 THEN M - 1 ELSE d - 1
    BY <1>1, <1>4
  <2> QED BY <1>3, <2>1
<1>6. Dist(c, a, M) = IF c >= a THEN c - a ELSE c + M - a
  BY <1>4, DistFacts
<1>7. Dist(b, a, M) = IF b >= a THEN b - a ELSE b + M - a
  BY DistFacts
<1>8. a # b => Dist(c, a, M) = Dist(b, a, M) - 1
  BY <1>2, <1>6, <1>7
<1> QED BY <1>4, <1>5, <1>8 DEF c, d

(***************************************************************************)
(* The entry of an index, seen from one that it is less than M ahead of.   *)
(***************************************************************************)
LEMMA EntryFrom ==
  ASSUME NEW M \in Nat, NEW N \in Nat, N > 0, M > N, M % N = 0,
         NEW a \in 0 .. M - 1, NEW k \in 0 .. M
  PROVE  ((a + k) % M) % N = (a + k) % N
<1>1. a + k \in Nat /\ a + k < 2 * M /\ M > 0
  OBVIOUS
<1> QED BY <1>1, WrapKeepsEntry

(***************************************************************************)
(* The L entries of ring f from index a on, as a sequence.                 *)
(***************************************************************************)
RingSpan(f, a, L, N) == [k \in 1 .. L |-> f[(a + k - 1) % N]]

SpanIn(f, a, L, N, S) == \A k \in 1 .. L : f[(a + k - 1) % N] \in S

(***************************************************************************)
(* A function on 1 .. L is a sequence of length L.                         *)
(***************************************************************************)
LEMMA FunctionIsSeq ==
  ASSUME NEW L \in Nat, NEW S, NEW q \in [1 .. L -> S]
  PROVE  q \in Seq(S) /\ Len(q) = L
<1>1. q \in Seq(S)
  OBVIOUS
<1> QED BY <1>1, LenProperties

(***************************************************************************)
(* A store of c just behind a span of elements of S appends to it.         *)
(***************************************************************************)
SpanStore(f, g, a, L, N, S, c) ==
  /\ N \in Nat /\ N > 0 /\ DOMAIN f = 0 .. N - 1
  /\ a \in Nat /\ L \in 0 .. N - 1 /\ c \in S
  /\ SpanIn(f, a, L, N, S)
  /\ g = [f EXCEPT ![(a + L) % N] = c]

LEMMA SpanGrows ==
  ASSUME NEW f, NEW g, NEW a, NEW L, NEW N, NEW S, NEW c,
         SpanStore(f, g, a, L, N, S, c)
  PROVE  /\ SpanIn(g, a, L + 1, N, S)
         /\ RingSpan(f, a, L, N) \in Seq(S)
         /\ RingSpan(g, a, L + 1, N) = Append(RingSpan(f, a, L, N), c)
<1> USE DEF SpanStore
<1> DEFINE s == RingSpan(f, a, L, N)
           u == RingSpan(g, a, L + 1, N)
<1>0. L \in Nat /\ L \in L .. N - 1 /\ L + 1 \in Nat
  OBVIOUS
<1>1. /\ s \in Seq(S) /\ Len(s) = L
      /\ \A k \in 1 .. L : s[k] = f[(a + k - 1) % N]
  <2>1. s \in [1 .. L -> S] /\ \A k \in 1 .. L : s[k] = f[(a + k - 1) % N]
    BY DEF RingSpan, SpanIn
  <2> QED BY <1>0, <2>1, FunctionIsSeq
<1>2. ASSUME NEW k \in 1 .. L PROVE g[(a + k - 1) % N] = f[(a + k - 1) % N]
  <2>1. /\ k - 1 \in 0 .. N - 1 /\ L \in 0 .. N - 1 /\ k - 1 # L
        /\ a + k - 1 = a + (k - 1) /\ a + k - 1 \in Nat
    OBVIOUS
  <2>2. (a + k - 1) % N # (a + L) % N
    BY <2>1, EntriesDiffer
  <2>3. (a + k - 1) % N \in DOMAIN f
    BY <2>1, Division
  <2> QED BY <2>2, <2>3
<1>3. ASSUME NEW k \in 1 .. L PROVE g[(a + k - 1) % N] = s[k]
  BY <1>1, <1>2
<1>4. g[(a + (L + 1) - 1) % N] = c
  <2>1. (a + L) % N \in DOMAIN f /\ a + (L + 1) - 1 = a + L
    BY Division
  <2> QED BY <2>1
<1> HIDE DEF s, u
<1>5. \A k \in 1 .. L + 1 : g[(a + k - 1) % N] \in S
  <2>1. \A k \in 1 .. L : g[(a + k - 1) % N] \in S
    BY <1>1, <1>3, ElementOfSeq
  <2>2. \A k \in 1 .. L + 1 : k \in 1 .. L \/ k = L + 1
    OBVIOUS
  <2> QED BY <1>4, <2>1, <2>2
<1>6. /\ u \in Seq(S) /\ Len(u) = L + 1
      /\ \A k \in 1 .. L + 1 : u[k] = g[(a + k - 1) % N]
  <2>1. /\ u \in [1 .. L + 1 -> S]
        /\ \A k \in 1 .. L + 1 : u[k] = g[(a + k - 1) % N]
    BY <1>5 DEF u, RingSpan
  <2> QED BY <1>0, <2>1, FunctionIsSeq
<1>7. /\ Append(s, c) \in Seq(S) /\ Len(Append(s, c)) = L + 1
      /\ \A k \in 1 .. L : Append(s, c)[k] = s[k]
      /\ Append(s, c)[L + 1] = c
  BY <1>1, AppendProperties
<1>8. \A k \in 1 .. L + 1 : u[k] = Append(s, c)[k]
  <2>1. \A k \in 1 .. L : u[k] = s[k]
    <3>1. \A k \in 1 .. L : k \in 1 .. L + 1
      OBVIOUS
    <3> QED BY <1>3, <1>6, <3>1
  <2>2. L + 1 \in 1 .. L + 1
    OBVIOUS
  <2>3. u[L + 1] = c
    BY <1>4, <1>6, <2>2
  <2>4. \A k \in 1 .. L + 1 : k \in 1 .. L \/ k = L + 1
    OBVIOUS
  <2> QED BY <1>7, <2>1, <2>3, <2>4
<1>9. u = Append(s, c)
  BY <1>6, <1>7, <1>8, SeqEqual
<1> QED BY <1>1, <1>5, <1>9 DEF u, s, SpanIn

(***************************************************************************)
(* The step of the index behind which the span begins takes its head.      *)
(***************************************************************************)
SpanTake(f, a, L, N, M, S) ==
  /\ N \in Nat /\ N > 0 /\ M \in Nat /\ M > N /\ M % N = 0
  /\ a \in 0 .. M - 1 /\ L \in 1 .. N
  /\ SpanIn(f, a, L, N, S)

LEMMA SpanShrinks ==
  ASSUME NEW f, NEW a, NEW L, NEW N, NEW M, NEW S,
         SpanTake(f, a, L, N, M, S)
  PROVE  /\ SpanIn(f, (a + 1) % M, L - 1, N, S)
         /\ RingSpan(f, a, L, N) \in Seq(S)
         /\ RingSpan(f, a, L, N) # <<>>
         /\ f[a % N] \in S
         /\ Head(RingSpan(f, a, L, N)) = f[a % N]
         /\ RingSpan(f, (a + 1) % M, L - 1, N) = Tail(RingSpan(f, a, L, N))
<1> USE DEF SpanTake
<1> DEFINE s == RingSpan(f, a, L, N)
           b == (a + 1) % M
           u == RingSpan(f, b, L - 1, N)
<1>0. L \in Nat /\ a \in Nat /\ L - 1 \in Nat /\ M > 0
  OBVIOUS
<1>1. /\ s \in Seq(S) /\ Len(s) = L
      /\ \A k \in 1 .. L : s[k] = f[(a + k - 1) % N]
  <2>1. s \in [1 .. L -> S] /\ \A k \in 1 .. L : s[k] = f[(a + k - 1) % N]
    BY DEF RingSpan, SpanIn
  <2> QED BY <1>0, <2>1, FunctionIsSeq
<1>2. ASSUME NEW k \in 1 .. L - 1 PROVE (b + k - 1) % N = (a + (k + 1) - 1) % N
  <2>1. b = IF a + 1 < M THEN a + 1 ELSE a + 1 - M
    BY IndexAdd
  <2>2. CASE a + 1 < M
    BY <2>1, <2>2
  <2>3. CASE ~(a + 1 < M)
    <3>1. b = 0 /\ a + (k + 1) - 1 = M + (k - 1) /\ b + k - 1 = k - 1
      BY <2>1, <2>3
    <3>2. M + (k - 1) \in Nat /\ M + (k - 1) < 2 * M /\ k - 1 \in 0 .. M
      OBVIOUS
    <3>3. (M + (k - 1)) % M = k - 1
      <4>1. M + (k - 1) = M * 1 + (k - 1) /\ k - 1 \in 0 .. M - 1
        OBVIOUS
      <4> QED BY <3>2, <4>1, Remainder
    <3>4. ((M + (k - 1)) % M) % N = (M + (k - 1)) % N
      BY <1>0, <3>2, WrapKeepsEntry
    <3> QED BY <3>1, <3>3, <3>4
  <2> QED BY <2>2, <2>3
<1>3. b \in Nat
  BY Division
<1> HIDE DEF s, b, u
<1>4. \A k \in 1 .. L - 1 : f[(b + k - 1) % N] = s[k + 1]
  <2>1. \A k \in 1 .. L - 1 : k + 1 \in 1 .. L
    OBVIOUS
  <2> QED BY <1>1, <1>2, <2>1
<1>5. \A k \in 1 .. L - 1 : f[(b + k - 1) % N] \in S
  <2>1. \A k \in 1 .. L - 1 : k + 1 \in 1 .. L
    OBVIOUS
  <2> QED BY <1>1, <1>4, <2>1, ElementOfSeq
<1>6. /\ u \in Seq(S) /\ Len(u) = L - 1
      /\ \A k \in 1 .. L - 1 : u[k] = f[(b + k - 1) % N]
  <2>1. /\ u \in [1 .. L - 1 -> S]
        /\ \A k \in 1 .. L - 1 : u[k] = f[(b + k - 1) % N]
    BY <1>5 DEF u, RingSpan
  <2> QED BY <1>0, <2>1, FunctionIsSeq
<1>7. s # <<>>
  BY <1>1, EmptySeq
<1>8. /\ Tail(s) \in Seq(S) /\ Len(Tail(s)) = L - 1
      /\ \A k \in 1 .. L - 1 : Tail(s)[k] = s[k + 1]
  BY <1>1, <1>7, HeadTailProperties
<1>9. u = Tail(s)
  <2>1. \A k \in 1 .. L - 1 : u[k] = s[k + 1]
    BY <1>4, <1>6
  <2>2. Len(u) = Len(Tail(s)) /\ \A k \in 1 .. Len(u) : u[k] = Tail(s)[k]
    BY <1>6, <1>8, <2>1
  <2> QED BY <1>6, <1>8, <2>2, SeqEqual
<1>10. Head(s) = f[a % N]
  <2>1. Head(s) = s[1] /\ a + 1 - 1 = a
    BY <1>1, <1>7
  <2> QED BY <1>1, <2>1
<1>11. f[a % N] \in S
  <2>1. 1 \in 1 .. L /\ a + 1 - 1 = a
    OBVIOUS
  <2> QED BY <2>1 DEF SpanIn
<1>12. SpanIn(f, b, L - 1, N, S)
  BY <1>5 DEF SpanIn
<1> QED BY <1>1, <1>7, <1>9, <1>10, <1>11, <1>12 DEF s, u, b

(***************************************************************************)
(* A span of elements of S is a sequence of them.                          *)
(***************************************************************************)
LEMMA SpanSeq ==
  ASSUME NEW f, NEW a, NEW L \in Nat, NEW N, NEW S, SpanIn(f, a, L, N, S)
  PROVE  RingSpan(f, a, L, N) \in Seq(S) /\ Len(RingSpan(f, a, L, N)) = L
<1>1. RingSpan(f, a, L, N) \in [1 .. L -> S]
  BY DEF RingSpan, SpanIn
<1> QED BY <1>1, FunctionIsSeq

(***************************************************************************)
(* A store outside a span does not change it.                              *)
(***************************************************************************)
SpanOther(f, g, a, L, j, N, c) ==
  /\ N \in Nat /\ N > 0 /\ DOMAIN f = 0 .. N - 1
  /\ a \in Nat /\ L \in Nat /\ j \in L .. N - 1
  /\ g = [f EXCEPT ![(a + j) % N] = c]

LEMMA SpanKeeps ==
  ASSUME NEW f, NEW g, NEW a, NEW L, NEW j, NEW N, NEW c,
         SpanOther(f, g, a, L, j, N, c)
  PROVE  /\ RingSpan(g, a, L, N) = RingSpan(f, a, L, N)
         /\ \A S : SpanIn(f, a, L, N, S) => SpanIn(g, a, L, N, S)
<1> USE DEF SpanOther
<1>1. ASSUME NEW k \in 1 .. L PROVE g[(a + k - 1) % N] = f[(a + k - 1) % N]
  <2>1. /\ k - 1 \in 0 .. N - 1 /\ j \in 0 .. N - 1 /\ k - 1 # j
        /\ a + k - 1 = a + (k - 1) /\ a + k - 1 \in Nat
    OBVIOUS
  <2>2. (a + k - 1) % N # (a + j) % N
    BY <2>1, EntriesDiffer
  <2>3. (a + k - 1) % N \in DOMAIN f
    BY <2>1, Division
  <2> QED BY <2>2, <2>3
<1>2. RingSpan(g, a, L, N) = RingSpan(f, a, L, N)
  BY <1>1 DEF RingSpan
<1>3. ASSUME NEW S, SpanIn(f, a, L, N, S) PROVE SpanIn(g, a, L, N, S)
  BY <1>1, <1>3 DEF SpanIn
<1> QED BY <1>2, <1>3

(***************************************************************************)
(* Two spans, the second of which begins where the first ends.             *)
(***************************************************************************)
SpanParts(f, a, L, b, K, N, M, S) ==
  /\ N \in Nat /\ N > 0 /\ M \in Nat /\ M > N /\ M % N = 0
  /\ a \in 0 .. M - 1 /\ b = (a + L) % M
  /\ L \in Nat /\ K \in Nat /\ L + K <= N
  /\ SpanIn(f, a, L, N, S) /\ SpanIn(f, b, K, N, S)

LEMMA SpanJoin ==
  ASSUME NEW f, NEW a, NEW L, NEW b, NEW K, NEW N, NEW M, NEW S,
         SpanParts(f, a, L, b, K, N, M, S)
  PROVE  /\ SpanIn(f, a, L + K, N, S)
         /\ RingSpan(f, a, L + K, N) = RingSpan(f, a, L, N) \o RingSpan(f, b, K, N)
<1> USE DEF SpanParts
<1> DEFINE s == RingSpan(f, a, L, N)
           u == RingSpan(f, b, K, N)
           q == RingSpan(f, a, L + K, N)
<1>0. L \in Nat /\ K \in Nat
  OBVIOUS
<1>1. ASSUME NEW k \in 1 .. K PROVE (b + k - 1) % N = (a + (L + k) - 1) % N
  <2>1. b = IF a + L < M THEN a + L ELSE a + L - M
    BY IndexAdd
  <2>2. CASE a + L < M
    BY <2>1, <2>2
  <2>3. CASE ~(a + L < M)
    <3>1. /\ b + k - 1 \in 0 .. M - 1
          /\ a + (L + k) - 1 = M * 1 + (b + k - 1)
          /\ a + (L + k) - 1 \in Nat /\ a + (L + k) - 1 < 2 * M
      BY <2>1, <2>3
    <3>2. (a + (L + k) - 1) % M = b + k - 1
      BY <3>1, Remainder
    <3>3. ((a + (L + k) - 1) % M) % N = (a + (L + k) - 1) % N
      BY <3>1, WrapKeepsEntry
    <3> QED BY <3>2, <3>3
  <2> QED BY <2>2, <2>3
<1>2. ASSUME NEW k \in L + 1 .. L + K
      PROVE  k - L \in 1 .. K /\ f[(a + k - 1) % N] = f[(b + (k - L) - 1) % N]
  <2>1. k - L \in 1 .. K /\ L + (k - L) = k
    OBVIOUS
  <2> QED BY <1>1, <2>1
<1>3. SpanIn(f, a, L + K, N, S)
  <2>1. \A k \in L + 1 .. L + K : f[(a + k - 1) % N] \in S
    BY <1>2 DEF SpanIn
  <2>2. \A k \in 1 .. L + K : k \in 1 .. L \/ k \in L + 1 .. L + K
    OBVIOUS
  <2> QED BY <2>1, <2>2 DEF SpanIn
<1>4. /\ s \in Seq(S) /\ Len(s) = L /\ u \in Seq(S) /\ Len(u) = K
      /\ q \in Seq(S) /\ Len(q) = L + K
  BY <1>3, SpanSeq
<1>5. \A k \in 1 .. L : q[k] = s[k]
  <2>1. \A k \in 1 .. L : k \in 1 .. L + K
    OBVIOUS
  <2> QED BY <2>1 DEF RingSpan
<1>6. \A k \in L + 1 .. L + K : q[k] = u[k - L]
  <2>1. \A k \in L + 1 .. L + K : k \in 1 .. L + K
    OBVIOUS
  <2> QED BY <1>2, <2>1 DEF RingSpan
<1> HIDE DEF s, u, q
<1>7. /\ s \o u \in Seq(S) /\ Len(s \o u) = L + K
      /\ \A k \in 1 .. L + K : (s \o u)[k] = IF k <= L THEN s[k] ELSE u[k - L]
  BY <1>4, ConcatProperties
<1>8. ASSUME NEW k \in 1 .. L + K PROVE q[k] = (s \o u)[k]
  <2>1. CASE k <= L
    <3>1. k \in 1 .. L
      BY <1>0, <2>1
    <3> QED BY <1>5, <1>7, <2>1, <3>1
  <2>2. CASE ~(k <= L)
    <3>1. k \in L + 1 .. L + K
      BY <1>0, <2>2
    <3> QED BY <1>6, <1>7, <2>2, <3>1
  <2> QED BY <2>1, <2>2
<1>9. q = s \o u
  BY <1>4, <1>7, <1>8, SeqEqual
<1> QED BY <1>3, <1>9 DEF s, u, q

(***************************************************************************)
(* The last element of a span is given up.                                 *)
(***************************************************************************)
LEMMA SpanFront ==
  ASSUME NEW f, NEW a, NEW L \in Nat \ {0}, NEW N, NEW S, SpanIn(f, a, L, N, S)
  PROVE  /\ SpanIn(f, a, L - 1, N, S)
         /\ RingSpan(f, a, L - 1, N) = SubSeq(RingSpan(f, a, L, N), 1, L - 1)
<1> DEFINE s == RingSpan(f, a, L, N)
           u == RingSpan(f, a, L - 1, N)
<1>1. \A k \in 1 .. L - 1 : k \in 1 .. L
  OBVIOUS
<1>2. SpanIn(f, a, L - 1, N, S)
  BY <1>1 DEF SpanIn
<1>3. L - 1 \in Nat
  OBVIOUS
<1>4. s \in Seq(S) /\ Len(s) = L /\ u \in Seq(S) /\ Len(u) = L - 1
  BY <1>2, <1>3, SpanSeq
<1>5. \A k \in 1 .. L - 1 : u[k] = s[k]
  BY <1>1 DEF RingSpan
<1> HIDE DEF s, u
<1>6. /\ SubSeq(s, 1, L - 1) \in Seq(S) /\ Len(SubSeq(s, 1, L - 1)) = L - 1
      /\ \A k \in 1 .. L - 1 : SubSeq(s, 1, L - 1)[k] = s[k]
  BY <1>4
<1>7. u = SubSeq(s, 1, L - 1)
  BY <1>4, <1>5, <1>6, SeqEqual
<1> QED BY <1>2, <1>7 DEF s, u

(***************************************************************************)
(* A sequence taken apart and put together.                                *)
(***************************************************************************)
LEMMA HeadAndTail ==
  ASSUME NEW S, NEW s \in Seq(S), s # <<>>
  PROVE  <<Head(s)>> \o Tail(s) = s
<1>1. Len(s) \in Nat \ {0} /\ s[1] = Head(s)
  BY EmptySeq
<1>2. SubSeq(s, 1, Len(s)) = <<s[1]>> \o SubSeq(s, 2, Len(s))
  <2>1. 1 \in 1 .. Len(s) /\ Len(s) \in 1 .. Len(s)
    BY <1>1
  <2> QED BY <2>1, SubSeqRecursiveFirst
<1>3. SubSeq(s, 1, Len(s)) = s /\ SubSeq(s, 2, Len(s)) = Tail(s)
  BY SubSeqFull, TailIsSubSeq
<1> QED BY <1>1, <1>2, <1>3

LEMMA TailOfConcat ==
  ASSUME NEW S, NEW c \in S, NEW s \in Seq(S)
  PROVE  /\ <<c>> \o s # <<>>
         /\ Head(<<c>> \o s) = c
         /\ Tail(<<c>> \o s) = s
<1> DEFINE q == <<c>> \o s
<1>1. <<c>> \in Seq(S) /\ Len(<<c>>) = 1
  OBVIOUS
<1>2. q \in Seq(S) /\ Len(q) = 1 + Len(s) /\ Len(s) \in Nat
  BY <1>1, ConcatProperties, LenProperties
<1>3. \A i \in 1 .. 1 + Len(s) : q[i] = IF i <= 1 THEN <<c>>[i] ELSE s[i - 1]
  BY <1>1, ConcatProperties
<1> HIDE DEF q
<1>4. q # <<>>
  BY <1>2, EmptySeq
<1>5. Head(q) = c
  <2>1. Head(q) = q[1] /\ 1 \in 1 .. 1 + Len(s)
    BY <1>2, <1>4
  <2> QED BY <1>3, <2>1
<1>6. /\ Tail(q) \in Seq(S) /\ Len(Tail(q)) = Len(s)
      /\ \A i \in 1 .. Len(s) : Tail(q)[i] = q[i + 1]
  BY <1>2, <1>4, HeadTailProperties
<1>7. \A i \in 1 .. Len(s) : q[i + 1] = s[i]
  BY <1>2, <1>3
<1>8. Tail(q) = s
  BY <1>6, <1>7, SeqEqual
<1> QED BY <1>4, <1>5, <1>8 DEF q

LEMMA AppendToConcat ==
  ASSUME NEW S, NEW c \in S, NEW s \in Seq(S), NEW u \in Seq(S)
  PROVE  s \o Append(u, c) = Append(s \o u, c)
<1>1. Append(u, c) = u \o <<c>> /\ <<c>> \in Seq(S)
  BY AppendIsConcat
<1>2. s \o u \in Seq(S)
  BY ConcatProperties
<1>3. Append(s \o u, c) = (s \o u) \o <<c>>
  BY <1>2, AppendIsConcat
<1>4. (s \o u) \o <<c>> = s \o (u \o <<c>>)
  BY <1>1, ConcatAssociative
<1> QED BY <1>1, <1>3, <1>4

-----------------------------------------------------------------------------
(***************************************************************************)
(* The console's input.                                                    *)
(***************************************************************************)
N == INPUT_MAX
M == IdxMod
Typed == Char \cup {Nl, Eof}

\* Characters handed over to the readers, and in the line being typed.
Ready   == Sub(w, r)
Pending == Sub(e, w)

TypeOK ==
  /\ buf \in [0 .. N - 1 -> Typed \cup {NoChar}]
  /\ r \in 0 .. M - 1 /\ w \in 0 .. M - 1 /\ e \in 0 .. M - 1
  /\ slock \in Reader \cup {NoReader}
  /\ pc \in [Reader -> {"idle", "loop", "asleep", "relock", "done",
                      "panic"}]
  /\ n \in [Reader -> Nat]
  /\ target \in [Reader -> Nat]
  /\ got \in [Reader -> Seq(Typed)]

\* A reader in consoleread's critical section is the holder of cons.slock.
LockOK == \A t \in Reader : pc[t] \in {"loop", "done", "panic"} => slock = t

\* Queue and line together fit in the ring; a full ring is all queue.
Room == Ready + Pending <= N /\ (Ready + Pending = N => Pending = 0)

\* What was typed is in the ring, and the line being typed has no end.
Filled == SpanIn(buf, r, Ready, N, Typed) /\ SpanIn(buf, w, Pending, N, Char)

\* A read that still wants all it asked for has copied nothing.
CopiedOK ==
  \A t \in Reader :
    /\ n[t] <= target[t]
    /\ n[t] = target[t] \/ pc[t] = "idle" => got[t] = <<>>

\* A reader goes to sleep only on an empty queue, and is woken when it fills.
AsleepEmpty == \A t \in Reader : pc[t] = "asleep" => r = w

IInv == TypeOK /\ LockOK /\ Room /\ Filled /\ CopiedOK /\ AsleepEmpty

-----------------------------------------------------------------------------
(***************************************************************************)
(* The three indices.                                                      *)
(***************************************************************************)
LEMMA Sizes ==
  /\ N \in Nat /\ N > 0
  /\ M \in Nat /\ M > N /\ M > 0 /\ M % N = 0
BY ConsoleAssumption DEF N, M

LEMMA IdxSize == M \in Nat /\ M > 0
BY Sizes

LEMMA RingSize == N \in Nat /\ N > 0
BY Sizes

LEMMA SubIsDist == \A i, j : Sub(j, i) = Dist(j, i, M)
BY DEF Sub, Dist, M

LEMMA SpanIsRing ==
  ASSUME NEW i \in 0 .. M - 1, NEW j \in 0 .. M - 1
  PROVE  Span(i, j) = RingSpan(buf, i, Sub(j, i), N)
<1>1. Sub(j, i) \in 0 .. M - 1
  BY Sizes, DistFacts, SubIsDist
<1>2. ASSUME NEW k \in 1 .. Sub(j, i)
      PROVE  CharAt(Add(i, k - 1)) = buf[(i + k - 1) % N]
  <2>1. k - 1 \in 0 .. M /\ i + (k - 1) = i + k - 1
    BY <1>1, Sizes
  <2>2. ((i + (k - 1)) % M) % N = (i + (k - 1)) % N
    BY <2>1, Sizes, EntryFrom
  <2>3. CharAt(Add(i, k - 1)) = buf[((i + (k - 1)) % M) % N]
    BY DEF CharAt, Add, M, N
  <2> QED BY <2>1, <2>2, <2>3
<1> QED BY <1>2 DEF Span, RingSpan

LEMMA Lengths ==
  ASSUME TypeOK, Room
  PROVE  /\ Ready \in 0 .. N /\ Pending \in 0 .. N /\ Ready + Pending \in 0 .. N
         /\ Sub(e, r) = Ready + Pending
         /\ Ready = 0 <=> r = w
         /\ Pending = 0 <=> w = e
         /\ Ready = Dist(w, r, M) /\ Pending = Dist(e, w, M)
         /\ w = (r + Ready) % M
<1>1. r \in 0 .. M - 1 /\ w \in 0 .. M - 1 /\ e \in 0 .. M - 1
  BY DEF TypeOK
<1>2. Ready = Dist(w, r, M) /\ Pending = Dist(e, w, M)
  BY SubIsDist DEF Ready, Pending
<1>3. /\ Ready \in 0 .. M - 1 /\ (Ready = 0 <=> r = w)
      /\ (r + Ready) % M = w
  <2>1. Dist(w, r, M) \in 0 .. M - 1 /\ (Dist(w, r, M) = 0 <=> r = w)
    BY <1>1, IdxSize, DistFacts
  <2>2. (r + Dist(w, r, M)) % M = w
    BY <1>1, IdxSize, DistFacts
  <2> QED BY <1>2, <2>1, <2>2
<1>4. Pending \in 0 .. M - 1 /\ (Pending = 0 <=> w = e)
  <2>1. Dist(e, w, M) \in 0 .. M - 1 /\ (Dist(e, w, M) = 0 <=> w = e)
    BY <1>1, IdxSize, DistFacts
  <2> QED BY <1>2, <2>1
<1>5. Ready \in 0 .. N /\ Pending \in 0 .. N /\ Ready + Pending \in 0 .. N
  BY <1>3, <1>4, Sizes DEF Room
<1>6. Dist(e, r, M) = Ready + Pending
  <2>1. Dist(w, r, M) + Dist(e, w, M) < M
    BY <1>2, <1>5, Sizes
  <2> QED BY <1>1, <1>2, <2>1, Sizes, DistSum
<1> QED BY <1>2, <1>3, <1>4, <1>5, <1>6, SubIsDist

-----------------------------------------------------------------------------
(***************************************************************************)
(* Queue and line as sequences, and what the steps do to them.             *)
(***************************************************************************)
Queue == RingSpan(buf, r, Ready, N)
Line  == RingSpan(buf, w, Pending, N)

SpansAreRings == Span(r, w) = Queue /\ Span(w, e) = Line

LEMMA Views == TypeOK => SpansAreRings
BY SpanIsRing DEF TypeOK, Queue, Line, Ready, Pending, SpansAreRings

LEMMA SeqTypes ==
  ASSUME TypeOK, Room, Filled
  PROVE  /\ Queue \in Seq(Typed) /\ Len(Queue) = Ready
         /\ Line \in Seq(Typed) /\ Len(Line) = Pending
<1>1. Ready \in Nat /\ Pending \in Nat
  BY Lengths
<1>2. Queue \in Seq(Typed) /\ Len(Queue) = Ready
  BY <1>1, SpanSeq DEF Filled, Queue
<1>3. Line \in Seq(Char) /\ Len(Line) = Pending
  BY <1>1, SpanSeq DEF Filled, Line
<1>4. Line \in Seq(Typed)
  BY <1>3, SeqMonotonic DEF Typed
<1> QED BY <1>2, <1>3, <1>4

\* A character is taken from the queue.
LEMMA TakeFacts ==
  ASSUME TypeOK, Room, Filled, r # w, r' = Add(r, 1), UNCHANGED <<buf, w, e>>
  PROVE  /\ r' \in 0 .. M - 1
         /\ Room' /\ Filled'
         /\ CharAt(r) \in Typed
         /\ Queue # <<>> /\ Head(Queue) = CharAt(r)
         /\ Queue' = Tail(Queue) /\ Line' = Line
<1>0. r \in 0 .. M - 1 /\ w \in 0 .. M - 1
  BY DEF TypeOK
<1>1. Ready \in 1 .. N /\ Pending \in 0 .. N
  BY Lengths
<1>2. r' = (r + 1) % M
  BY DEF Add, M
<1>3. r' \in 0 .. M - 1 /\ Ready' = Ready - 1
  <2>1. Ready = Dist(w, r, M) /\ Ready' = Dist(w', r', M)
    BY SubIsDist DEF Ready, Sub, Dist, M
  <2>2. /\ (r + 1) % M \in 0 .. M - 1
        /\ Dist(w, (r + 1) % M, M) = Dist(w, r, M) - 1
    BY <1>0, IdxSize, DistShrinks
  <2> QED BY <1>2, <2>1, <2>2
<1>4. Pending' = Pending
  BY DEF Pending, Sub
<1>5. SpanTake(buf, r, Ready, N, M, Typed)
  BY <1>0, <1>1, Sizes DEF Filled, SpanTake
<1>6. /\ SpanIn(buf, (r + 1) % M, Ready - 1, N, Typed)
      /\ RingSpan(buf, r, Ready, N) # <<>>
      /\ buf[r % N] \in Typed
      /\ Head(RingSpan(buf, r, Ready, N)) = buf[r % N]
      /\ RingSpan(buf, (r + 1) % M, Ready - 1, N) = Tail(RingSpan(buf, r, Ready, N))
  BY <1>5, SpanShrinks
<1>7. Room'
  BY <1>1, <1>3, <1>4, RingSize DEF Room
<1>8. Filled'
  BY <1>2, <1>3, <1>4, <1>6 DEF Filled
<1>9. Queue' = Tail(Queue) /\ Line' = Line
  BY <1>2, <1>3, <1>4, <1>6 DEF Queue, Line
<1> QED BY <1>3, <1>6, <1>7, <1>8, <1>9 DEF Queue, CharAt, N

\* The last character of the line is erased.
LEMMA EraseFacts ==
  ASSUME TypeOK, Room, Filled, e # w, e' = Sub(e, 1), UNCHANGED <<buf, r, w>>
  PROVE  /\ e' \in 0 .. M - 1
         /\ Room' /\ Filled'
         /\ Queue' = Queue /\ Line # <<>>
         /\ Line' = SubSeq(Line, 1, Len(Line) - 1)
<1>0. w \in 0 .. M - 1 /\ e \in 0 .. M - 1
  BY DEF TypeOK
<1>1. Ready \in 0 .. N /\ Pending \in 1 .. N /\ Pending \in Nat \ {0}
  BY Lengths
<1>2. e' = (e + M - 1) % M
  BY DEF Sub, M
<1>3. e' \in 0 .. M - 1 /\ Pending' = Pending - 1
  <2>1. Pending = Dist(e, w, M) /\ Pending' = Dist(e', w', M)
    BY SubIsDist DEF Pending, Sub, Dist, M
  <2>2. /\ (e + M - 1) % M \in 0 .. M - 1
        /\ Dist((e + M - 1) % M, w, M) = Dist(e, w, M) - 1
    BY <1>0, IdxSize, DistBack
  <2> QED BY <1>2, <2>1, <2>2
<1>4. Ready' = Ready
  BY DEF Ready, Sub
<1>5. /\ SpanIn(buf, w, Pending - 1, N, Char)
      /\ RingSpan(buf, w, Pending - 1, N) = SubSeq(Line, 1, Pending - 1)
  BY <1>1, SpanFront DEF Filled, Line
<1>6. Room'
  BY <1>1, <1>3, <1>4, RingSize DEF Room
<1>7. Filled'
  BY <1>3, <1>4, <1>5 DEF Filled
<1>8. Queue' = Queue /\ Line' = SubSeq(Line, 1, Pending - 1)
  BY <1>3, <1>4, <1>5 DEF Queue, Line
<1>9. Len(Line) = Pending /\ Line # <<>>
  BY <1>1, SeqTypes, EmptySeq
<1> QED BY <1>3, <1>6, <1>7, <1>8, <1>9

\* The line is erased: it holds no end of line at which to stop.
LEMMA KillFacts ==
  ASSUME TypeOK, Room, Filled, IntrKill
  PROVE  /\ e' = w
         /\ Room' /\ Filled'
         /\ Queue' = Queue /\ Line' = <<>>
<1> DEFINE stops == {k \in 0 .. Sub(e, w) :
                       k = 0 \/ CharAt(Add(w, k - 1)) = Nl}
<1>0. w \in 0 .. M - 1 /\ e \in 0 .. M - 1
  BY DEF TypeOK
<1>1. Sub(e, w) = Pending /\ Pending \in 0 .. N /\ Ready \in 0 .. N
  BY Lengths DEF Pending
<1>2. ASSUME NEW k \in 1 .. Pending PROVE CharAt(Add(w, k - 1)) # Nl
  <2>1. Span(w, e)[k] = CharAt(Add(w, k - 1)) /\ Span(w, e)[k] = Line[k]
    BY <1>1, Views DEF Span, SpansAreRings
  <2>2. Line[k] \in Char
    BY <1>1 DEF Line, RingSpan, Filled, SpanIn
  <2> QED BY <2>1, <2>2, ConsoleAssumption
<1>3. stops = {0}
  <2>1. \A k \in 0 .. Pending : k = 0 \/ k \in 1 .. Pending
    BY <1>1
  <2>2. 0 \in 0 .. Pending
    BY <1>1
  <2> QED BY <1>1, <1>2, <2>1, <2>2
<1>4. Max({0}) = 0
  BY DEF Max
<1>5. e' = Add(w, 0)
  BY <1>3, <1>4 DEF IntrKill
<1>6. e' = w
  <2>1. (w + 0) % M = w
    BY <1>0, IdxSize
  <2> QED BY <1>5, <2>1 DEF Add, M
<1>7. buf' = buf /\ r' = r /\ w' = w
  BY DEF IntrKill
<1>8. Ready' = Ready /\ Pending' = 0
  <2>1. Pending' = Dist(e', w', M)
    BY DEF Pending, Sub, Dist, M
  <2>2. Dist(w, w, M) = 0
    BY <1>0, IdxSize, DistFacts
  <2> QED BY <1>6, <1>7, <2>1, <2>2 DEF Ready, Sub
<1>9. Room'
  BY <1>1, <1>8, Sizes DEF Room
<1>10. Filled'
  BY <1>7, <1>8 DEF Filled, SpanIn
<1>11. Queue' = Queue /\ Line' = <<>>
  BY <1>7, <1>8 DEF Queue, Line, RingSpan
<1> QED BY <1>6, <1>9, <1>10, <1>11

\* A character is typed; HandedOver is consoleintr's test.
HandedOver(c) == c \in {Nl, Eof} \/ Ready + Pending + 1 = N

LEMMA CharFacts ==
  ASSUME TypeOK, Room, Filled, NEW c \in Typed, IntrChar(c)
  PROVE  /\ e' \in 0 .. M - 1 /\ w' \in 0 .. M - 1
         /\ buf' \in [0 .. N - 1 -> Typed \cup {NoChar}]
         /\ Ready + Pending < N
         /\ Room' /\ Filled'
         /\ HandedOver(c) =>
              w' = e' /\ pc' = Woken /\ Queue' = Queue \o Append(Line, c) /\ Line' = <<>>
         /\ ~HandedOver(c) =>
              w' = w /\ pc' = pc /\ Queue' = Queue /\ Line' = Append(Line, c)
<1>0. /\ r \in 0 .. M - 1 /\ w \in 0 .. M - 1 /\ e \in 0 .. M - 1
      /\ r \in Nat /\ w \in Nat /\ e \in Nat
  BY IdxSize DEF TypeOK
<1>1. /\ Ready + Pending < N /\ Ready \in Nat /\ Pending \in Nat
      /\ Ready + Pending \in Ready .. N - 1 /\ Pending \in 0 .. N - 1
      /\ Ready = Dist(w, r, M) /\ Pending = Dist(e, w, M)
      /\ Ready + Pending = Dist(e, r, M)
  BY Lengths, RingSize, SubIsDist DEF IntrChar, N
<1>2. e' = (e + 1) % M /\ r' = r
  BY DEF IntrChar, Add, M
<1>3. e' \in 0 .. M - 1 /\ Dist(e', w, M) = Pending + 1
  <2>1. Dist(e, w, M) < M - 1
    BY <1>1, Sizes
  <2>2. /\ (e + 1) % M \in 0 .. M - 1
        /\ Dist((e + 1) % M, w, M) = Dist(e, w, M) + 1
    BY <1>0, <2>1, IdxSize, DistGrows
  <2> QED BY <1>1, <1>2, <2>2
<1>4. Dist(e', r, M) = Ready + Pending + 1
  <2>1. Dist(w, r, M) + Dist(e', w, M) < M
    BY <1>1, <1>3, Sizes
  <2>2. Dist(e', r, M) = Dist(w, r, M) + Dist(e', w, M)
    BY <1>0, <1>3, <2>1, IdxSize, DistSum
  <2> QED BY <1>1, <1>3, <2>2
<1>5. e % N = (w + Pending) % N /\ e % N = (r + (Ready + Pending)) % N
  <2>1. e = (w + Pending) % M /\ e = (r + (Ready + Pending)) % M
    <3>1. (w + Dist(e, w, M)) % M = e
      BY <1>0, IdxSize, DistFacts
    <3>2. (r + Dist(e, r, M)) % M = e
      BY <1>0, IdxSize, DistFacts
    <3> QED BY <1>1, <3>1, <3>2
  <2>2. Pending \in 0 .. M /\ Ready + Pending \in 0 .. M
    BY <1>1, Sizes
  <2>3. ((w + Pending) % M) % N = (w + Pending) % N
    BY <1>0, <2>2, Sizes, EntryFrom
  <2>4. ((r + (Ready + Pending)) % M) % N = (r + (Ready + Pending)) % N
    BY <1>0, <2>2, Sizes, EntryFrom
  <2> QED BY <2>1, <2>3, <2>4
<1>6. /\ DOMAIN buf = 0 .. N - 1
      /\ buf' = [buf EXCEPT ![e % N] = c]
      /\ buf' \in [0 .. N - 1 -> Typed \cup {NoChar}]
  BY DEF TypeOK, IntrChar, N
<1>7. /\ SpanIn(buf', r, Ready, N, Typed)
      /\ RingSpan(buf', r, Ready, N) = Queue
  <2>1. SpanOther(buf, buf', r, Ready, Ready + Pending, N, c)
    BY <1>0, <1>1, <1>5, <1>6, RingSize DEF SpanOther
  <2> QED BY <2>1, SpanKeeps DEF Filled, Queue
<1>8. /\ SpanIn(buf', w, Pending + 1, N, Typed)
      /\ c \in Char => SpanIn(buf', w, Pending + 1, N, Char)
      /\ RingSpan(buf', w, Pending + 1, N) = Append(Line, c)
  <2>1. SpanIn(buf, w, Pending, N, Char) /\ SpanIn(buf, w, Pending, N, Typed)
    BY DEF Filled, SpanIn, Typed
  <2>2. SpanStore(buf, buf', w, Pending, N, Typed, c)
    BY <1>0, <1>1, <1>5, <1>6, <2>1, RingSize DEF SpanStore
  <2>3. ASSUME c \in Char PROVE SpanStore(buf, buf', w, Pending, N, Char, c)
    BY <1>0, <1>1, <1>5, <1>6, <2>1, <2>3, RingSize DEF SpanStore
  <2>4. SpanIn(buf', w, Pending + 1, N, Typed)
        /\ RingSpan(buf', w, Pending + 1, N) = Append(Line, c)
    BY <2>2, SpanGrows DEF Line
  <2>5. c \in Char => SpanIn(buf', w, Pending + 1, N, Char)
    BY <2>3, SpanGrows
  <2> QED BY <2>4, <2>5
<1>9. e' = Add(r, INPUT_MAX) <=> Ready + Pending + 1 = N
  <2>1. N \in 0 .. M - 1
    BY Sizes
  <2>2. e' = (r + N) % M <=> Dist(e', r, M) = N
    BY <1>0, <1>3, <2>1, IdxSize, DistIs
  <2> QED BY <1>4, <2>2 DEF Add, M, N
<1>10. Ready' = Dist(w', r', M) /\ Pending' = Dist(e', w', M)
  BY DEF Ready, Pending, Sub, Dist, M
<1>11. CASE HandedOver(c)
  <2>1. w' = e' /\ pc' = Woken
    BY <1>9, <1>11 DEF IntrChar, HandedOver
  <2>2. Ready' = Ready + (Pending + 1) /\ Pending' = 0
    <3>1. Dist(e', e', M) = 0
      BY <1>3, IdxSize, DistFacts
    <3> QED BY <1>1, <1>2, <1>4, <1>10, <2>1, <3>1
  <2>3. SpanParts(buf', r, Ready, w, Pending + 1, N, M, Typed)
    <3>1. w = (r + Ready) % M
      BY Lengths
    <3>2. Pending + 1 \in Nat /\ Ready + (Pending + 1) <= N
      BY <1>1, RingSize
    <3> QED BY <1>0, <1>1, <1>7, <1>8, <3>1, <3>2, Sizes DEF SpanParts
  <2>4. /\ SpanIn(buf', r, Ready + (Pending + 1), N, Typed)
        /\ RingSpan(buf', r, Ready + (Pending + 1), N) = Queue \o Append(Line, c)
    <3>1. /\ SpanIn(buf', r, Ready + (Pending + 1), N, Typed)
          /\ RingSpan(buf', r, Ready + (Pending + 1), N)
               = RingSpan(buf', r, Ready, N) \o RingSpan(buf', w, Pending + 1, N)
      BY <2>3, SpanJoin
    <3> QED BY <1>7, <1>8, <3>1
  <2>5. Room'
    BY <1>1, <2>2, RingSize DEF Room
  <2>6. Filled'
    BY <1>2, <2>2, <2>4 DEF Filled, SpanIn
  <2>7. Queue' = Queue \o Append(Line, c) /\ Line' = <<>>
    <3>1. /\ Queue' = RingSpan(buf', r', Ready', N)
          /\ Line' = [k \in 1 .. 0 |-> buf'[(w' + k - 1) % N]]
      BY <2>2 DEF Queue, Line, RingSpan
    <3> QED BY <1>2, <2>2, <2>4, <3>1, SMTT(30)
  <2> QED BY <1>1, <1>3, <1>6, <1>11, <2>1, <2>5, <2>6, <2>7
<1>12. CASE ~HandedOver(c)
  <2>1. w' = w /\ pc' = pc /\ c \in Char
    BY <1>9, <1>12 DEF IntrChar, HandedOver, Typed
  <2>2. Ready' = Ready /\ Pending' = Pending + 1
    BY <1>1, <1>2, <1>3, <1>10, <2>1
  <2>3. Room'
    BY <1>1, <1>12, <2>2, RingSize DEF Room, HandedOver
  <2>4. Filled'
    BY <1>2, <1>7, <1>8, <2>1, <2>2 DEF Filled
  <2>5. Queue' = Queue /\ Line' = Append(Line, c)
    BY <1>2, <1>7, <1>8, <2>1, <2>2 DEF Queue, Line
  <2> QED BY <1>0, <1>1, <1>3, <1>6, <1>12, <2>1, <2>3, <2>4, <2>5
<1> QED BY <1>11, <1>12

-----------------------------------------------------------------------------
(***************************************************************************)
(* The invariant is inductive: one step for each action.                   *)
(***************************************************************************)
LEMMA InitIInv == Init => IInv
<1> SUFFICES ASSUME Init PROVE IInv
  OBVIOUS
<1>1. TypeOK
  <2>1. 0 \in 0 .. M - 1
    BY IdxSize
  <2> QED BY <2>1 DEF Init, TypeOK, N
<1>2. Ready = 0 /\ Pending = 0
  <2>1. Dist(0, 0, M) = 0
    BY IdxSize, DistFacts
  <2> QED BY <2>1, SubIsDist DEF Init, Ready, Pending
<1>3. Room
  BY <1>2, RingSize DEF Room
<1>4. Filled
  BY <1>2 DEF Filled, SpanIn
<1>5. LockOK /\ CopiedOK /\ AsleepEmpty
  BY DEF Init, LockOK, CopiedOK, AsleepEmpty
<1> QED BY <1>1, <1>3, <1>4, <1>5 DEF IInv

\* The ring is as it was.
LEMMA RingKept ==
  ASSUME Room, Filled, UNCHANGED cons
  PROVE  Room' /\ Filled' /\ Queue' = Queue /\ Line' = Line
<1>1. Ready' = Ready /\ Pending' = Pending
  BY DEF Ready, Pending, Sub, cons
<1> QED BY <1>1 DEF Room, Filled, Queue, Line, cons

\* ReadEof takes the end of file, or puts it back.
LEMMA EofPutBack ==
  ASSUME TypeOK PROVE Sub(Add(r, 1), 1) = r
<1>1. r \in 0 .. M - 1
  BY DEF TypeOK
<1>2. (((r + 1) % M) + M - 1) % M = r
  BY <1>1, IdxSize, DistBack
<1> QED BY <1>2 DEF Sub, Add, M

LEMMA NextIInv == IInv /\ [Next]_vars => IInv'
<1> SUFFICES ASSUME IInv, [Next]_vars PROVE IInv'
  OBVIOUS
<1>0. TypeOK /\ LockOK /\ Room /\ Filled /\ CopiedOK /\ AsleepEmpty
  BY DEF IInv
<1>c. NoReader \notin Reader
  BY ConsoleAssumption
<1> USE <1>0, <1>c
<1>1. ASSUME IntrKill PROVE IInv'
  <2>1. e' = w /\ Room' /\ Filled'
    BY <1>1, KillFacts
  <2>2. TypeOK'
    BY <1>1, <2>1 DEF IntrKill, TypeOK, reads
  <2>3. LockOK' /\ CopiedOK' /\ AsleepEmpty'
    BY <1>1 DEF IntrKill, reads, LockOK, CopiedOK, AsleepEmpty
  <2> QED BY <2>1, <2>2, <2>3 DEF IInv
<1>2. ASSUME IntrErase PROVE IInv'
  <2>1. e' \in 0 .. M - 1 /\ Room' /\ Filled'
    BY <1>2, EraseFacts DEF IntrErase
  <2>2. TypeOK'
    BY <1>2, <2>1 DEF IntrErase, TypeOK, reads
  <2>3. LockOK' /\ CopiedOK' /\ AsleepEmpty'
    BY <1>2 DEF IntrErase, reads, LockOK, CopiedOK, AsleepEmpty
  <2> QED BY <2>1, <2>2, <2>3 DEF IInv
<1>3. ASSUME NEW c \in Typed, IntrChar(c) PROVE IInv'
  <2>1. /\ e' \in 0 .. M - 1 /\ w' \in 0 .. M - 1
        /\ buf' \in [0 .. N - 1 -> Typed \cup {NoChar}]
        /\ Room' /\ Filled'
        /\ pc' = Woken \/ (w' = w /\ pc' = pc)
    BY <1>3, CharFacts
  <2>2. TypeOK'
    BY <1>3, <2>1 DEF IntrChar, Woken, TypeOK, reads
  <2>3. LockOK' /\ CopiedOK'
    BY <1>3, <2>1 DEF IntrChar, Woken, TypeOK, reads, LockOK, CopiedOK
  <2>4. AsleepEmpty'
    BY <1>3, <2>1 DEF IntrChar, Woken, TypeOK, AsleepEmpty
  <2> QED BY <2>1, <2>2, <2>3, <2>4 DEF IInv
<1>4. ASSUME NEW t \in Reader, NEW k \in 0 .. MaxRead, Read(t, k) PROVE IInv'
  <2>0. k \in Nat
    BY <1>4, ConsoleAssumption
  <2>g. got[t] = <<>>
    BY <1>4 DEF Read, At, CopiedOK
  <2>1. TypeOK'
    BY <1>4, <2>0 DEF Read, At, Goto, TypeOK, cons
  <2>2. LockOK'
    BY <1>4 DEF Read, At, Goto, TypeOK, LockOK
  <2>3. CopiedOK'
    BY <1>4, <2>0, <2>g DEF Read, At, Goto, TypeOK, CopiedOK
  <2>4. AsleepEmpty'
    BY <1>4 DEF Read, At, Goto, TypeOK, AsleepEmpty, cons
  <2>5. Room' /\ Filled'
    BY <1>4, RingKept DEF Read
  <2> QED BY <2>1, <2>2, <2>3, <2>4, <2>5 DEF IInv
<1>5. ASSUME NEW t \in Reader, ReadSleep(t) PROVE IInv'
  <2>1. TypeOK'
    BY <1>5 DEF ReadSleep, At, Goto, TypeOK, cons, reads
  <2>2. LockOK'
    BY <1>5 DEF ReadSleep, At, Goto, TypeOK, LockOK
  <2>3. CopiedOK'
    BY <1>5 DEF ReadSleep, At, Goto, TypeOK, CopiedOK, reads
  <2>4. AsleepEmpty'
    BY <1>5 DEF ReadSleep, At, Goto, TypeOK, AsleepEmpty, cons
  <2>5. Room' /\ Filled'
    BY <1>5, RingKept DEF ReadSleep
  <2> QED BY <2>1, <2>2, <2>3, <2>4, <2>5 DEF IInv
<1>6. ASSUME NEW t \in Reader, ReadRelock(t) PROVE IInv'
  <2>1. TypeOK'
    BY <1>6 DEF ReadRelock, At, Goto, TypeOK, cons, reads
  <2>2. LockOK'
    BY <1>6 DEF ReadRelock, At, Goto, TypeOK, LockOK
  <2>3. CopiedOK'
    BY <1>6 DEF ReadRelock, At, Goto, TypeOK, CopiedOK, reads
  <2>4. AsleepEmpty'
    BY <1>6 DEF ReadRelock, At, Goto, TypeOK, AsleepEmpty, cons
  <2>5. Room' /\ Filled'
    BY <1>6, RingKept DEF ReadRelock
  <2> QED BY <2>1, <2>2, <2>3, <2>4, <2>5 DEF IInv
<1>7. ASSUME NEW t \in Reader, ReadEof(t) PROVE IInv'
  <2>1. r' \in 0 .. M - 1 /\ Room' /\ Filled'
    <3>1. CASE n[t] < target[t]
      <4>1. UNCHANGED cons
        BY <1>7, <3>1, EofPutBack DEF ReadEof, cons
      <4> QED BY <4>1, RingKept DEF TypeOK, cons
    <3>2. CASE ~(n[t] < target[t])
      BY <1>7, <3>2, TakeFacts DEF ReadEof
    <3> QED BY <3>1, <3>2
  <2>2. TypeOK'
    BY <1>7, <2>1 DEF ReadEof, Goto, TypeOK, reads
  <2>3. LockOK'
    BY <1>7 DEF ReadEof, At, Goto, TypeOK, LockOK
  <2>4. CopiedOK'
    BY <1>7 DEF ReadEof, Goto, TypeOK, CopiedOK, reads
  <2>5. AsleepEmpty'
    BY <1>7 DEF ReadEof, Goto, TypeOK, AsleepEmpty
  <2> QED BY <2>1, <2>2, <2>3, <2>4, <2>5 DEF IInv
<1>8. ASSUME NEW t \in Reader, ReadChar(t) PROVE IInv'
  <2>1. r' \in 0 .. M - 1 /\ Room' /\ Filled' /\ CharAt(r) \in Typed
    BY <1>8, TakeFacts DEF ReadChar
  <2>g. Append(got[t], CharAt(r)) \in Seq(Typed) /\ n[t] - 1 \in Nat
    BY <1>8, <2>1 DEF ReadChar, TypeOK
  <2>2. TypeOK'
    BY <1>8, <2>1, <2>g DEF ReadChar, Goto, TypeOK
  <2>3. LockOK'
    BY <1>8 DEF ReadChar, At, Goto, TypeOK, LockOK
  <2>4. CopiedOK'
    <3>1. n[t] - 1 < target[t]
      BY <1>8 DEF CopiedOK, TypeOK, ReadChar
    <3>2. /\ n' = [n EXCEPT ![t] = n[t] - 1] /\ target' = target
          /\ pc'[t] # "idle"
          /\ \A u \in Reader : u # t => got'[u] = got[u] /\ pc'[u] = pc[u]
      BY <1>8 DEF ReadChar, Goto, TypeOK
    <3> QED BY <3>1, <3>2 DEF CopiedOK, TypeOK
  <2>5. AsleepEmpty'
    BY <1>8 DEF ReadChar, Goto, TypeOK, AsleepEmpty
  <2> QED BY <2>1, <2>2, <2>3, <2>4, <2>5 DEF IInv
<1>9. ASSUME NEW t \in Reader, ReadFault(t) PROVE IInv'
  <2>1. r' \in 0 .. M - 1 /\ Room' /\ Filled'
    BY <1>9, TakeFacts DEF ReadFault
  <2>2. TypeOK'
    BY <1>9, <2>1 DEF ReadFault, Goto, TypeOK, reads
  <2>3. LockOK'
    BY <1>9 DEF ReadFault, At, Goto, TypeOK, LockOK
  <2>4. CopiedOK'
    BY <1>9 DEF ReadFault, Goto, TypeOK, CopiedOK, reads
  <2>5. AsleepEmpty'
    BY <1>9 DEF ReadFault, Goto, TypeOK, AsleepEmpty
  <2> QED BY <2>1, <2>2, <2>3, <2>4, <2>5 DEF IInv
<1>9a. ASSUME NEW t \in Reader, ReadPanic(t) PROVE IInv'
  <2>1. r' \in 0 .. M - 1 /\ Room' /\ Filled'
    BY <1>9a, TakeFacts DEF ReadPanic
  <2>2. TypeOK'
    BY <1>9a, <2>1 DEF ReadPanic, Goto, TypeOK, reads
  <2>3. LockOK'
    BY <1>9a DEF ReadPanic, At, Goto, TypeOK, LockOK
  <2>4. CopiedOK'
    BY <1>9a DEF ReadPanic, Goto, TypeOK, CopiedOK, reads
  <2>5. AsleepEmpty'
    BY <1>9a DEF ReadPanic, Goto, TypeOK, AsleepEmpty
  <2> QED BY <2>1, <2>2, <2>3, <2>4, <2>5 DEF IInv
<1>10. ASSUME NEW t \in Reader, ReadReturn(t) PROVE IInv'
  <2>1. TypeOK'
    BY <1>10 DEF ReadReturn, Goto, TypeOK, cons
  <2>2. LockOK'
    BY <1>10 DEF ReadReturn, At, Goto, TypeOK, LockOK
  <2>3. CopiedOK'
    BY <1>10 DEF ReadReturn, Goto, TypeOK, CopiedOK
  <2>4. AsleepEmpty'
    BY <1>10 DEF ReadReturn, Goto, TypeOK, AsleepEmpty, cons
  <2>5. Room' /\ Filled'
    BY <1>10, RingKept DEF ReadReturn
  <2> QED BY <2>1, <2>2, <2>3, <2>4, <2>5 DEF IInv
<1>11. CASE UNCHANGED vars
  <2>1. Room' /\ Filled'
    BY <1>11, RingKept DEF vars, cons
  <2>2. TypeOK' /\ LockOK' /\ CopiedOK' /\ AsleepEmpty'
    BY <1>11 DEF vars, TypeOK, LockOK, CopiedOK, AsleepEmpty
  <2> QED BY <2>1, <2>2 DEF IInv
<1> QED
  BY <1>1, <1>2, <1>3, <1>4, <1>5, <1>6, <1>7, <1>8, <1>9, <1>9a, <1>10,
     <1>11
  DEF Next, Intr, ReadStep, Halt, Typed

LEMMA Invariance == Spec => []IInv
BY InitIInv, NextIInv, PTL DEF Spec

(***************************************************************************)
(* No reader sleeps on input that is there, nor with a full ring from      *)
(* which no line could come (NoSleepOnInput).                              *)
(***************************************************************************)
THEOREM NoSleepOnInputHolds == Spec => []NoSleepOnInput
<1>1. IInv => NoSleepOnInput
  <2> SUFFICES ASSUME IInv, NEW t \in Reader, At(t, "asleep")
               PROVE  r = w /\ Sub(e, r) < INPUT_MAX
    BY DEF NoSleepOnInput
  <2>1. TypeOK /\ Room /\ r = w
    BY DEF IInv, AsleepEmpty, At
  <2>2. Sub(e, r) = Ready + Pending /\ Ready = 0 /\ Pending \in 0 .. N
    BY <2>1, Lengths
  <2> QED BY <2>1, <2>2, RingSize DEF Room, N
<1> QED BY <1>1, Invariance, PTL

-----------------------------------------------------------------------------
(***************************************************************************)
(* The ring implements LineQueue.                                          *)
(***************************************************************************)
LEMMA AbsInit == Init => Abs!Init
<1> SUFFICES ASSUME Init PROVE Abs!Init
  OBVIOUS
<1>1. IInv
  BY InitIInv
<1>2. Sub(w, r) = 0 /\ Sub(e, w) = 0
  BY <1>1, Lengths DEF IInv, Init, Ready, Pending
<1>3. Span(r, w) = <<>> /\ Span(w, e) = <<>>
  BY <1>2 DEF Span
<1> QED BY <1>3 DEF Init, Abs!Init

LEMMA AbsStep == IInv /\ [Next]_vars => [Abs!Next]_(Abs!vars)
<1> SUFFICES ASSUME IInv, [Next]_vars PROVE [Abs!Next]_(Abs!vars)
  OBVIOUS
<1>0. TypeOK /\ LockOK /\ Room /\ Filled /\ CopiedOK /\ AsleepEmpty
  BY DEF IInv
<1>v. Span(r, w) = Queue /\ Span(w, e) = Line
  BY <1>0, Views DEF SpansAreRings
<1>w. Span(r, w)' = Queue' /\ Span(w, e)' = Line'
  <2>1. IInv'
    BY NextIInv
  <2>2. TypeOK'
    BY <2>1 DEF IInv
  <2>3. SpansAreRings'
    BY <2>2, Views, PTL
  <2> QED BY <2>3 DEF SpansAreRings
<1>l. /\ Queue \in Seq(Typed) /\ Len(Queue) = Ready
      /\ Line \in Seq(Typed) /\ Len(Line) = Pending
  BY <1>0, SeqTypes
<1>k. ASSUME UNCHANGED cons, UNCHANGED got PROVE UNCHANGED Abs!vars
  BY <1>0, <1>k, <1>v, <1>w, RingKept DEF Abs!vars
<1>1. ASSUME IntrKill PROVE Abs!Kill
  <2>1. Queue' = Queue /\ Line' = <<>> /\ got' = got
    BY <1>0, <1>1, KillFacts DEF IntrKill, reads
  <2> QED BY <1>v, <1>w, <2>1 DEF Abs!Kill
<1>2. ASSUME IntrErase PROVE Abs!Erase
  <2>1. /\ Queue' = Queue /\ Line # <<>> /\ got' = got
        /\ Line' = SubSeq(Line, 1, Len(Line) - 1)
    BY <1>0, <1>2, EraseFacts DEF IntrErase, reads
  <2> QED BY <1>v, <1>w, <2>1 DEF Abs!Erase
<1>3. ASSUME NEW c \in Typed, IntrChar(c) PROVE Abs!Enter(c)
  <2>1. /\ Ready + Pending < N
        /\ HandedOver(c) => Queue' = Queue \o Append(Line, c) /\ Line' = <<>>
        /\ ~HandedOver(c) => Queue' = Queue /\ Line' = Append(Line, c)
    BY <1>0, <1>3, CharFacts
  <2>2. got' = got
    BY <1>3 DEF IntrChar, reads
  <2> QED BY <1>v, <1>w, <1>l, <2>1, <2>2 DEF Abs!Enter, HandedOver, N
<1>4. ASSUME NEW t \in Reader, NEW k \in 0 .. MaxRead, Read(t, k)
      PROVE  UNCHANGED Abs!vars
  BY <1>4, <1>k DEF Read
<1>5. ASSUME NEW t \in Reader, ReadSleep(t) PROVE UNCHANGED Abs!vars
  BY <1>5, <1>k DEF ReadSleep, reads
<1>6. ASSUME NEW t \in Reader, ReadRelock(t) PROVE UNCHANGED Abs!vars
  BY <1>6, <1>k DEF ReadRelock, reads
<1>7. ASSUME NEW t \in Reader, ReadEof(t)
      PROVE  Abs!TakeEof(t) \/ UNCHANGED Abs!vars
  <2>1. CASE n[t] < target[t]
    BY <1>0, <1>7, <1>k, <2>1, EofPutBack DEF ReadEof, cons, reads
  <2>2. CASE ~(n[t] < target[t])
    <3>1. /\ Queue # <<>> /\ Head(Queue) = CharAt(r)
          /\ Queue' = Tail(Queue) /\ Line' = Line
      BY <1>0, <1>7, <2>2, TakeFacts DEF ReadEof
    <3>2. got[t] = <<>>
      BY <1>0, <2>2 DEF CopiedOK, TypeOK
    <3>3. CharAt(r) = Eof /\ got' = got
      BY <1>7 DEF ReadEof, reads
    <3> QED BY <1>v, <1>w, <3>1, <3>2, <3>3 DEF Abs!TakeEof
  <2> QED BY <2>1, <2>2
<1>8. ASSUME NEW t \in Reader, ReadChar(t) PROVE Abs!Deliver(t)
  <2>1. /\ Queue # <<>> /\ Head(Queue) = CharAt(r)
        /\ Queue' = Tail(Queue) /\ Line' = Line
    BY <1>0, <1>8, TakeFacts DEF ReadChar
  <2>2. CharAt(r) # Eof /\ got' = [got EXCEPT ![t] = Append(@, CharAt(r))]
    BY <1>8 DEF ReadChar
  <2> QED BY <1>v, <1>w, <2>1, <2>2 DEF Abs!Deliver
<1>9. ASSUME NEW t \in Reader, ReadFault(t) PROVE Abs!Lose(t)
  <2>1. /\ Queue # <<>> /\ Head(Queue) = CharAt(r)
        /\ Queue' = Tail(Queue) /\ Line' = Line
    BY <1>0, <1>9, TakeFacts DEF ReadFault
  <2>2. CharAt(r) # Eof /\ got' = got
    BY <1>9 DEF ReadFault, reads
  <2> QED BY <1>v, <1>w, <2>1, <2>2 DEF Abs!Lose
<1>9a. ASSUME NEW t \in Reader, ReadPanic(t) PROVE Abs!Lose(t)
  <2>1. /\ Queue # <<>> /\ Head(Queue) = CharAt(r)
        /\ Queue' = Tail(Queue) /\ Line' = Line
    BY <1>0, <1>9a, TakeFacts DEF ReadPanic
  <2>2. CharAt(r) # Eof /\ got' = got
    BY <1>9a DEF ReadPanic, reads
  <2> QED BY <1>v, <1>w, <2>1, <2>2 DEF Abs!Lose
<1>10. ASSUME NEW t \in Reader, ReadReturn(t) PROVE Abs!Return(t)
  <2>1. Queue' = Queue /\ Line' = Line
    BY <1>0, <1>10, RingKept DEF ReadReturn
  <2> QED BY <1>10, <1>v, <1>w, <2>1 DEF ReadReturn, Abs!Return
<1>11. CASE UNCHANGED vars
  BY <1>11, <1>k DEF vars, cons
<1> QED
  BY <1>1, <1>2, <1>3, <1>4, <1>5, <1>6, <1>7, <1>8, <1>9, <1>9a, <1>10,
     <1>11
  DEF Next, Intr, ReadStep, Halt, Typed, Abs!Next

(***************************************************************************)
(* The ring implements LineQueue: what was typed and not erased reaches    *)
(* the readers once and in order, in whole lines.                          *)
(***************************************************************************)
THEOREM ConsoleRefinement == Spec => ImplementsLineQueue
BY Invariance, AbsInit, AbsStep, PTL DEF Spec, ImplementsLineQueue, Abs!Spec

-----------------------------------------------------------------------------
(***************************************************************************)
(* The UART's output.                                                      *)
(***************************************************************************)
TxSize == UART_TX_BUF_SIZE

TxTypeOK ==
  /\ tx_buf \in [0 .. TxSize - 1 -> TxChar \cup {NoTx}]
  /\ tx_w \in 0 .. TxMod - 1
  /\ tx_r \in 0 .. TxMod - 1
  /\ tx_lock \in Writer \cup {TxIntr, Nobody}
  /\ wpc \in [Writer -> {"idle", "relock", "putc", "start", "asleep"}]
  /\ thr \in TxChar \cup {Echo, NoTx}
  /\ irq \in BOOLEAN
  /\ sent \in TxChar \cup {NoTx}

\* A writer inside uartputc's critical section is the holder of the lock.
TxLockOK == \A t \in Writer : wpc[t] \in {"putc", "start"} => tx_lock = t

\* The ring is never fuller than it is long.
TxRoom == Used <= TxSize

\* Between tx_r and tx_w every entry holds a character.
TxFilled == SpanIn(tx_buf, tx_r, Used, TxSize, TxChar)

TxIInv == TxTypeOK /\ TxLockOK /\ TxRoom /\ TxFilled /\ NoStall

-----------------------------------------------------------------------------
(***************************************************************************)
(* The two indices.                                                        *)
(***************************************************************************)
LEMMA TxSizes ==
  /\ TxSize \in Nat /\ TxSize > 0
  /\ TxMod \in Nat /\ TxMod > TxSize /\ TxMod > 0 /\ TxMod % TxSize = 0
BY UartAssumption DEF TxSize

LEMMA UsedFacts ==
  ASSUME TxTypeOK
  PROVE  /\ Used \in 0 .. TxMod - 1
         /\ Used = Dist(tx_w, tx_r, TxMod)
         /\ Used = 0 <=> tx_r = tx_w
         /\ tx_w % TxSize = (tx_r + Used) % TxSize
<1>1. Used = Dist(tx_w, tx_r, TxMod)
  BY DEF Used, Dist
<1>2. tx_w \in 0 .. TxMod - 1 /\ tx_r \in 0 .. TxMod - 1
  BY DEF TxTypeOK
<1>3. /\ Used \in 0 .. TxMod - 1 /\ (Used = 0 <=> tx_r = tx_w)
      /\ (tx_r + Used) % TxMod = tx_w
  BY <1>1, <1>2, TxSizes, DistFacts DEF Dist
<1>4. Used \in 0 .. TxMod
  BY <1>3, TxSizes
<1>5. ((tx_r + Used) % TxMod) % TxSize = (tx_r + Used) % TxSize
  BY <1>2, <1>4, TxSizes, EntryFrom
<1> QED BY <1>1, <1>3, <1>5

\* uartputc's test of the indices for a full ring is a test of its length.
LEMMA FullFacts ==
  ASSUME TxTypeOK, TxRoom
  PROVE  Full <=> Used = TxSize
<1>1. tx_w \in 0 .. TxMod - 1 /\ tx_r \in 0 .. TxMod - 1
  BY DEF TxTypeOK
<1>2. Used = IF tx_w >= tx_r THEN tx_w - tx_r ELSE tx_w + TxMod - tx_r
  BY <1>1, TxSizes, IndexDist DEF Used
<1>3. TxSize \in 0 .. TxMod
  BY TxSizes
<1>4. (tx_r + TxSize) % TxMod
        = IF tx_r + TxSize < TxMod THEN tx_r + TxSize
                                   ELSE tx_r + TxSize - TxMod
  BY <1>1, <1>3, TxSizes, IndexAdd
<1>5. Full <=> tx_w = (tx_r + TxSize) % TxMod
  BY DEF Full, TxSize
<1> QED BY <1>1, <1>2, <1>4, <1>5, TxSizes

-----------------------------------------------------------------------------
(***************************************************************************)
(* What Put and StartSend do to the ring as a sequence.                    *)
(***************************************************************************)
LEMMA InRingSpan == InRing = RingSpan(tx_buf, tx_r, Used, TxSize)
BY DEF InRing, RingSpan, TxSize

LEMMA PutFacts ==
  ASSUME TxTypeOK, TxRoom, TxFilled,
         NEW t \in Writer, NEW c \in TxChar, Put(t, c)
  PROVE  /\ TxTypeOK' /\ Used' = Used + 1 /\ Used < TxSize
         /\ TxRoom' /\ TxFilled'
         /\ InRing' = Append(InRing, c)
<1>0. tx_w \in 0 .. TxMod - 1 /\ tx_r \in 0 .. TxMod - 1 /\ tx_r \in Nat
  BY DEF TxTypeOK
<1>1. Used \in 0 .. TxSize - 1 /\ Used \in Nat
  BY FullFacts, UsedFacts, TxSizes DEF Put, TxRoom
<1>2. tx_w' = (tx_w + 1) % TxMod /\ tx_r' = tx_r
  BY DEF Put, Succ
<1>3. tx_w' \in 0 .. TxMod - 1 /\ Used' = Used + 1
  <2>1. Used < TxMod - 1 /\ Used = Dist(tx_w, tx_r, TxMod)
    BY <1>1, UsedFacts, TxSizes
  <2>2. /\ (tx_w + 1) % TxMod \in 0 .. TxMod - 1
        /\ Dist((tx_w + 1) % TxMod, tx_r, TxMod) = Used + 1
    BY <1>0, <2>1, TxSizes, DistGrows
  <2>3. Used' = Dist(tx_w', tx_r', TxMod)
    BY DEF Used, Dist
  <2> QED BY <1>2, <2>2, <2>3
<1>4. /\ tx_w % TxSize = (tx_r + Used) % TxSize
      /\ tx_w % TxSize \in 0 .. TxSize - 1
  BY <1>0, UsedFacts, TxSizes, Division
<1>5. tx_buf' = [tx_buf EXCEPT ![(tx_r + Used) % TxSize] = c]
  BY <1>4 DEF Put, TxSize
<1>6. TxTypeOK'
  BY <1>0, <1>2, <1>3, <1>4, <1>5 DEF TxTypeOK, Put, TxGoto
<1>7. DOMAIN tx_buf = 0 .. TxSize - 1
  BY DEF TxTypeOK
<1>8. SpanStore(tx_buf, tx_buf', tx_r, Used, TxSize, TxChar, c)
  BY <1>0, <1>1, <1>5, <1>7, TxSizes DEF TxFilled, SpanStore
<1>9. /\ SpanIn(tx_buf', tx_r, Used + 1, TxSize, TxChar)
      /\ RingSpan(tx_buf', tx_r, Used + 1, TxSize)
           = Append(RingSpan(tx_buf, tx_r, Used, TxSize), c)
  BY <1>8, SpanGrows
<1>10. InRing' = Append(InRing, c)
  <2>1. InRing' = RingSpan(tx_buf', tx_r', Used', TxSize)
    BY DEF InRing, RingSpan, TxSize
  <2> QED BY <1>2, <1>3, <1>9, <2>1, InRingSpan
<1>11. TxRoom' /\ TxFilled'
  BY <1>1, <1>2, <1>3, <1>9, TxSizes DEF TxRoom, TxFilled
<1> QED BY <1>1, <1>3, <1>6, <1>10, <1>11, TxSizes

LEMMA SendFacts ==
  ASSUME TxTypeOK, TxRoom, TxFilled, NEW x, StartSend(x)
  PROVE  /\ Used' = Used - 1
         /\ tx_r' \in 0 .. TxMod - 1 /\ thr' \in TxChar
         /\ TxRoom' /\ TxFilled'
         /\ InRing \in Seq(TxChar) /\ InRing # <<>>
         /\ thr' = Head(InRing) /\ InRing' = Tail(InRing)
<1>0. tx_w \in 0 .. TxMod - 1 /\ tx_r \in 0 .. TxMod - 1
  BY DEF TxTypeOK
<1>1. Used \in 1 .. TxSize
  BY UsedFacts, TxSizes DEF StartSend, TxRoom
<1>2. /\ tx_r' = (tx_r + 1) % TxMod /\ tx_w' = tx_w /\ tx_buf' = tx_buf
      /\ tx_r # tx_w
  BY DEF StartSend, Succ
<1>3. tx_r' \in 0 .. TxMod - 1 /\ Used' = Used - 1
  <2>1. Used = Dist(tx_w, tx_r, TxMod)
    BY UsedFacts
  <2>2. /\ (tx_r + 1) % TxMod \in 0 .. TxMod - 1
        /\ Dist(tx_w, (tx_r + 1) % TxMod, TxMod) = Used - 1
    BY <1>0, <1>2, <2>1, TxSizes, DistShrinks
  <2>3. Used' = Dist(tx_w', tx_r', TxMod)
    BY DEF Used, Dist
  <2> QED BY <1>2, <2>2, <2>3
<1>4. SpanTake(tx_buf, tx_r, Used, TxSize, TxMod, TxChar)
  BY <1>0, <1>1, TxSizes DEF TxFilled, SpanTake
<1>5. /\ SpanIn(tx_buf, (tx_r + 1) % TxMod, Used - 1, TxSize, TxChar)
      /\ RingSpan(tx_buf, tx_r, Used, TxSize) \in Seq(TxChar)
      /\ RingSpan(tx_buf, tx_r, Used, TxSize) # <<>>
      /\ tx_buf[tx_r % TxSize] \in TxChar
      /\ Head(RingSpan(tx_buf, tx_r, Used, TxSize)) = tx_buf[tx_r % TxSize]
      /\ RingSpan(tx_buf, (tx_r + 1) % TxMod, Used - 1, TxSize)
           = Tail(RingSpan(tx_buf, tx_r, Used, TxSize))
  BY <1>4, SpanShrinks
<1>6. InRing' = Tail(InRing)
  <2>1. InRing' = RingSpan(tx_buf', tx_r', Used', TxSize)
    BY DEF InRing, RingSpan, TxSize
  <2> QED BY <1>2, <1>3, <1>5, <2>1, InRingSpan
<1>7. TxRoom' /\ TxFilled'
  BY <1>1, <1>2, <1>3, <1>5, TxSizes DEF TxRoom, TxFilled
<1>8. thr' = tx_buf[tx_r % TxSize]
  BY DEF StartSend, TxSize
<1> QED BY <1>3, <1>5, <1>6, <1>7, <1>8, InRingSpan

-----------------------------------------------------------------------------
(***************************************************************************)
(* The invariant is inductive: one step for each action.                   *)
(***************************************************************************)
LEMMA TxInitIInv == TxInit => TxIInv
<1> SUFFICES ASSUME TxInit PROVE TxIInv
  OBVIOUS
<1>1. TxTypeOK
  <2>1. 0 \in 0 .. TxMod - 1
    BY TxSizes
  <2> QED BY <2>1 DEF TxInit, TxTypeOK, TxSize
<1>2. Used = 0
  BY <1>1, UsedFacts DEF TxInit
<1>3. TxRoom /\ TxFilled
  BY <1>2, TxSizes DEF TxRoom, TxFilled, SpanIn
<1>4. TxLockOK /\ NoStall
  BY DEF TxInit, TxLockOK, NoStall
<1> QED BY <1>1, <1>3, <1>4 DEF TxIInv

\* The ring is as it was.
LEMMA TxRingKept ==
  ASSUME TxRoom, TxFilled, UNCHANGED <<tx_buf, tx_w, tx_r>>
  PROVE  TxRoom' /\ TxFilled' /\ InRing' = InRing
<1>1. Used' = Used
  BY DEF Used
<1> QED BY <1>1 DEF TxRoom, TxFilled, InRing

LEMMA TxNextIInv == TxIInv /\ [TxNext]_txVars => TxIInv'
<1> SUFFICES ASSUME TxIInv, [TxNext]_txVars PROVE TxIInv'
  OBVIOUS
<1>0. TxTypeOK /\ TxLockOK /\ TxRoom /\ TxFilled /\ NoStall
  BY DEF TxIInv
<1>c. /\ TxIntr # Nobody /\ TxIntr \notin Writer /\ Nobody \notin Writer
      /\ Echo # NoTx /\ Echo \notin TxChar /\ NoTx \notin TxChar
  BY UartAssumption
<1> USE <1>0, <1>c
<1>1. ASSUME NEW t \in Writer, Lock(t) PROVE TxIInv'
  <2>1. TxTypeOK'
    BY <1>1 DEF Lock, TxAt, TxGoto, TxTypeOK
  <2>2. TxLockOK'
    BY <1>1 DEF Lock, TxAt, TxGoto, TxTypeOK, TxLockOK
  <2>3. NoStall'
    BY <1>1 DEF Lock, TxAt, TxGoto, TxTypeOK, NoStall
  <2>4. TxRoom' /\ TxFilled'
    BY <1>1, TxRingKept DEF Lock
  <2> QED BY <2>1, <2>2, <2>3, <2>4 DEF TxIInv
<1>2. ASSUME NEW t \in Writer, PutSleep(t) PROVE TxIInv'
  <2>1. TxTypeOK'
    BY <1>2 DEF PutSleep, TxAt, TxGoto, TxTypeOK
  <2>2. TxLockOK'
    BY <1>2 DEF PutSleep, TxAt, TxGoto, TxTypeOK, TxLockOK
  <2>3. NoStall'
    BY <1>2 DEF PutSleep, TxAt, TxGoto, TxTypeOK, TxLockOK, NoStall
  <2>4. TxRoom' /\ TxFilled'
    BY <1>2, TxRingKept DEF PutSleep
  <2> QED BY <2>1, <2>2, <2>3, <2>4 DEF TxIInv
<1>3. ASSUME NEW t \in Writer, NEW c \in TxChar, Put(t, c) PROVE TxIInv'
  <2>1. TxTypeOK' /\ TxRoom' /\ TxFilled'
    BY <1>3, PutFacts
  <2>2. TxLockOK'
    BY <1>3 DEF Put, TxAt, TxGoto, TxTypeOK, TxLockOK
  <2>3. NoStall'
    BY <1>3 DEF Put, TxAt, TxGoto, TxTypeOK, NoStall
  <2> QED BY <2>1, <2>2, <2>3 DEF TxIInv
<1>4. ASSUME NEW x \in Writer \cup {TxIntr}, StartSend(x) PROVE TxIInv'
  <2>1. tx_r' \in 0 .. TxMod - 1 /\ thr' \in TxChar /\ TxRoom' /\ TxFilled'
    BY <1>4, SendFacts
  <2>2. TxTypeOK'
    BY <1>4, <2>1 DEF StartSend, TxWoken, TxTypeOK
  <2>3. TxLockOK'
    BY <1>4 DEF StartSend, TxWoken, TxTypeOK, TxLockOK
  <2>4. NoStall'
    BY <2>1 DEF NoStall
  <2> QED BY <2>1, <2>2, <2>3, <2>4 DEF TxIInv
<1>5. ASSUME NEW x \in Writer \cup {TxIntr}, StartReturn(x) PROVE TxIInv'
  <2>1. TxTypeOK'
    BY <1>5 DEF StartReturn, TxTypeOK
  <2>2. TxLockOK'
    BY <1>5 DEF StartReturn, Starting, TxTypeOK, TxLockOK
  <2>3. NoStall'
    BY <1>5 DEF StartReturn, NoStall
  <2>4. TxRoom' /\ TxFilled'
    BY <1>5, TxRingKept DEF StartReturn
  <2> QED BY <2>1, <2>2, <2>3, <2>4 DEF TxIInv
<1>6. ASSUME Interrupt PROVE TxIInv'
  <2>1. TxTypeOK'
    BY <1>6 DEF Interrupt, TxTypeOK
  <2>2. TxLockOK'
    BY <1>6 DEF Interrupt, TxTypeOK, TxLockOK
  <2>3. NoStall'
    BY <1>6 DEF Interrupt, NoStall
  <2>4. TxRoom' /\ TxFilled'
    BY <1>6, TxRingKept DEF Interrupt
  <2> QED BY <2>1, <2>2, <2>3, <2>4 DEF TxIInv
<1>7. ASSUME PutSync PROVE TxIInv'
  <2>1. TxTypeOK'
    BY <1>7 DEF PutSync, TxTypeOK
  <2>2. TxLockOK'
    BY <1>7 DEF PutSync, TxLockOK
  <2>3. NoStall'
    BY <1>7 DEF PutSync, NoStall
  <2>4. TxRoom' /\ TxFilled'
    BY <1>7, TxRingKept DEF PutSync
  <2> QED BY <2>1, <2>2, <2>3, <2>4 DEF TxIInv
<1>8. ASSUME Transmit PROVE TxIInv'
  <2>1. TxTypeOK'
    BY <1>8 DEF Transmit, TxTypeOK
  <2>2. TxLockOK'
    BY <1>8 DEF Transmit, TxLockOK
  <2>3. NoStall'
    BY <1>8 DEF Transmit, NoStall
  <2>4. TxRoom' /\ TxFilled'
    BY <1>8, TxRingKept DEF Transmit
  <2> QED BY <2>1, <2>2, <2>3, <2>4 DEF TxIInv
<1>9. CASE UNCHANGED txVars
  <2>1. TxRoom' /\ TxFilled'
    BY <1>9, TxRingKept DEF txVars
  <2>2. TxTypeOK' /\ TxLockOK' /\ NoStall'
    BY <1>9 DEF txVars, TxTypeOK, TxLockOK, NoStall, TxAt
  <2> QED BY <2>1, <2>2 DEF TxIInv
<1> QED
  BY <1>1, <1>2, <1>3, <1>4, <1>5, <1>6, <1>7, <1>8, <1>9
  DEF TxNext, Putc, Start

LEMMA TxInvariance == TxSpec => []TxIInv
BY TxInitIInv, TxNextIInv, PTL DEF TxSpec

(***************************************************************************)
(* The transmitter does not stall (NoStall): uartputc never leaves a       *)
(* character in the ring with nobody and nothing to send it.               *)
(***************************************************************************)
THEOREM NoStallHolds == TxSpec => []NoStall
<1>1. TxIInv => NoStall
  BY DEF TxIInv
<1> QED BY <1>1, TxInvariance, PTL

-----------------------------------------------------------------------------
(***************************************************************************)
(* Refinement.                                                             *)
(***************************************************************************)
LEMMA TxAbsInit == TxInit => TxAbs!Init
<1> SUFFICES ASSUME TxInit PROVE TxAbs!Init
  OBVIOUS
<1>1. TxIInv
  BY TxInitIInv
<1>2. Used = 0
  BY <1>1, UsedFacts DEF TxIInv, TxInit
<1>3. InRing = <<>>
  BY <1>2 DEF InRing
<1>4. InThr = <<>>
  BY UartAssumption DEF TxInit, InThr
<1> QED BY <1>3, <1>4 DEF TxInit, TxAbs!Init

LEMMA QueueTypes ==
  ASSUME TxIInv
  PROVE  InThr \in Seq(TxChar) /\ InRing \in Seq(TxChar)
<1>1. Used \in Nat
  BY UsedFacts, TxSizes DEF TxIInv
<1>2. RingSpan(tx_buf, tx_r, Used, TxSize) \in Seq(TxChar)
  BY <1>1, SpanSeq DEF TxIInv, TxFilled
<1>3. InThr \in Seq(TxChar)
  BY DEF InThr
<1> QED BY <1>2, <1>3, InRingSpan

\* Neither the ring nor THR has changed as far as TxQueue is concerned.
LEMMA QueueKept ==
  ASSUME TxIInv, UNCHANGED <<tx_buf, tx_w, tx_r, sent>>, InThr' = InThr
  PROVE  UNCHANGED TxAbs!vars
BY TxRingKept DEF TxIInv, TxAbs!vars

LEMMA TxAbsStep == TxIInv /\ [TxNext]_txVars => [TxAbs!Next]_(TxAbs!vars)
<1> SUFFICES ASSUME TxIInv, [TxNext]_txVars PROVE [TxAbs!Next]_(TxAbs!vars)
  OBVIOUS
<1>0. TxTypeOK /\ TxLockOK /\ TxRoom /\ TxFilled /\ NoStall
  BY DEF TxIInv
<1>c. Echo \notin TxChar /\ NoTx \notin TxChar
  BY UartAssumption
<1>q. InThr \in Seq(TxChar) /\ InRing \in Seq(TxChar)
  BY QueueTypes
<1>1. ASSUME NEW t \in Writer, Lock(t) PROVE UNCHANGED TxAbs!vars
  BY <1>1, QueueKept DEF Lock, InThr
<1>2. ASSUME NEW t \in Writer, PutSleep(t) PROVE UNCHANGED TxAbs!vars
  BY <1>2, QueueKept DEF PutSleep, InThr
<1>3. ASSUME NEW t \in Writer, NEW c \in TxChar, Put(t, c) PROVE TxAbs!Put(c)
  <2>1. InRing' = Append(InRing, c)
    BY <1>0, <1>3, PutFacts
  <2>2. InThr' = InThr /\ sent' = sent
    BY <1>3 DEF Put, InThr
  <2>3. InThr \o Append(InRing, c) = Append(InThr \o InRing, c)
    BY <1>q, AppendToConcat
  <2> QED BY <2>1, <2>2, <2>3 DEF TxAbs!Put
<1>4. ASSUME NEW x, StartSend(x) PROVE UNCHANGED TxAbs!vars
  <2>1. /\ InRing # <<>> /\ thr' \in TxChar
        /\ thr' = Head(InRing) /\ InRing' = Tail(InRing)
    BY <1>0, <1>4, SendFacts
  <2>2. InThr = <<>> /\ InThr' = <<Head(InRing)>> /\ sent' = sent
    BY <1>4, <1>c, <2>1 DEF StartSend, InThr
  <2>3. <<Head(InRing)>> \o Tail(InRing) = InRing
    BY <1>q, <2>1, HeadAndTail
  <2>4. <<>> \o InRing = InRing
    BY <1>q, ConcatEmptySeq
  <2> QED BY <2>1, <2>2, <2>3, <2>4 DEF TxAbs!vars
<1>5. ASSUME NEW x, StartReturn(x) PROVE UNCHANGED TxAbs!vars
  BY <1>5, QueueKept DEF StartReturn, InThr
<1>6. ASSUME Interrupt PROVE UNCHANGED TxAbs!vars
  BY <1>6, QueueKept DEF Interrupt, InThr
<1>7. ASSUME PutSync PROVE UNCHANGED TxAbs!vars
  BY <1>7, <1>c, QueueKept DEF PutSync, InThr
<1>8. ASSUME Transmit PROVE TxAbs!Send \/ UNCHANGED TxAbs!vars
  <2>1. CASE thr \in TxChar
    <3>1. InThr = <<thr>> /\ InThr' = <<>> /\ sent' = thr
      BY <1>8, <1>c, <2>1 DEF Transmit, InThr
    <3>2. InRing' = InRing
      BY <1>0, <1>8, TxRingKept DEF Transmit
    <3>3. /\ <<thr>> \o InRing # <<>>
          /\ Head(<<thr>> \o InRing) = thr /\ Tail(<<thr>> \o InRing) = InRing
      BY <1>q, <2>1, TailOfConcat
    <3>4. <<>> \o InRing = InRing
      BY <1>q, ConcatEmptySeq
    <3> QED BY <3>1, <3>2, <3>3, <3>4 DEF TxAbs!Send
  <2>2. CASE thr \notin TxChar
    <3>1. thr = Echo
      BY <1>0, <1>8, <2>2 DEF TxTypeOK, Transmit
    <3>2. InThr' = InThr /\ sent' = sent
      BY <1>8, <1>c, <3>1 DEF Transmit, InThr
    <3> QED BY <1>8, <3>2, QueueKept DEF Transmit
  <2> QED BY <2>1, <2>2
<1>9. CASE UNCHANGED txVars
  BY <1>9, QueueKept DEF txVars, InThr
<1> QED
  BY <1>1, <1>2, <1>3, <1>4, <1>5, <1>6, <1>7, <1>8, <1>9
  DEF TxNext, Putc, Start, TxAbs!Next

(***************************************************************************)
(* The ring and THR implement TxQueue: what uartputc is given is sent once *)
(* and in order, by whichever of uartputc and uartinterrupt gets to it.    *)
(***************************************************************************)
THEOREM UartRefinement == TxSpec => ImplementsTxQueue
BY TxInvariance, TxAbsInit, TxAbsStep, PTL
DEF TxSpec, ImplementsTxQueue, TxAbs!Spec
=============================================================================
