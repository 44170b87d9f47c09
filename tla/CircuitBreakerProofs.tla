------------------------ MODULE CircuitBreakerProofs ------------------------
(***************************************************************************)
(* Proofs about CircuitBreaker, for every set of prices, every capacity of *)
(* the ring buffer and every configuration: its types, that no sample      *)
(* older than the window outlives a check, and that the ring buffer with   *)
(* its integer percentage implements PriceBand.                            *)
(***************************************************************************)
EXTENDS CircuitBreaker, SequenceTheorems, FiniteSetTheorems, WellFoundedInduction, TLAPS

\* A ring buffer, and the samples in it, oldest first.
Ring == [buffer : [Slot -> Sample], head : Slot, size : 0..MaxSamples]
SamplesOf(w) == [i \in 1..w.size |-> w.buffer[Index(w, w.size - i + 1)]]

\* What trades leave in the window.
Trades == [price : Prices, time : 0..MaxTime]

------------------------------------------------------------------------------
(* Arithmetic.                                                               *)

LEMMA Bounds ==
    /\ MaxSamples \in Nat /\ MaxSamples >= 1 /\ MaxTime \in Nat /\ MaxTime >= 1
    /\ Scale \in Nat /\ Scale >= 1
    /\ WindowDuration \in Nat /\ CooldownPeriod \in Nat /\ MaxMovePercent \in Nat
    /\ MaxChecks \in Nat /\ MaxInt \in Nat
    /\ \A p \in Prices : p \in Nat /\ p >= 1
BY ConfigAssumption, MaxIntAssumption

\* Positions wrap around once.
LEMMA OneTurn ==
    ASSUME NEW m \in Nat, m >= 1, NEW x \in 0..(2 * m - 1)
    PROVE  x % m = IF x < m THEN x ELSE x - m
<1>1. CASE x < m
  BY <1>1, Z3
<1>2. CASE x >= m
  <2> DEFINE y == x - m
  <2>1. y \in 0..(m - 1) /\ x = y + m
    BY <1>2
  <2> HIDE DEF y
  <2>2. (y + m) % m = y
    BY <2>1, Z3
  <2> QED
    BY <1>2, <2>1, <2>2
<1> QED
  BY <1>1, <1>2

\* A number of at most MaxInt fits into a word.
LEMMA Fits ==
    ASSUME NEW n \in 0..MaxInt
    PROVE  Wrap(n) = n
<1> DEFINE m == 2 * (MaxInt + 1)
           x == n + MaxInt + 1
<1>1. m \in Nat /\ m >= 1 /\ x \in 0..(2 * m - 1) /\ x < m
  BY Bounds
<1>2. x % m = x
  <2> HIDE DEF m, x
  <2> QED
    BY <1>1, OneTurn
<1> QED
  BY <1>2, Bounds DEF Wrap

\* A truncated quotient exceeds a whole number if it reaches the next one.
LEMMA QuotientExceeds ==
    ASSUME NEW a \in Nat, NEW b \in Nat, b >= 1, NEW k \in Nat
    PROVE  a \div b > k <=> a >= (k + 1) * b
<1> DEFINE q == a \div b
           r == a % b
<1>1. q \in Int /\ r \in 0..(b - 1) /\ a = b * q + r
  BY Z3
<1> HIDE DEF q, r
<1>2. ASSUME q > k PROVE a >= (k + 1) * b
  <2>1. b * q >= b * (k + 1)
    BY <1>1, <1>2, Z3
  <2> QED
    BY <1>1, <2>1, Z3
<1>3. ASSUME a >= (k + 1) * b PROVE q > k
  <2> SUFFICES ASSUME q <= k PROVE FALSE
    BY <1>1
  <2>1. b * q <= b * k
    BY <1>1, Z3
  <2>2. (k + 1) * b = b * k + b
    BY Z3
  <2> QED
    BY <1>1, <1>3, <2>1, <2>2, Z3
<1> QED
  BY <1>2, <1>3 DEF q

\* Check's percentage, with its truncation and its machine words, asks what PriceBand asks.
LEMMA PercentageIsExact ==
    ASSUME NEW p \in Prices, NEW q \in Prices
    PROVE  Div(Magnitude(p - q), q, Scale) > MaxMovePercent <=> Band!TooFar(p, q)
<1> DEFINE d == Band!Distance(p, q)
<1>1. p \in Nat /\ q \in Nat /\ q >= 1
  BY Bounds
<1>2. d \in Nat /\ d * Scale <= MaxInt
  <2>1. (p - q) * Scale <= MaxInt /\ (q - p) * Scale <= MaxInt
    BY FitAssumption
  <2> QED
    BY <1>1, <2>1 DEF Band!Distance
<1>3. d * Scale \in 0..MaxInt /\ d \in 0..MaxInt
  <2> HIDE DEF d
  <2>1. d * Scale \in Nat
    BY <1>2, Bounds, Z3
  <2>2. d * Scale >= d
    BY <1>2, Bounds, Z3
  <2> QED
    BY <1>2, <2>1, <2>2, Bounds
<1>4. Magnitude(p - q) = d
  <2>1. CASE p > q
    BY <1>1, <2>1 DEF Magnitude, Band!Distance
  <2>2. CASE p = q
    BY <1>1, <2>2 DEF Magnitude, Band!Distance
  <2>3. CASE p < q
    <3>1. d = q - p /\ -(p - q) = q - p /\ p - q < 0
      BY <1>1, <2>3 DEF Band!Distance
    <3>2. Magnitude(p - q) = Wrap(d)
      BY <3>1 DEF Magnitude
    <3> HIDE DEF d
    <3> QED
      BY <1>3, <3>2, Fits
  <2> QED
    BY <1>1, <2>1, <2>2, <2>3
<1>5. Div(d, q, Scale) = (d * Scale) \div q
  <2> HIDE DEF d
  <2>1. Wrap(d * Scale) = d * Scale
    BY <1>3, Fits
  <2> QED
    BY <1>3, <2>1 DEF Div, Quotient
<1>6. Band!TooFar(p, q) <=> d * Scale >= (MaxMovePercent + 1) * q
  BY DEF Band!TooFar
<1> HIDE DEF d
<1>7. d * Scale \in Nat /\ MaxMovePercent \in Nat
  BY <1>3, Bounds
<1>8. (d * Scale) \div q > MaxMovePercent <=> d * Scale >= (MaxMovePercent + 1) * q
  BY <1>1, <1>7, QuotientExceeds
<1> QED
  BY <1>4, <1>5, <1>6, <1>8

\* A set of numbers up to n that has a member has a largest and a smallest.
LEMMA Extremes ==
    ASSUME NEW n \in Nat, NEW S, S \subseteq 1..n, S # {}
    PROVE  /\ Max(S) \in S /\ \A k \in S : k <= Max(S)
           /\ Min(S) \in S /\ \A k \in S : Min(S) <= k
<1> DEFINE R == OpToRel(<, Nat)
<1>1. IsWellFoundedOn(R, Nat)
  BY NatLessThanWellFounded
<1>2. \A x, y \in Nat : <<x, y>> \in R <=> x < y
  BY DEF OpToRel
<1> HIDE DEF R
<1>3. ASSUME NEW T \in SUBSET Nat, T # {} PROVE \E x \in T : \A y \in T : x <= y
  <2>1. PICK x \in T : \A y \in T : <<y, x>> \notin R
    BY <1>1, <1>3, WFMin
  <2>2. \A y \in T : ~(y < x) /\ x \in Nat /\ y \in Nat
    BY <2>1, <1>2, <1>3
  <2>3. \A y \in T : x <= y
    BY <2>2
  <2> QED
    BY <2>3
<1>4. \E x \in S : \A y \in S : x <= y
  BY <1>3
<1>5. \E x \in S : \A y \in S : x >= y
  <2> DEFINE T == {b \in Nat : \A y \in S : y <= b}
  <2>1. n \in T
    OBVIOUS
  <2>2. PICK b \in T : \A c \in T : b <= c
    <3> HIDE DEF T
    <3>1. T \subseteq Nat
      BY DEF T
    <3> QED
      BY <1>3, <2>1, <3>1
  <2>3. b \in S
    <3> SUFFICES ASSUME b \notin S PROVE FALSE
      OBVIOUS
    <3>1. \A y \in S : y \in Nat /\ y >= 1 /\ y <= b /\ y # b
      OBVIOUS
    <3>2. b \in Nat /\ b # 0
      <4>1. PICK y \in S : TRUE
        OBVIOUS
      <4>2. y \in Nat /\ y >= 1 /\ y <= b
        BY <3>1
      <4>3. b \in Nat
        OBVIOUS
      <4> QED
        BY <4>2, <4>3
    <3>3. b - 1 \in T
      BY <3>1, <3>2
    <3> QED
      BY <2>2, <3>2, <3>3
  <2> QED
    BY <2>3
<1>6. Min(S) \in S /\ \A y \in S : Min(S) =< y
  BY <1>4 DEF Min
<1>7. Max(S) \in S /\ \A y \in S : Max(S) >= y
  BY <1>5 DEF Max
<1> QED
  BY <1>6, <1>7

------------------------------------------------------------------------------
(* The ring buffer.                                                          *)

LEMMA RingProperties ==
    ASSUME NEW w \in Ring
    PROVE  /\ w.head \in Nat /\ w.head < MaxSamples
           /\ w.size \in Nat /\ w.size <= MaxSamples
           /\ w.buffer \in [Slot -> Sample]
<1>1. w.buffer \in [Slot -> Sample]
  BY DEF Ring
<1> QED
  BY <1>1, Bounds DEF Ring, Slot

LEMMA IndexValue ==
    ASSUME NEW w \in Ring, NEW k \in 1..MaxSamples
    PROVE  /\ Index(w, k) = IF k <= w.head THEN w.head - k ELSE w.head - k + MaxSamples
           /\ Index(w, k) \in Slot
<1> DEFINE x == w.head - k + MaxSamples
<1>1. x \in 0..(2 * MaxSamples - 1)
  BY RingProperties, Bounds
<1>2. x % MaxSamples = IF x < MaxSamples THEN x ELSE x - MaxSamples
  <2> HIDE DEF x
  <2> QED
    BY <1>1, Bounds, OneTurn
<1>3. Index(w, k) = IF k <= w.head THEN w.head - k ELSE w.head - k + MaxSamples
  BY <1>2, RingProperties, Bounds DEF Index
<1> QED
  BY <1>3, RingProperties, Bounds DEF Slot

\* Recording a trade puts it behind the others, and costs the oldest its place when the
\* buffer is full.
LEMMA RecordedRing ==
    ASSUME NEW w \in Ring, NEW p \in Prices, now \in 0..MaxTime
    PROVE  LET r == Recorded(w, p) IN
           /\ r \in Ring
           /\ r.size = IF w.size < MaxSamples THEN w.size + 1 ELSE MaxSamples
           /\ r.buffer[Index(r, 1)] = [price |-> p, time |-> now]
           /\ \A k \in 2..r.size : r.buffer[Index(r, k)] = w.buffer[Index(w, k - 1)]
<1> DEFINE r == Recorded(w, p)
           new == [price |-> p, time |-> now]
<1>1. /\ r.buffer = [w.buffer EXCEPT ![w.head] = new]
      /\ r.head = (w.head + 1) % MaxSamples
      /\ r.size = IF w.size < MaxSamples THEN w.size + 1 ELSE w.size
      /\ DOMAIN r = {"buffer", "head", "size"}
  BY DEF Recorded
<1>2. new \in Sample
  BY Bounds DEF Sample
<1>3. r.head = IF w.head + 1 = MaxSamples THEN 0 ELSE w.head + 1
  <2>1. w.head + 1 \in 0..(2 * MaxSamples - 1)
    BY RingProperties, Bounds
  <2>2. (w.head + 1) % MaxSamples
          = IF w.head + 1 < MaxSamples THEN w.head + 1 ELSE (w.head + 1) - MaxSamples
    BY <2>1, Bounds, OneTurn
  <2> QED
    BY <1>1, <2>2, RingProperties, Bounds
<1>4. r.buffer \in [Slot -> Sample] /\ r.head \in Slot /\ r.size \in 0..MaxSamples
  <2>1. r.buffer \in [Slot -> Sample]
    <3>1. w.buffer \in [Slot -> Sample] /\ w.head \in Slot
      BY DEF Ring
    <3>2. r.buffer = [w.buffer EXCEPT ![w.head] = new]
      BY <1>1
    <3> HIDE DEF new, r
    <3> QED
      BY <1>2, <3>1, <3>2
  <2>2. r.head \in Slot
    <3> HIDE DEF r
    <3> QED
      BY <1>3, RingProperties, Bounds DEF Slot
  <2>3. r.size \in 0..MaxSamples
    <3> HIDE DEF r
    <3> QED
      BY <1>1, RingProperties, Bounds
  <2> QED
    BY <2>1, <2>2, <2>3
<1>5. r \in Ring
  BY <1>4 DEF Recorded, Ring
<1>6. r.size = IF w.size < MaxSamples THEN w.size + 1 ELSE MaxSamples
  BY <1>1, RingProperties, Bounds
<1> HIDE DEF r, new
<1>7. Index(r, 1) = w.head
  BY <1>3, <1>5, IndexValue, RingProperties, Bounds
<1>8. r.buffer[Index(r, 1)] = new
  BY <1>1, <1>7, RingProperties, Bounds DEF Slot
<1>9. ASSUME NEW k \in 2..r.size PROVE r.buffer[Index(r, k)] = w.buffer[Index(w, k - 1)]
  <2>1. k \in 1..MaxSamples /\ k - 1 \in 1..MaxSamples /\ k <= MaxSamples /\ k >= 2 /\ k \in Nat
    BY <1>6, RingProperties, Bounds
  <2>2. Index(r, k) = Index(w, k - 1) /\ Index(r, k) # w.head /\ Index(r, k) \in Slot
    <3>1. Index(w, k - 1) = IF k - 1 <= w.head THEN w.head - (k - 1)
                            ELSE w.head - (k - 1) + MaxSamples
      BY <2>1, IndexValue
    <3>2. /\ Index(r, k) = IF k <= r.head THEN r.head - k ELSE r.head - k + MaxSamples
          /\ Index(r, k) \in Slot
      BY <1>5, <2>1, IndexValue
    <3> QED
      BY <1>3, <2>1, <3>1, <3>2, RingProperties, Bounds
  <2> QED
    BY <1>1, <2>2, RingProperties
<1> QED
  BY <1>5, <1>6, <1>8, <1>9 DEF r, new

\* A function on 1..n is a sequence.
LEMMA IsSequence ==
    ASSUME NEW S, NEW n \in Nat, NEW f \in [1..n -> S]
    PROVE  f \in Seq(S) /\ Len(f) = n
<1> DEFINE t == SubSeq(f, 1, n)
<1>1. /\ t \in Seq(S) /\ Len(t) = IF 1 <= n THEN n - 1 + 1 ELSE 0
      /\ \A i \in 1..(n - 1 + 1) : t[i] = f[1 + i - 1]
  BY SubSeqProperties
<1>2. Len(t) = n /\ \A i \in 1..n : t[i] = f[i]
  <2> HIDE DEF t
  <2> QED
    BY <1>1
<1>3. t \in [1..n -> S]
  BY <1>1, <1>2, LenProperties
<1>4. t = f
  <2> HIDE DEF t
  <2> QED
    BY <1>2, <1>3
<1> QED
  BY <1>1, <1>2, <1>4

------------------------------------------------------------------------------
(* The ring buffer as a sequence.                                            *)

\* The sample that is the k-th from the newest.
At(w, k) == w.buffer[Index(w, k)]

\* The samples within reach are trades.
Sampled(w) == \A k \in 1..w.size : At(w, k) \in Trades

LEMMA SamplesSequence ==
    ASSUME NEW w \in Ring, Sampled(w)
    PROVE  /\ SamplesOf(w) \in Seq(Trades) /\ Len(SamplesOf(w)) = w.size
           /\ DOMAIN SamplesOf(w) = 1..w.size
           /\ \A i \in 1..w.size : SamplesOf(w)[i] = At(w, w.size - i + 1)
<1>1. \A i \in 1..w.size : w.size - i + 1 \in 1..w.size
  BY RingProperties
<1>2. SamplesOf(w) = [i \in 1..w.size |-> At(w, w.size - i + 1)]
  BY DEF SamplesOf, At
<1>3. \A i \in 1..w.size : At(w, w.size - i + 1) \in Trades
  BY <1>1 DEF Sampled
<1>4. SamplesOf(w) \in [1..w.size -> Trades]
  BY <1>2, <1>3
<1> QED
  BY <1>2, <1>4, RingProperties, IsSequence

\* Recorded is Append, limited to the youngest MaxSamples.
LEMMA RecordedSamples ==
    ASSUME NEW w \in Ring, Sampled(w), NEW p \in Prices, now \in 0..MaxTime
    PROVE  LET r == Recorded(w, p) IN
           /\ r \in Ring /\ r.size \in 1..MaxSamples
           /\ Sampled(r)
           /\ At(r, 1) = [price |-> p, time |-> now]
           /\ SamplesOf(r) = Band!Youngest(Append(SamplesOf(w), [price |-> p, time |-> now]))
<1> DEFINE r == Recorded(w, p)
           new == [price |-> p, time |-> now]
           s == SamplesOf(w)
           a == Append(s, new)
           m == IF w.size + 1 > MaxSamples THEN 2 ELSE 1
<1>1. /\ r \in Ring
      /\ r.size = IF w.size < MaxSamples THEN w.size + 1 ELSE MaxSamples
      /\ At(r, 1) = new
      /\ \A k \in 2..r.size : At(r, k) = At(w, k - 1)
  BY RecordedRing DEF At
<1>2. new \in Trades
  BY DEF Trades
<1>3. s \in Seq(Trades) /\ Len(s) = w.size /\ \A i \in 1..w.size : s[i] = At(w, w.size - i + 1)
  BY SamplesSequence
<1> HIDE DEF r, new, s
<1>4. /\ a \in Seq(Trades) /\ Len(a) = w.size + 1
      /\ \A i \in 1..w.size : a[i] = s[i]
      /\ a[w.size + 1] = new
  BY <1>2, <1>3, AppendProperties
<1> HIDE DEF a
<1>5. r.size \in 1..MaxSamples /\ r.size = w.size + 1 - m + 1 /\ m \in Nat /\ m >= 1
  BY <1>1, RingProperties, Bounds
<1>6. Sampled(r)
  <2> SUFFICES ASSUME NEW k \in 1..r.size PROVE At(r, k) \in Trades
    BY DEF Sampled
  <2>1. CASE k = 1
    BY <1>1, <1>2, <2>1
  <2>2. CASE k # 1
    <3>1. k \in 2..r.size /\ k - 1 \in 1..w.size
      BY <1>1, <1>5, <2>2, RingProperties, Bounds
    <3> QED
      BY <1>1, <3>1 DEF Sampled
  <2> QED
    BY <2>1, <2>2
<1>7. Band!Youngest(a) = SubSeq(a, m, w.size + 1)
  <2>1. (IF Len(a) > MaxSamples THEN Len(a) - MaxSamples + 1 ELSE 1) = m
    BY <1>4, RingProperties, Bounds
  <2> HIDE DEF m
  <2> QED
    BY <1>4, <2>1 DEF Band!Youngest
<1>8. SamplesOf(r) = SubSeq(a, m, w.size + 1)
  <2> DEFINE l == w.size + 1
             t == SubSeq(a, m, l)
             n == r.size
  <2>1. n \in Nat /\ w.size \in Nat /\ l \in Nat /\ l = w.size + 1
    BY <1>5, RingProperties
  <2>2. /\ SamplesOf(r) \in Seq(Trades) /\ Len(SamplesOf(r)) = n
        /\ \A i \in 1..n : SamplesOf(r)[i] = At(r, n - i + 1)
    BY <1>1, <1>6, SamplesSequence
  <2> HIDE DEF m
  <2> HIDE DEF l
  <2>3. \A i \in m..l : a[i] \in Trades
    <3>1. \A i \in m..l : i \in 1..Len(a)
      BY <1>4, <1>5, <2>1
    <3> QED
      BY <1>4, <3>1, ElementOfSeq
  <2>4. /\ t \in Seq(Trades)
        /\ Len(t) = IF m <= l THEN l - m + 1 ELSE 0
        /\ \A i \in 1..(l - m + 1) : t[i] = a[m + i - 1]
    <3>1. l \in Int /\ m \in Int
      BY <1>5, <2>1
    <3> QED
      BY <2>3, <3>1, SubSeqProperties
  <2> HIDE DEF t
  <2>5. Len(t) = n /\ \A i \in 1..n : t[i] = a[m + i - 1]
    <3>1. l - m + 1 = n /\ m <= l
      BY <1>5, <2>1
    <3> QED
      BY <2>4, <3>1
  <2>6. ASSUME NEW i \in 1..n PROVE SamplesOf(r)[i] = t[i]
    <3>1. CASE i = n
      <4>1. n - i + 1 = 1 /\ m + i - 1 = w.size + 1
        BY <1>5, <2>1, <3>1
      <4> QED
        BY <1>1, <1>4, <2>2, <2>5, <4>1
    <3>2. CASE i # n
      <4>1. /\ n - i + 1 \in 2..n /\ m + i - 1 \in 1..w.size
            /\ n - i + 1 - 1 = w.size - (m + i - 1) + 1
        BY <1>5, <2>1, <3>2
      <4>2. SamplesOf(r)[i] = At(w, n - i + 1 - 1)
        BY <1>1, <2>2, <4>1
      <4>3. t[i] = At(w, w.size - (m + i - 1) + 1)
        BY <1>3, <1>4, <2>5, <4>1
      <4> QED
        BY <4>1, <4>2, <4>3
    <3> QED
      BY <3>1, <3>2
  <2> HIDE DEF n
  <2>7. SamplesOf(r) = t
    BY <2>2, <2>4, <2>5, <2>6, SeqEqual
  <2> QED
    BY <2>7 DEF t, l
<1> QED
  BY <1>1, <1>5, <1>6, <1>7, <1>8 DEF r, new, s, a

\* Eviction cuts the sequence before the first sample that is not stale.
LEMMA EvictedSamples ==
    ASSUME NEW r \in Ring, Sampled(r), r.size >= 1, At(r, 1).time = now, now \in Nat
    PROVE  LET e == Evicted(r)
               s == SamplesOf(r)
               fresh == {i \in DOMAIN s : s[i].time >= now - WindowDuration}
           IN  /\ e \in Ring /\ e.size \in 1..r.size /\ Sampled(e)
               /\ \A k \in 1..e.size : At(e, k) = At(r, k)
               /\ At(e, e.size).time >= now - WindowDuration
               /\ SamplesOf(e) = SubSeq(s, Min(fresh), Len(s))
<1> DEFINE e == Evicted(r)
           s == SamplesOf(r)
           n == r.size
           fresh == {i \in DOMAIN s : s[i].time >= now - WindowDuration}
           F == {k \in 1..n : r.buffer[Index(r, k)].time >= now - WindowDuration}
           z == Max({0} \cup F)
           m == Min(fresh)
<1>1. n \in Nat /\ n >= 1 /\ n <= MaxSamples
  BY RingProperties
<1>2. s \in Seq(Trades) /\ Len(s) = n /\ DOMAIN s = 1..n /\ \A i \in 1..n : s[i] = At(r, n - i + 1)
  BY SamplesSequence
<1>3. \A k \in 1..n : k \in F <=> At(r, k).time >= now - WindowDuration
  BY DEF At
<1>4. 1 \in F
  BY <1>1, <1>3, Bounds
<1>5. z \in F /\ \A k \in F : k <= z
  <2>1. F \subseteq 1..n /\ {0} \cup F \subseteq 0..n
    BY <1>1
  <2> HIDE DEF F
  <2>2. Max(F) \in F /\ \A k \in F : k <= Max(F)
    BY <1>1, <1>4, <2>1, Extremes
  <2>3. \E x \in {0} \cup F : \A y \in {0} \cup F : x >= y
    <3> DEFINE x == Max(F)
    <3>3. x \in F /\ \A y \in F : y <= x
      BY <2>2
    <3> HIDE DEF x, n
    <3>4. \A y \in F : y \in Nat
      BY <2>1
    <3>1. x \in F /\ x \in Nat /\ \A y \in F : y \in Nat /\ x >= y
      BY <3>3, <3>4
    <3>2. \A y \in {0} \cup F : x >= y
      BY <3>1
    <3> QED
      BY <3>1, <3>2
  <2>4. z \in {0} \cup F /\ \A y \in {0} \cup F : z >= y
    BY <2>3 DEF Max
  <2>5. z # 0
    BY <1>4, <2>1, <2>4
  <2> HIDE DEF z
  <2>6. \A k \in F : k <= z
    BY <2>1, <2>4
  <2> QED
    BY <2>4, <2>5, <2>6
<1>6. e = [r EXCEPT !.size = z]
  BY DEF Evicted
<1> HIDE DEF F, z
<1>7. z \in 1..n
  BY <1>5 DEF F
<1>8. /\ e \in Ring /\ e.size = z /\ e.head = r.head /\ e.buffer = r.buffer
  <2>1. z \in 0..MaxSamples
    BY <1>1, <1>7, Bounds
  <2>2. e = [buffer |-> r.buffer, head |-> r.head, size |-> z]
    BY <1>6 DEF Ring
  <2>3. r.buffer \in [Slot -> Sample] /\ r.head \in Slot
    BY DEF Ring
  <2> HIDE DEF e
  <2> QED
    BY <2>1, <2>2, <2>3 DEF Ring
<1> HIDE DEF e
<1>9. \A k : At(e, k) = At(r, k)
  BY <1>8 DEF At, Index
<1>10. Sampled(e)
  BY <1>1, <1>7, <1>8, <1>9 DEF Sampled
<1>11. \A i \in 1..n : i \in fresh <=> n - i + 1 \in F
  <2>1. \A i \in 1..n : n - i + 1 \in 1..n
    BY <1>1
  <2> QED
    BY <1>2, <1>3, <2>1
<1>12. m = n - z + 1
  <2>1. fresh \subseteq 1..n
    BY <1>2
  <2> HIDE DEF fresh
  <2>2. n - z + 1 \in fresh
    <3>1. n - z + 1 \in 1..n /\ n - (n - z + 1) + 1 = z
      BY <1>1, <1>7
    <3> QED
      BY <1>5, <1>11, <3>1
  <2>3. m \in fresh /\ \A k \in fresh : m <= k
    BY <1>1, <2>1, <2>2, Extremes
  <2>4. n - m + 1 <= z
    BY <1>5, <1>11, <2>1, <2>3
  <2> HIDE DEF m
  <2>5. m <= n - z + 1 /\ m \in 1..n
    BY <2>1, <2>2, <2>3
  <2> QED
    BY <1>1, <1>7, <2>4, <2>5
<1> HIDE DEF m, fresh
<1>13. SamplesOf(e) = SubSeq(s, m, n)
  <2> DEFINE t == SubSeq(s, m, n)
  <2>1. /\ SamplesOf(e) \in Seq(Trades) /\ Len(SamplesOf(e)) = z
        /\ \A i \in 1..z : SamplesOf(e)[i] = At(e, z - i + 1)
    BY <1>8, <1>10, SamplesSequence
  <2> HIDE DEF s
  <2>2. \A i \in m..n : s[i] \in Trades
    <3>1. \A i \in m..n : i \in 1..Len(s)
      BY <1>1, <1>2, <1>7, <1>12
    <3> QED
      BY <1>2, <3>1, ElementOfSeq
  <2>3. /\ t \in Seq(Trades)
        /\ Len(t) = IF m <= n THEN n - m + 1 ELSE 0
        /\ \A i \in 1..(n - m + 1) : t[i] = s[m + i - 1]
    <3>1. m \in Int /\ n \in Int
      BY <1>1, <1>7, <1>12
    <3> QED
      BY <2>2, <3>1, SubSeqProperties
  <2> HIDE DEF t, n
  <2>4. Len(t) = z /\ \A i \in 1..z : t[i] = s[m + i - 1]
    BY <1>1, <1>7, <1>12, <2>3
  <2>5. ASSUME NEW i \in 1..z PROVE SamplesOf(e)[i] = t[i]
    <3>1. m + i - 1 \in 1..n /\ n - (m + i - 1) + 1 = z - i + 1
      BY <1>1, <1>7, <1>12
    <3>2. s[m + i - 1] = At(r, n - (m + i - 1) + 1)
      BY <1>2, <3>1
    <3> QED
      BY <1>9, <2>1, <2>4, <3>1, <3>2
  <2>6. SamplesOf(e) = t
    BY <2>1, <2>3, <2>4, <2>5, SeqEqual
  <2> QED
    BY <2>6 DEF t
<1>14. At(e, e.size).time >= now - WindowDuration
  BY <1>3, <1>5, <1>7, <1>8, <1>9
<1> QED
  BY <1>2, <1>7, <1>8, <1>9, <1>10, <1>13, <1>14 DEF e, s, n, m, fresh

------------------------------------------------------------------------------
(* The invariant.                                                            *)

\* The samples within reach are of the past, and the older ones come first.
InTime(w) ==
    /\ \A k \in 1..w.size : At(w, k).time <= now
    /\ \A j, k \in 1..w.size : j <= k => At(w, k).time <= At(w, j).time

IInv ==
    /\ TypeOK
    /\ Sampled(window)
    /\ InTime(window)
    /\ lastHalt <= now

\* Samples is the sequence of the lemmas.
LEMMA SamplesAre == Samples = SamplesOf(window)
BY DEF Samples, SamplesOf

\* Recording a trade of this moment keeps the order of time.
LEMMA RecordedInTime ==
    ASSUME NEW w \in Ring, Sampled(w), InTime(w), NEW p \in Prices, now \in 0..MaxTime
    PROVE  InTime(Recorded(w, p))
<1> DEFINE r == Recorded(w, p)
<1>1. /\ r.size = IF w.size < MaxSamples THEN w.size + 1 ELSE MaxSamples
      /\ At(r, 1) = [price |-> p, time |-> now]
      /\ \A k \in 2..r.size : At(r, k) = At(w, k - 1)
  BY RecordedRing DEF At
<1> HIDE DEF r
<1>7. At(r, 1).time = now
  BY <1>1
<1>2. \A k \in 2..r.size : k \in Nat /\ k >= 2 /\ k - 1 \in 1..w.size
  BY <1>1, RingProperties, Bounds
<1>3. ASSUME NEW k \in 1..r.size PROVE k = 1 \/ k \in 2..r.size
  BY <1>1, RingProperties, Bounds
<1>4. ASSUME NEW k \in 1..r.size PROVE At(r, k).time <= now
  <2>1. CASE k = 1
    BY <1>1, <1>7, <2>1, Bounds
  <2>2. CASE k \in 2..r.size
    <3>1. At(r, k) = At(w, k - 1) /\ k - 1 \in 1..w.size
      BY <1>1, <1>2, <2>2
    <3> QED
      BY <3>1 DEF InTime
  <2> QED
    BY <1>3, <2>1, <2>2
<1>5. ASSUME NEW j \in 1..r.size, NEW k \in 1..r.size, j <= k
      PROVE  At(r, k).time <= At(r, j).time
  <2>1. CASE j = 1
    BY <1>7, <1>4, <2>1
  <2>2. CASE j \in 2..r.size
    <3>1. k \in 2..r.size /\ j - 1 <= k - 1
      BY <1>3, <1>5, <2>2
    <3>2. /\ At(r, j) = At(w, j - 1) /\ j - 1 \in 1..w.size
          /\ At(r, k) = At(w, k - 1) /\ k - 1 \in 1..w.size
      BY <1>1, <1>2, <2>2, <3>1
    <3> QED
      BY <3>1, <3>2 DEF InTime
  <2> QED
    BY <1>3, <2>1, <2>2
<1>6. InTime(r)
  BY <1>4, <1>5 DEF InTime
<1> QED
  BY <1>6 DEF r

\* What a call of Check finds in the window after it has added its sample.
LEMMA Added ==
    ASSUME IInv, NEW p \in Prices
    PROVE  LET a == Add(window, p) IN
           /\ a \in Ring /\ a.size >= 1 /\ Sampled(a) /\ InTime(a)
           /\ At(a, 1) = [price |-> p, time |-> now]
           /\ \A k \in 1..a.size : At(a, k).time >= now - WindowDuration
           /\ SamplesOf(a) = Band!Counting(p)
           /\ OldestPrice(a) \in Prices /\ OldestPrice(a) = SamplesOf(a)[1].price
<1> DEFINE new == [price |-> p, time |-> now]
           r == Recorded(window, p)
           a == Add(window, p)
           s == SamplesOf(r)
           fresh == {i \in DOMAIN s : s[i].time >= now - WindowDuration}
<1>1. window \in Ring /\ now \in 0..MaxTime /\ now \in Nat /\ Sampled(window) /\ InTime(window)
  BY Bounds DEF IInv, TypeOK, Ring
<1>2. /\ r \in Ring /\ r.size \in 1..MaxSamples /\ r.size >= 1 /\ Sampled(r) /\ At(r, 1) = new
      /\ s = Band!Youngest(Append(SamplesOf(window), new))
      /\ InTime(r)
  BY <1>1, RecordedSamples, RecordedInTime, Bounds
<1>3. At(r, 1).time = now
  BY <1>2
<1>4. a = Evicted(r)
  BY DEF Add
<1> HIDE DEF r, a
<1>5. /\ a \in Ring /\ a.size \in 1..r.size /\ Sampled(a)
      /\ \A k \in 1..a.size : At(a, k) = At(r, k)
      /\ At(a, a.size).time >= now - WindowDuration
      /\ SamplesOf(a) = SubSeq(s, Min(fresh), Len(s))
  BY <1>1, <1>2, <1>3, <1>4, EvictedSamples
<1>6. a.size \in Nat /\ a.size >= 1 /\ r.size \in Nat /\ a.size <= r.size
  BY <1>2, <1>5, RingProperties
<1>7. \A k \in 1..a.size : k \in 1..r.size /\ k <= a.size
  BY <1>6
<1>8. InTime(a)
  BY <1>2, <1>5, <1>7 DEF InTime
<1>9. ASSUME NEW k \in 1..a.size PROVE At(a, k).time >= now - WindowDuration
  <2>1. a.size \in 1..a.size /\ k <= a.size
    BY <1>6
  <2>2. At(a, a.size).time <= At(a, k).time
    BY <1>8, <2>1 DEF InTime
  <2>3. At(a, a.size).time \in Nat /\ At(a, k).time \in Nat
    BY <1>5, <2>1, Bounds DEF Sampled, Trades
  <2> QED
    BY <1>1, <1>5, <2>2, <2>3, Bounds
<1>10. At(a, 1) = new
  BY <1>2, <1>5, <1>6
<1>11. SamplesOf(a) = Band!Counting(p)
  <2>1. Band!Min(fresh) = Min(fresh)
    BY DEF Band!Min, Min
  <2> QED
    BY <1>2, <1>5, <2>1, SamplesAre DEF Band!Counting
<1>12. OldestPrice(a) \in Prices /\ OldestPrice(a) = SamplesOf(a)[1].price
  <2>1. SamplesOf(a)[1] = At(a, a.size - 1 + 1)
    <3>1. 1 \in 1..a.size
      BY <1>6
    <3>2. \A i \in 1..a.size : SamplesOf(a)[i] = At(a, a.size - i + 1)
      BY <1>5, SamplesSequence
    <3> QED
      BY <3>1, <3>2
  <2>2. a.size - 1 + 1 = a.size /\ a.size \in 1..a.size
    BY <1>6
  <2>3. At(a, a.size) \in Trades
    BY <1>5, <2>2 DEF Sampled
  <2>4. OldestPrice(a) = At(a, a.size).price
    BY DEF OldestPrice, At
  <2> QED
    BY <2>1, <2>2, <2>3, <2>4 DEF Trades
<1> QED
  BY <1>5, <1>6, <1>8, <1>9, <1>10, <1>11, <1>12 DEF a

\* A window that was reset is empty.
LEMMA ResetEmpty ==
    ASSUME NEW w \in Ring
    PROVE  Reset(w) \in Ring /\ Reset(w).size = 0
<1> DEFINE e == Reset(w)
<1>1. e = [buffer |-> w.buffer, head |-> 0, size |-> 0]
  BY DEF Reset, Ring
<1>2. w.buffer \in [Slot -> Sample] /\ 0 \in Slot /\ 0 \in 0..MaxSamples
  BY Bounds DEF Ring, Slot
<1> HIDE DEF e
<1>3. e \in Ring /\ e.size = 0
  BY <1>1, <1>2 DEF Ring
<1> QED
  BY <1>3 DEF e

LEMMA InitInv == Init => IInv
<1> SUFFICES ASSUME Init PROVE IInv
  OBVIOUS
<1> DEFINE b == [i \in Slot |-> [price |-> 0, time |-> 0]]
<1>1. window = [buffer |-> b, head |-> 0, size |-> 0] /\ lastHalt = 0 /\ state = "Open"
      /\ checks = 0 /\ now = 1
  BY DEF Init
<1>2. b \in [Slot -> Sample] /\ 0 \in Slot /\ 0 \in 0..MaxSamples
  BY Bounds DEF Sample, Slot
<1> HIDE DEF b
<1>3. window \in Ring /\ window.size = 0
  BY <1>1, <1>2 DEF Ring
<1>4. TypeOK
  BY <1>1, <1>3, Bounds DEF TypeOK, Ring
<1>5. Sampled(window) /\ InTime(window)
  BY <1>3 DEF Sampled, InTime
<1> QED
  BY <1>1, <1>4, <1>5 DEF IInv

\* The two outcomes of Check that leave the window as Add made it, and the halt.
LEMMA CheckCases ==
    ASSUME IInv, NEW p \in Prices, Check(p)
    PROVE  /\ checks' \in 0..MaxChecks /\ now' = now
           /\ LET a == Add(window, p) IN
              \/ /\ ~ShouldHalt(a, p) \/ state = "Halted"
                 /\ window' = a /\ UNCHANGED <<lastHalt, state>>
              \/ /\ ShouldHalt(a, p) /\ state = "Open"
                 /\ window' = Reset(a) /\ lastHalt' = now /\ state' = "Halted"
<1>1. checks > 0 /\ checks' = checks - 1 /\ checks \in 0..MaxChecks
  BY DEF Check, IInv, TypeOK
<1>2. checks' \in 0..MaxChecks
  BY <1>1, Bounds
<1> QED
  BY <1>2 DEF Check, SetLastHalt

LEMMA CheckInv ==
    ASSUME IInv, NEW p \in Prices, Check(p)
    PROVE  IInv'
<1> DEFINE a == Add(window, p)
<1>1. a \in Ring /\ Sampled(a) /\ InTime(a)
  BY Added
<1>2. /\ checks' \in 0..MaxChecks /\ now' = now
      /\ \/ window' = a /\ UNCHANGED <<lastHalt, state>>
         \/ window' = Reset(a) /\ lastHalt' = now /\ state' = "Halted"
  BY CheckCases
<1> HIDE DEF a
<1>3. now \in 1..MaxTime /\ lastHalt \in 0..MaxTime /\ lastHalt <= now /\ state \in {"Open", "Halted"}
  BY DEF IInv, TypeOK
<1>4. CASE window' = a /\ UNCHANGED <<lastHalt, state>>
  <2>1. TypeOK'
    BY <1>1, <1>2, <1>3, <1>4 DEF TypeOK, Ring
  <2>2. Sampled(window)'
    BY <1>1, <1>4 DEF Sampled, At, Index
  <2>3. InTime(window)'
    BY <1>1, <1>2, <1>4 DEF InTime, At, Index
  <2> QED
    BY <1>2, <1>3, <1>4, <2>1, <2>2, <2>3 DEF IInv
<1>5. CASE window' = Reset(a) /\ lastHalt' = now /\ state' = "Halted"
  <2>1. window' \in Ring /\ window'.size = 0
    BY <1>1, <1>5, ResetEmpty
  <2>2. TypeOK'
    BY <1>2, <1>3, <1>5, <2>1 DEF TypeOK, Ring
  <2>3. Sampled(window)' /\ InTime(window)'
    BY <2>1 DEF Sampled, InTime
  <2> QED
    BY <1>2, <1>3, <1>5, <2>2, <2>3 DEF IInv
<1> QED
  BY <1>2, <1>4, <1>5

\* The window stays and time does not run backwards.
LEMMA OthersInv ==
    ASSUME IInv, UNCHANGED <<window, lastHalt>>, TypeOK', now' >= now
    PROVE  IInv'
<1>1. Sampled(window)'
  BY DEF IInv, Sampled, At, Index
<1>2. InTime(window)'
  <2>1. \A k \in 1..window.size : At(window, k).time <= now /\ At(window, k).time \in Nat
    BY Bounds DEF IInv, InTime, Sampled, Trades
  <2>2. now \in Nat /\ now' \in Nat
    BY Bounds DEF IInv, TypeOK
  <2>3. \A k \in 1..window.size : At(window, k).time <= now'
    BY <2>1, <2>2
  <2> QED
    BY <2>3 DEF IInv, InTime, At, Index
<1>3. lastHalt' <= now'
  BY Bounds DEF IInv, TypeOK
<1> QED
  BY <1>1, <1>2, <1>3 DEF IInv

LEMMA NextInv == IInv /\ [Next]_vars => IInv'
<1> SUFFICES ASSUME IInv, [Next]_vars PROVE IInv'
  OBVIOUS
<1>1. /\ now \in 1..MaxTime /\ checks \in 0..MaxChecks /\ now <= now
  BY Bounds DEF IInv, TypeOK
<1>2. CASE \E p \in Prices : Check(p)
  BY <1>2, CheckInv
<1>3. ASSUME NEW n \in 1..MaxChecks, NEW t \in now..MaxTime, Command(n, t) PROVE IInv'
  <2>1. now' = t /\ checks' = n /\ UNCHANGED <<window, lastHalt, state>>
    BY <1>3 DEF Command
  <2>2. now' \in 1..MaxTime /\ now' >= now /\ checks' \in 0..MaxChecks
    BY <1>1, <2>1, Bounds
  <2>3. TypeOK'
    BY <2>1, <2>2 DEF IInv, TypeOK
  <2> QED
    BY <2>1, <2>2, <2>3, OthersInv
<1>4. CASE HaltOtherwise \/ Resume
  <2>1. UNCHANGED <<window, lastHalt, checks, now>> /\ state' \in {"Open", "Halted"}
    BY <1>4 DEF HaltOtherwise, Resume
  <2>2. TypeOK'
    BY <2>1 DEF IInv, TypeOK
  <2>3. now' >= now
    BY <1>1, <2>1
  <2> QED
    BY <2>1, <2>2, <2>3, OthersInv
<1>5. CASE UNCHANGED vars
  <2>1. TypeOK'
    BY <1>5 DEF vars, IInv, TypeOK
  <2>2. UNCHANGED <<window, lastHalt>> /\ now' >= now
    BY <1>1, <1>5 DEF vars
  <2> QED
    BY <2>1, <2>2, OthersInv
<1> QED
  BY <1>2, <1>3, <1>4, <1>5 DEF Next

LEMMA Inductive == Spec => []IInv
BY InitInv, NextInv, PTL DEF Spec

------------------------------------------------------------------------------
(* The theorems.                                                             *)

\* The ring buffer, the clock and the halt keep their types: no index leaves the buffer.
THEOREM TypeCorrect == Spec => []TypeOK
<1>1. IInv => TypeOK
  BY DEF IInv
<1> QED
  BY <1>1, Inductive, PTL

\* What Check leaves in the window is not stale, however many samples the buffer lost.
Unstale == [][\A p \in Prices : Check(p) =>
                 \A i \in 1..window'.size : Samples'[i].time >= now' - WindowDuration]_vars

\* A comparison never reaches back further than the window, although eviction looks at
\* the oldest sample only: the samples are in the order of time.
THEOREM StaleNeverCounts == Spec => Unstale
<1>1. ASSUME IInv, NEW p \in Prices, Check(p), NEW i \in 1..window'.size
      PROVE  Samples'[i].time >= now' - WindowDuration
  <2> DEFINE a == Add(window, p)
  <2>1. a \in Ring /\ Sampled(a) /\ \A k \in 1..a.size : At(a, k).time >= now - WindowDuration
    BY <1>1, Added
  <2>2. now' = now /\ (window' = a \/ window' = Reset(a))
    BY <1>1, CheckCases
  <2> HIDE DEF a
  <2>3. window' = a
    BY <1>1, <2>1, <2>2, ResetEmpty
  <2>4. Samples' = SamplesOf(a)
    BY <2>3 DEF Samples, SamplesOf, Index
  <2>5. a.size \in Nat
    BY <2>1, RingProperties
  <2>6. SamplesOf(a)[i] = At(a, a.size - i + 1) /\ a.size - i + 1 \in 1..a.size
    BY <1>1, <2>1, <2>3, <2>5, SamplesSequence
  <2> QED
    BY <2>1, <2>2, <2>4, <2>6
<1>2. IInv /\ [Next]_vars =>
         [\A p \in Prices : Check(p) =>
             \A i \in 1..window'.size : Samples'[i].time >= now' - WindowDuration]_vars
  BY <1>1
<1> QED
  BY <1>2, Inductive, PTL DEF Spec, Unstale

\* Check's decision is the one of PriceBand.
LEMMA DecisionAgrees ==
    ASSUME IInv, NEW p \in Prices
    PROVE  ShouldHalt(Add(window, p), p) /\ state = "Open" <=> Band!Breaks(p)
<1> DEFINE a == Add(window, p)
           q == OldestPrice(a)
<1>1. /\ a \in Ring /\ a.size >= 1 /\ At(a, 1) = [price |-> p, time |-> now]
      /\ SamplesOf(a) = Band!Counting(p)
      /\ q \in Prices /\ q = Band!Counting(p)[1].price
  BY Added
<1>2. Div(Magnitude(p - q), q, Scale) > MaxMovePercent <=> Band!TooFar(p, q)
  <2> HIDE DEF q
  <2> QED
    BY <1>1, PercentageIsExact
<1>3. ShouldHalt(a, p) <=> /\ ~Suppressed
                           /\ a.size >= 2
                           /\ q # 0
                           /\ Div(Magnitude(p - q), q, Scale) > MaxMovePercent
  BY DEF ShouldHalt
<1>4. q # 0
  <2> HIDE DEF q
  <2> QED
    BY <1>1, Bounds
<1>5. ~Suppressed <=> Band!Cooled
  BY Bounds DEF Suppressed, Band!Cooled, IInv, TypeOK
<1>6. Band!TooFar(p, q) => a.size >= 2
  <2> SUFFICES ASSUME a.size < 2, Band!TooFar(p, q) PROVE FALSE
    BY <1>1, RingProperties
  <2>1. a.size = 1
    BY <1>1, RingProperties
  <2>2. q = p
    BY <1>1, <2>1 DEF OldestPrice, At
  <2> HIDE DEF q
  <2>3. p \in Nat /\ p >= 1 /\ MaxMovePercent \in Nat /\ Scale \in Nat
    BY Bounds
  <2>4. Band!Distance(p, p) = 0
    BY <2>3 DEF Band!Distance
  <2>5. 0 * Scale >= (MaxMovePercent + 1) * p
    BY <2>2, <2>4 DEF Band!TooFar
  <2>6. (MaxMovePercent + 1) * p >= p /\ 0 * Scale = 0
    BY <2>3, Z3
  <2>7. (MaxMovePercent + 1) * p \in Nat
    BY <2>3, Z3
  <2> QED
    BY <2>3, <2>5, <2>6, <2>7
<1>7. Band!Breaks(p) <=> state = "Open" /\ Band!Cooled /\ Band!TooFar(p, q)
  <2> HIDE DEF a, q
  <2> QED
    BY <1>1 DEF Band!Breaks
<1> HIDE DEF a, q
<1>8. ShouldHalt(a, p) /\ state = "Open" <=> Band!Breaks(p)
  BY <1>2, <1>3, <1>4, <1>5, <1>6, <1>7
<1> QED
  BY <1>8 DEF a

\* A call of Check is a trade of PriceBand.
LEMMA CheckTrades ==
    ASSUME IInv, NEW p \in Prices, Check(p)
    PROVE  Band!Trade(p)
<1> DEFINE a == Add(window, p)
<1>1. a \in Ring /\ SamplesOf(a) = Band!Counting(p)
  BY Added
<1>2. ShouldHalt(a, p) /\ state = "Open" <=> Band!Breaks(p)
  BY DecisionAgrees
<1>3. /\ now' = now
      /\ \/ /\ ~ShouldHalt(a, p) \/ state = "Halted"
            /\ window' = a /\ UNCHANGED <<lastHalt, state>>
         \/ /\ ShouldHalt(a, p) /\ state = "Open"
            /\ window' = Reset(a) /\ lastHalt' = now /\ state' = "Halted"
  BY CheckCases
<1> HIDE DEF a
<1>4. CASE /\ ~ShouldHalt(a, p) \/ state = "Halted"
           /\ window' = a /\ UNCHANGED <<lastHalt, state>>
  <2>1. Samples' = SamplesOf(a)
    BY <1>4 DEF Samples, SamplesOf, Index
  <2>2. ~Band!Breaks(p)
    BY <1>2, <1>4
  <2> QED
    BY <1>1, <1>3, <1>4, <2>1, <2>2 DEF Band!Trade
<1>5. CASE /\ ShouldHalt(a, p) /\ state = "Open"
           /\ window' = Reset(a) /\ lastHalt' = now /\ state' = "Halted"
  <2>1. window'.size = 0
    BY <1>1, <1>5, ResetEmpty
  <2>2. Samples' = <<>>
    BY <2>1 DEF Samples
  <2>3. Band!Breaks(p)
    BY <1>2, <1>5
  <2> QED
    BY <1>3, <1>5, <2>2, <2>3 DEF Band!Trade
<1> QED
  BY <1>3, <1>4, <1>5

LEMMA StepRefines == IInv /\ [Next]_vars => [Band!Next]_(Band!vars)
<1> SUFFICES ASSUME IInv, [Next]_vars PROVE [Band!Next]_(Band!vars)
  OBVIOUS
<1>1. CASE \E p \in Prices : Check(p)
  BY <1>1, CheckTrades DEF Band!Next
<1>2. ASSUME NEW n \in 1..MaxChecks, NEW t \in now..MaxTime, Command(n, t)
      PROVE  Band!Wait
  <2>1. now' = t /\ UNCHANGED <<window, lastHalt, state>>
    BY <1>2 DEF Command
  <2>2. Samples' = Samples
    BY <2>1 DEF Samples, Index
  <2>3. now' >= now
    BY <2>1, Bounds DEF IInv, TypeOK
  <2> QED
    BY <2>1, <2>2, <2>3 DEF Band!Wait
<1>3. CASE HaltOtherwise \/ Resume
  <2>1. UNCHANGED <<window, lastHalt, now>> /\ state' \in {"Open", "Halted"}
    BY <1>3 DEF HaltOtherwise, Resume
  <2>2. Samples' = Samples
    BY <2>1 DEF Samples, Index
  <2> QED
    BY <2>1, <2>2 DEF Band!Switch, Band!Next
<1>4. CASE UNCHANGED vars
  <2>1. UNCHANGED <<window, lastHalt, state, now>>
    BY <1>4 DEF vars
  <2>2. Samples' = Samples
    BY <2>1 DEF Samples, Index
  <2> QED
    BY <2>1, <2>2 DEF Band!vars
<1> QED
  BY <1>1, <1>2, <1>3, <1>4 DEF Next, Band!Next

\* The ring buffer with its eviction, its machine words and its truncated percentage, the
\* cooldown, and a halt that may fail: together they halt the market exactly when a trade
\* is too far from the oldest trade that counts.
THEOREM HaltsExactlyOutOfBand == Spec => ImplementsPriceBand
<1>1. Init => Band!Init
  <2> SUFFICES ASSUME Init PROVE Band!Init
    OBVIOUS
  <2>1. window.size = 0
    BY DEF Init
  <2>2. Samples = <<>>
    BY <2>1 DEF Samples
  <2> QED
    BY <2>2 DEF Init, Band!Init
<1>2. IInv /\ [Next]_vars => [Band!Next]_(Band!vars)
  BY StepRefines
<1> QED
  BY <1>1, <1>2, Inductive, PTL DEF Spec, ImplementsPriceBand, Band!Spec
=============================================================================
