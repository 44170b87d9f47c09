---------------------------- MODULE FiniteLemmas ----------------------------
(***************************************************************************)
(* Facts about finite sets: sums over them, their least and greatest       *)
(* elements, and their elements in order.  The SumFunctionOnSet of the     *)
(* community modules picks one element after another, so that each lemma   *)
(* about sums is an induction over finite sets, by a smallest              *)
(* counterexample.                                                         *)
(***************************************************************************)
EXTENDS Integers, Sequences, FiniteSets, FiniteSetsExt, Functions, FiniteSetTheorems,
        SequenceTheorems, WellFoundedInduction, TLAPS

Pick(s) == CHOOSE x \in s : TRUE

\* The recursion by which a sum over D is computed.
Sums(h, g, D) ==
    h = [s \in SUBSET D |-> IF s = {} THEN 0 ELSE g[Pick(s)] + h[s \ {Pick(s)}]]

Sum(g, D) == (CHOOSE h : Sums(h, g, D))[D]

LEMMA SumUnfolded ==
    ASSUME NEW g, NEW D
    PROVE  SumFunctionOnSet(g, D) = Sum(g, D)
BY DEF SumFunctionOnSet, FoldFunctionOnSet, MapThenFoldSet, Sum, Sums, Pick

LEMMA Picked == ASSUME NEW s, s # {} PROVE Pick(s) \in s
BY DEF Pick

\* Of the subsets with a property, one has no smaller one with it.
LEMMA MinimalSubset ==
    ASSUME NEW D, IsFiniteSet(D), NEW B, B \subseteq SUBSET D, B # {}
    PROVE  \E s \in B : \A t \in B : t \subseteq s => t = s
<1> DEFINE R == StrictSubsetOrdering(D)
<1>1. IsWellFoundedOn(R, SUBSET D)
  BY FS_StrictSubsetOrderingWellFounded, FS_FiniteSubsetsOfFinite
<1>2. \A s, t \in SUBSET D : <<t, s>> \in R <=> t \subseteq s /\ t # s
  BY DEF StrictSubsetOrdering
<1> HIDE DEF R
<1>3. PICK s \in B : \A t \in B : <<t, s>> \notin R
  BY <1>1, WFMin
<1>4. \A t \in B : t \subseteq s => t = s
  BY <1>2, <1>3
<1> QED
  BY <1>4

\* What the recursion says of one subset.
LEMMA SumsAt ==
    ASSUME NEW h, NEW g, NEW D, Sums(h, g, D), NEW s \in SUBSET D
    PROVE  h[s] = IF s = {} THEN 0 ELSE g[Pick(s)] + h[s \ {Pick(s)}]
BY DEF Sums

\* Two such functions agree where both are defined and add up the same values.
LEMMA SumsAgree ==
    ASSUME NEW D, IsFiniteSet(D), NEW E, NEW f, NEW g, NEW h, NEW k,
           Sums(h, f, D), Sums(k, g, E), D \subseteq E, \A x \in D : f[x] = g[x]
    PROVE  \A s \in SUBSET D : h[s] = k[s]
<1> DEFINE B == {s \in SUBSET D : h[s] # k[s]}
<1> SUFFICES ASSUME B # {} PROVE FALSE
  OBVIOUS
<1>1. PICK s \in B : \A t \in B : t \subseteq s => t = s
  <2>1. B \subseteq SUBSET D
    OBVIOUS
  <2> HIDE DEF B
  <2> QED
    BY <2>1, MinimalSubset
<1>2. s \in SUBSET D /\ s \in SUBSET E /\ h[s] # k[s]
  OBVIOUS
<1> HIDE DEF B
<1>3. h[s] = (IF s = {} THEN 0 ELSE f[Pick(s)] + h[s \ {Pick(s)}])
  BY <1>2, SumsAt
<1>4. k[s] = (IF s = {} THEN 0 ELSE g[Pick(s)] + k[s \ {Pick(s)}])
  BY <1>2, SumsAt
<1>5. s # {} /\ Pick(s) \in s
  BY <1>2, <1>3, <1>4, Picked
<1> DEFINE t == s \ {Pick(s)}
<1>6. t \in SUBSET D /\ t \subseteq s /\ t # s
  BY <1>2, <1>5
<1>7. h[t] = k[t]
  BY <1>1, <1>6 DEF B
<1> QED
  BY <1>2, <1>3, <1>4, <1>5, <1>7

\* There is such a function on the subsets of every finite set.
LEMMA SumsExist ==
    ASSUME NEW D, IsFiniteSet(D), NEW g
    PROVE  \E h : Sums(h, g, D)
<1> DEFINE B == {s \in SUBSET D : ~\E h : Sums(h, g, s)}
<1> SUFFICES ASSUME B # {} PROVE FALSE
  OBVIOUS
<1>1. PICK s \in B : \A t \in B : t \subseteq s => t = s
  <2>1. B \subseteq SUBSET D
    OBVIOUS
  <2> HIDE DEF B
  <2> QED
    BY <2>1, MinimalSubset
<1>2. s \in SUBSET D /\ ~\E h : Sums(h, g, s)
  OBVIOUS
<1>3. \A t \in SUBSET s : IsFiniteSet(t)
  BY <1>2, FS_Subset
<1> DEFINE H(t) == CHOOSE h : Sums(h, g, t)
<1>4. \A t \in SUBSET s : t # s => Sums(H(t), g, t)
  <2> SUFFICES ASSUME NEW t \in SUBSET s, t # s PROVE Sums(H(t), g, t)
    OBVIOUS
  <2>1. t \in SUBSET D /\ t \notin B
    BY <1>1, <1>2
  <2>2. \E h : Sums(h, g, t)
    BY <2>1
  <2> QED
    BY <2>2
<1> HIDE DEF H, B
<1> DEFINE k == [t \in SUBSET s |->
                    IF t = {} THEN 0 ELSE g[Pick(t)] + H(t \ {Pick(t)})[t \ {Pick(t)}]]
<1>5. ASSUME NEW t \in SUBSET s, t # {}
      PROVE  H(t \ {Pick(t)})[t \ {Pick(t)}] = k[t \ {Pick(t)}]
  <2> DEFINE u == t \ {Pick(t)}
             v == u \ {Pick(u)}
  <2>1. Pick(t) \in t /\ u \in SUBSET s /\ u # s
    BY <1>5, Picked
  <2>2. k[u] = IF u = {} THEN 0 ELSE g[Pick(u)] + H(v)[v]
    BY <2>1
  <2>3. Sums(H(u), g, u)
    BY <1>4, <2>1
  <2>4. H(u)[u] = IF u = {} THEN 0 ELSE g[Pick(u)] + H(u)[v]
    <3>1. u \in SUBSET u
      OBVIOUS
    <3> HIDE DEF u
    <3> QED
      BY <2>3, <3>1, SumsAt
  <2>5. u # {} => H(v)[v] = H(u)[v]
    <3> SUFFICES ASSUME u # {} PROVE H(v)[v] = H(u)[v]
      OBVIOUS
    <3>1. v \in SUBSET u /\ v \in SUBSET s /\ v # s /\ v \in SUBSET v
      BY <2>1
    <3>2. Sums(H(v), g, v) /\ IsFiniteSet(v)
      BY <1>3, <1>4, <3>1
    <3> HIDE DEF u, v
    <3>3. \A w \in SUBSET v : H(v)[w] = H(u)[w]
      BY <2>3, <3>1, <3>2, SumsAgree
    <3> QED
      BY <3>1, <3>3
  <2> QED
    BY <2>2, <2>4, <2>5
<1>6. k = [t \in SUBSET s |-> IF t = {} THEN 0 ELSE g[Pick(t)] + k[t \ {Pick(t)}]]
  <2> DEFINE K(t) == IF t = {} THEN 0 ELSE g[Pick(t)] + k[t \ {Pick(t)}]
  <2>1. ASSUME NEW t \in SUBSET s PROVE k[t] = K(t)
    <3>1. k[t] = IF t = {} THEN 0 ELSE g[Pick(t)] + H(t \ {Pick(t)})[t \ {Pick(t)}]
      OBVIOUS
    <3> HIDE DEF k
    <3> QED
      BY <1>5, <3>1
  <2>2. k = [t \in SUBSET s |-> k[t]]
    OBVIOUS
  <2> HIDE DEF k
  <2> QED
    BY <2>1, <2>2
<1> HIDE DEF k
<1>7. Sums(k, g, s)
  BY <1>6 DEF Sums
<1> QED
  BY <1>2, <1>7

\* The sum of nothing, of the elements picked one by one, and of equal values.
LEMMA SumEmpty ==
    ASSUME NEW g
    PROVE  Sum(g, {}) = 0
<1>1. PICK h : Sums(h, g, {})
  BY SumsExist, FS_EmptySet
<1> DEFINE k == CHOOSE h1 : Sums(h1, g, {})
<1>2. Sums(k, g, {})
  BY <1>1
<1>3. Sum(g, {}) = k[{}]
  BY DEF Sum
<1> HIDE DEF k
<1>4. {} \in SUBSET {}
  OBVIOUS
<1>5. k[{}] = IF {} = {} THEN 0 ELSE g[Pick({})] + k[{} \ {Pick({})}]
  BY <1>2, <1>4, SumsAt
<1> QED
  BY <1>3, <1>5

LEMMA SumSame ==
    ASSUME NEW D, IsFiniteSet(D), NEW f, NEW g, \A x \in D : f[x] = g[x]
    PROVE  Sum(f, D) = Sum(g, D)
<1> DEFINE h == CHOOSE h1 : Sums(h1, f, D)
           k == CHOOSE k1 : Sums(k1, g, D)
<1>1. Sums(h, f, D) /\ Sums(k, g, D)
  <2>1. (\E h1 : Sums(h1, f, D)) /\ (\E k1 : Sums(k1, g, D))
    BY SumsExist
  <2> QED
    BY <2>1
<1>2. Sum(f, D) = h[D] /\ Sum(g, D) = k[D]
  BY DEF Sum
<1> HIDE DEF h, k
<1>3. \A s \in SUBSET D : h[s] = k[s]
  BY <1>1, SumsAgree
<1>4. D \in SUBSET D
  OBVIOUS
<1> QED
  BY <1>2, <1>3, <1>4

LEMMA SumPicked ==
    ASSUME NEW D, IsFiniteSet(D), D # {}, NEW g
    PROVE  Sum(g, D) = g[Pick(D)] + Sum(g, D \ {Pick(D)})
<1> DEFINE E == D \ {Pick(D)}
           h == CHOOSE h1 : Sums(h1, g, D)
           k == CHOOSE k1 : Sums(k1, g, E)
<1>1. IsFiniteSet(E) /\ E \in SUBSET D /\ E \subseteq D /\ E \in SUBSET E
  BY FS_Subset
<1>2. Sums(h, g, D) /\ Sums(k, g, E)
  <2>1. \E h1 : Sums(h1, g, D)
    BY SumsExist
  <2> HIDE DEF E
  <2>2. \E k1 : Sums(k1, g, E)
    BY <1>1, SumsExist
  <2> QED
    BY <2>1, <2>2
<1>3. Sum(g, D) = h[D] /\ Sum(g, E) = k[E]
  BY DEF Sum
<1> HIDE DEF h, k
<1>4. D \in SUBSET D
  OBVIOUS
<1>5. h[D] = g[Pick(D)] + h[E]
  BY <1>2, <1>4, SumsAt
<1> HIDE DEF E
<1>6. \A s \in SUBSET E : k[s] = h[s]
  BY <1>1, <1>2, SumsAgree
<1> QED
  BY <1>1, <1>3, <1>5, <1>6 DEF E

\* A sum of integers is one.
LEMMA SumType ==
    ASSUME NEW D, IsFiniteSet(D), NEW g, \A x \in D : g[x] \in Int
    PROVE  Sum(g, D) \in Int
<1> DEFINE B == {s \in SUBSET D : Sum(g, s) \notin Int}
<1> SUFFICES ASSUME B # {} PROVE FALSE
  OBVIOUS
<1>1. PICK s \in B : \A t \in B : t \subseteq s => t = s
  <2>1. B \subseteq SUBSET D
    OBVIOUS
  <2> HIDE DEF B
  <2> QED
    BY <2>1, MinimalSubset
<1>2. s \in SUBSET D /\ Sum(g, s) \notin Int /\ IsFiniteSet(s)
  BY FS_Subset
<1>3. s # {}
  BY <1>2, SumEmpty
<1>4. Pick(s) \in s /\ g[Pick(s)] \in Int
  BY <1>2, <1>3, Picked
<1>5. s \ {Pick(s)} \in SUBSET D /\ s \ {Pick(s)} \subseteq s /\ s \ {Pick(s)} # s
  BY <1>2, <1>4
<1>6. Sum(g, s \ {Pick(s)}) \in Int
  BY <1>1, <1>5
<1>7. Sum(g, s) = g[Pick(s)] + Sum(g, s \ {Pick(s)})
  BY <1>2, <1>3, SumPicked
<1> QED
  BY <1>2, <1>4, <1>6, <1>7

\* Any element may be counted first.
LEMMA SumRemove ==
    ASSUME NEW D, IsFiniteSet(D), NEW g, \A x \in D : g[x] \in Int, NEW x \in D
    PROVE  Sum(g, D) = g[x] + Sum(g, D \ {x})
<1> DEFINE Good(s) == \A y \in s : Sum(g, s) = g[y] + Sum(g, s \ {y})
           B == {s \in SUBSET D : ~Good(s)}
<1> SUFFICES ASSUME B # {} PROVE FALSE
  OBVIOUS
<1>1. PICK s \in B : \A t \in B : t \subseteq s => t = s
  <2>1. B \subseteq SUBSET D
    OBVIOUS
  <2> HIDE DEF B
  <2> QED
    BY <2>1, MinimalSubset
<1>2. s \in SUBSET D /\ ~Good(s) /\ IsFiniteSet(s)
  BY FS_Subset
<1>3. PICK y \in s : Sum(g, s) # g[y] + Sum(g, s \ {y})
  BY <1>2
<1> DEFINE p == Pick(s)
<1>4. p \in s /\ Sum(g, s) = g[p] + Sum(g, s \ {p})
  BY <1>2, <1>3, Picked, SumPicked
<1>5. p # y
  BY <1>3, <1>4
<1> HIDE DEF p
<1>6. \A z \in s : s \ {z} \in SUBSET D /\ s \ {z} \notin B /\ Good(s \ {z})
  BY <1>1, <1>2
<1>7. Sum(g, s \ {p}) = g[y] + Sum(g, (s \ {p}) \ {y})
  BY <1>4, <1>5, <1>6
<1>8. Sum(g, s \ {y}) = g[p] + Sum(g, (s \ {y}) \ {p})
  BY <1>3, <1>4, <1>5, <1>6
<1>9. (s \ {p}) \ {y} = (s \ {y}) \ {p}
  OBVIOUS
<1>10. Sum(g, (s \ {y}) \ {p}) \in Int
  <2> DEFINE t == (s \ {y}) \ {p}
  <2>1. IsFiniteSet(t) /\ \A z \in t : g[z] \in Int
    BY <1>2, FS_Subset
  <2> HIDE DEF t
  <2>2. Sum(g, t) \in Int
    BY <2>1, SumType
  <2> QED
    BY <2>2 DEF t
<1>11. g[p] \in Int /\ g[y] \in Int
  BY <1>2, <1>3, <1>4
<1>12. Sum(g, s) = g[p] + (g[y] + Sum(g, (s \ {y}) \ {p}))
  BY <1>4, <1>7, <1>9
<1>13. g[y] + Sum(g, s \ {y}) = g[y] + (g[p] + Sum(g, (s \ {y}) \ {p}))
  BY <1>8
<1> QED
  BY <1>3, <1>10, <1>11, <1>12, <1>13

\* The part of x in a sum over s.
Part(g, s, x) == IF x \in s THEN g[x] ELSE 0

\* When only the part of x changes, the sum changes by as much.
LEMMA SumChange ==
    ASSUME NEW S, NEW T, IsFiniteSet(S), IsFiniteSet(T), NEW f, NEW g, NEW x,
           \A y \in S : f[y] \in Int, \A y \in T : g[y] \in Int,
           S \ {x} = T \ {x}, \A y \in S \ {x} : f[y] = g[y]
    PROVE  /\ Sum(g, T) = Sum(f, S) - Part(f, S, x) + Part(g, T, x)
           /\ Sum(f, S) \in Int
<1> DEFINE C == S \ {x}
<1>1. IsFiniteSet(C) /\ C = T \ {x} /\ \A y \in C : f[y] = g[y] /\ f[y] \in Int
  BY FS_Subset
<1> HIDE DEF C
<1>2. Sum(f, C) = Sum(g, C) /\ Sum(f, C) \in Int
  <2>1. (\A y \in C : f[y] = g[y]) /\ (\A y \in C : f[y] \in Int)
    BY <1>1
  <2> QED
    BY <1>1, <2>1, SumSame, SumType
<1>3. Part(f, S, x) \in Int /\ Part(g, T, x) \in Int
  BY DEF Part
<1>4. Sum(f, S) = Part(f, S, x) + Sum(f, C)
  <2>1. CASE x \in S
    BY <2>1, SumRemove DEF Part, C
  <2>2. CASE x \notin S
    <3>1. C = S
      BY <2>2 DEF C
    <3> QED
      BY <2>2, <3>1, <1>2 DEF Part
  <2> QED
    BY <2>1, <2>2
<1>5. Sum(g, T) = Part(g, T, x) + Sum(g, C)
  <2>1. CASE x \in T
    BY <2>1, <1>1, SumRemove DEF Part
  <2>2. CASE x \notin T
    <3>1. C = T
      BY <2>2, <1>1
    <3> QED
      BY <2>2, <3>1, <1>2 DEF Part
  <2> QED
    BY <2>1, <2>2
<1> QED
  BY <1>2, <1>3, <1>4, <1>5

\* f with n less at x is g.
Less(f, g, S, x, n) == g[x] = f[x] - n /\ \A y \in S : y # x => g[y] = f[y]

LEMMA SumLess ==
    ASSUME NEW S, IsFiniteSet(S), NEW f, NEW g, NEW x \in S, NEW n \in Int,
           \A y \in S : f[y] \in Int, Less(f, g, S, x, n)
    PROVE  Sum(f, S) \in Int /\ Sum(g, S) = Sum(f, S) - n
<1> DEFINE C == S \ {x}
<1>1. /\ \A y \in S : g[y] \in Int
      /\ g[x] = f[x] - n /\ f[x] \in Int
  <2>1. f[x] \in Int /\ g[x] = f[x] - n
    BY DEF Less
  <2>2. \A y \in S : y # x => g[y] = f[y]
    BY DEF Less
  <2> QED
    BY <2>1, <2>2
<1>2. IsFiniteSet(C) /\ (\A y \in C : g[y] = f[y]) /\ (\A y \in C : f[y] \in Int)
  BY FS_Subset DEF Less
<1>3. Sum(f, S) = f[x] + Sum(f, C)
  BY SumRemove
<1>4. Sum(g, S) = g[x] + Sum(g, C)
  BY <1>1, SumRemove
<1> HIDE DEF C
<1>5. Sum(g, C) = Sum(f, C) /\ Sum(f, C) \in Int
  BY <1>2, SumSame, SumType
<1> QED
  BY <1>1, <1>3, <1>4, <1>5

\* A part of a set and the rest add up to the whole.
LEMMA SumSplit ==
    ASSUME NEW D, IsFiniteSet(D), NEW g, \A x \in D : g[x] \in Int, NEW E \in SUBSET D
    PROVE  Sum(g, D) = Sum(g, E) + Sum(g, D \ E)
<1> DEFINE Good(s) == Sum(g, s) = Sum(g, s \cap E) + Sum(g, s \ E)
           B == {s \in SUBSET D : ~Good(s)}
<1>a. SUFFICES B = {}
  <2>1. Good(D)
    BY <1>a
  <2>2. D \cap E = E
    OBVIOUS
  <2> QED
    BY <2>1, <2>2
<1> SUFFICES ASSUME B # {} PROVE FALSE
  OBVIOUS
<1>1. PICK s \in B : \A t \in B : t \subseteq s => t = s
  <2>1. B \subseteq SUBSET D
    OBVIOUS
  <2> HIDE DEF B
  <2> QED
    BY <2>1, MinimalSubset
<1>2. s \in SUBSET D /\ ~Good(s)
  OBVIOUS
<1>3. /\ IsFiniteSet(s) /\ IsFiniteSet(s \cap E) /\ IsFiniteSet(s \ E)
      /\ (\A x \in s : g[x] \in Int)
      /\ (\A x \in s \cap E : g[x] \in Int) /\ (\A x \in s \ E : g[x] \in Int)
  BY <1>2, FS_Subset
<1>4. s # {}
  <2> SUFFICES ASSUME s = {} PROVE Good({})
    BY <1>2
  <2>1. {} \cap E = {} /\ {} \ E = {}
    OBVIOUS
  <2>2. Sum(g, {}) = 0 + 0
    BY SumEmpty
  <2> QED
    BY <2>1, <2>2, SumEmpty
<1>5. PICK x \in s : TRUE
  BY <1>4
<1> DEFINE t == s \ {x}
<1>6. Good(t)
  <2>1. t \in SUBSET D /\ t \subseteq s /\ t # s
    BY <1>2, <1>5
  <2>2. t \notin B
    BY <1>1, <2>1
  <2> HIDE DEF Good, t
  <2> QED
    BY <2>1, <2>2
<1>7. Sum(g, s) = g[x] + Sum(g, t)
  BY <1>3, <1>5, SumRemove
<1>8. Sum(g, t \cap E) \in Int /\ Sum(g, t \ E) \in Int /\ g[x] \in Int
  <2>1. /\ IsFiniteSet(t \cap E) /\ IsFiniteSet(t \ E)
        /\ (\A y \in t \cap E : g[y] \in Int) /\ (\A y \in t \ E : g[y] \in Int)
    <3>1. t \cap E \subseteq s /\ t \ E \subseteq s
      OBVIOUS
    <3> QED
      BY <3>1, <1>3, FS_Subset
  <2> HIDE DEF t
  <2> QED
    BY <2>1, <1>3, <1>5, SumType
<1>9. CASE x \in E
  <2>1. (s \cap E) \ {x} = t \cap E /\ s \ E = t \ E /\ x \in s \cap E
    BY <1>5, <1>9
  <2>2. Sum(g, s \cap E) = g[x] + Sum(g, t \cap E)
    BY <2>1, <1>3, SumRemove
  <2>3. Sum(g, t) = Sum(g, t \cap E) + Sum(g, s \ E)
    BY <1>6, <2>1
  <2>4. Sum(g, s \ E) \in Int
    BY <1>8, <2>1
  <2>5. Sum(g, s) # Sum(g, s \cap E) + Sum(g, s \ E)
    BY <1>2
  <2> HIDE DEF t, B, Good
  <2> QED
    BY <1>7, <1>8, <2>2, <2>3, <2>4, <2>5
<1>10. CASE x \notin E
  <2>1. (s \ E) \ {x} = t \ E /\ s \cap E = t \cap E /\ x \in s \ E
    BY <1>5, <1>10
  <2>2. Sum(g, s \ E) = g[x] + Sum(g, t \ E)
    BY <2>1, <1>3, SumRemove
  <2>3. Sum(g, t) = Sum(g, s \cap E) + Sum(g, t \ E)
    BY <1>6, <2>1
  <2>4. Sum(g, s \cap E) \in Int
    BY <1>8, <2>1
  <2>5. Sum(g, s) # Sum(g, s \cap E) + Sum(g, s \ E)
    BY <1>2
  <2> HIDE DEF t, B, Good
  <2> QED
    BY <1>7, <1>8, <2>2, <2>3, <2>4, <2>5
<1> QED
  BY <1>9, <1>10

\* A sum of naturals is one, no less than any of its terms, and no less than a part of it.
LEMMA SumNat ==
    ASSUME NEW D, IsFiniteSet(D), NEW g, \A x \in D : g[x] \in Nat
    PROVE  Sum(g, D) \in Nat
<1> DEFINE B == {s \in SUBSET D : Sum(g, s) \notin Nat}
<1> SUFFICES ASSUME B # {} PROVE FALSE
  OBVIOUS
<1>1. PICK s \in B : \A t \in B : t \subseteq s => t = s
  <2>1. B \subseteq SUBSET D
    OBVIOUS
  <2> HIDE DEF B
  <2> QED
    BY <2>1, MinimalSubset
<1>2. s \in SUBSET D /\ Sum(g, s) \notin Nat /\ IsFiniteSet(s)
  BY FS_Subset
<1>3. s # {}
  BY <1>2, SumEmpty
<1>4. Pick(s) \in s /\ g[Pick(s)] \in Nat
  BY <1>2, <1>3, Picked
<1>5. s \ {Pick(s)} \in SUBSET D /\ s \ {Pick(s)} \subseteq s /\ s \ {Pick(s)} # s
  BY <1>2, <1>4
<1>6. Sum(g, s \ {Pick(s)}) \in Nat
  BY <1>1, <1>5
<1>7. Sum(g, s) = g[Pick(s)] + Sum(g, s \ {Pick(s)})
  BY <1>2, <1>3, SumPicked
<1> QED
  BY <1>2, <1>4, <1>6, <1>7

LEMMA SumTerm ==
    ASSUME NEW D, IsFiniteSet(D), NEW g, \A x \in D : g[x] \in Nat, NEW x \in D
    PROVE  Sum(g, D) >= g[x]
<1> DEFINE E == D \ {x}
<1>1. IsFiniteSet(E) /\ (\A y \in E : g[y] \in Nat) /\ g[x] \in Nat
  BY FS_Subset
<1>2. Sum(g, D) = g[x] + Sum(g, E)
  BY SumRemove
<1> HIDE DEF E
<1>3. Sum(g, E) \in Nat
  BY <1>1, SumNat
<1> QED
  BY <1>1, <1>2, <1>3

LEMMA SumSubset ==
    ASSUME NEW D, IsFiniteSet(D), NEW g, \A x \in D : g[x] \in Nat, NEW E \in SUBSET D
    PROVE  /\ Sum(g, E) \in Nat /\ Sum(g, D) \in Nat
           /\ Sum(g, D) - Sum(g, E) \in Nat
           /\ Sum(g, D) = Sum(g, E) + Sum(g, D \ E)
<1> DEFINE F == D \ E
<1>1. /\ IsFiniteSet(E) /\ IsFiniteSet(F)
      /\ (\A y \in E : g[y] \in Nat) /\ (\A y \in F : g[y] \in Nat)
  BY FS_Subset
<1>2. Sum(g, D) = Sum(g, E) + Sum(g, F)
  BY SumSplit
<1> HIDE DEF F
<1>3. Sum(g, E) \in Nat /\ Sum(g, F) \in Nat
  BY <1>1, SumNat
<1> QED
  BY <1>2, <1>3 DEF F

\* A sum of zeros.
LEMMA SumZero ==
    ASSUME NEW D, IsFiniteSet(D), NEW g, \A x \in D : g[x] = 0
    PROVE  Sum(g, D) = 0
<1> DEFINE B == {s \in SUBSET D : Sum(g, s) # 0}
<1> SUFFICES ASSUME B # {} PROVE FALSE
  OBVIOUS
<1>1. PICK s \in B : \A t \in B : t \subseteq s => t = s
  <2>1. B \subseteq SUBSET D
    OBVIOUS
  <2> HIDE DEF B
  <2> QED
    BY <2>1, MinimalSubset
<1>2. s \in SUBSET D /\ Sum(g, s) # 0 /\ IsFiniteSet(s)
  BY FS_Subset
<1>3. s # {}
  BY <1>2, SumEmpty
<1>4. Pick(s) \in s /\ g[Pick(s)] = 0
  BY <1>2, <1>3, Picked
<1>5. s \ {Pick(s)} \in SUBSET D /\ s \ {Pick(s)} \subseteq s /\ s \ {Pick(s)} # s
  BY <1>2, <1>4
<1>6. Sum(g, s \ {Pick(s)}) = 0
  BY <1>1, <1>5
<1>7. Sum(g, s) = g[Pick(s)] + Sum(g, s \ {Pick(s)})
  BY <1>2, <1>3, SumPicked
<1> QED
  BY <1>2, <1>4, <1>6, <1>7

\* Adding up what one-to-one images have is adding up what the originals have.
LEMMA SumImage ==
    ASSUME NEW D, IsFiniteSet(D), NEW h, NEW f, NEW g,
           \A x, y \in D : h[x] = h[y] => x = y,
           \A x \in D : g[h[x]] = f[x] /\ f[x] \in Int
    PROVE  /\ IsFiniteSet({h[x] : x \in D})
           /\ Sum(g, {h[x] : x \in D}) = Sum(f, D)
<1> DEFINE I(s) == {h[x] : x \in s}
           B == {s \in SUBSET D : ~(IsFiniteSet(I(s)) /\ Sum(g, I(s)) = Sum(f, s))}
<1>1. B = {}
  <2> SUFFICES ASSUME B # {} PROVE FALSE
    OBVIOUS
  <2>1. PICK s \in B : \A t \in B : t \subseteq s => t = s
    <3>1. B \subseteq SUBSET D
      OBVIOUS
    <3> HIDE DEF B
    <3> QED
      BY <3>1, MinimalSubset
  <2>2. s \in SUBSET D /\ ~(IsFiniteSet(I(s)) /\ Sum(g, I(s)) = Sum(f, s)) /\ IsFiniteSet(s)
    BY FS_Subset
  <2>3. CASE s = {}
    <3>1. I(s) = {}
      BY <2>3
    <3> HIDE DEF I
    <3> QED
      BY <3>1, <2>2, <2>3, SumEmpty, FS_EmptySet
  <2>4. CASE s # {}
    <3>1. PICK x \in s : TRUE
      BY <2>4
    <3> DEFINE t == s \ {x}
    <3>2. t \in SUBSET D /\ t \subseteq s /\ t # s /\ x \in D
      BY <2>2
    <3>3. IsFiniteSet(I(t)) /\ Sum(g, I(t)) = Sum(f, t)
      BY <2>1, <3>2
    <3>4. I(s) = I(t) \cup {h[x]} /\ h[x] \notin I(t)
      BY <2>2
    <3>5. Sum(f, s) = f[x] + Sum(f, t)
      BY <2>2, SumRemove
    <3>6. \A y \in I(s) : g[y] \in Int
      BY <2>2
    <3> DEFINE J == I(s)
               K == I(t)
               e == h[x]
    <3> HIDE DEF J, K, e
    <3>7. IsFiniteSet(K) /\ J = K \cup {e} /\ e \notin K /\ \A y \in J : g[y] \in Int
      BY <3>3, <3>4, <3>6 DEF J, K, e
    <3>8. IsFiniteSet(J) /\ J \ {e} = K /\ e \in J
      BY <3>7, FS_AddElement
    <3>9. Sum(g, J) = g[e] + Sum(g, J \ {e})
      BY <3>7, <3>8, SumRemove
    <3>10. IsFiniteSet(I(s)) /\ Sum(g, I(s)) = g[h[x]] + Sum(g, I(t))
      BY <3>8, <3>9 DEF J, K, e
    <3> QED
      BY <2>2, <3>2, <3>3, <3>5, <3>10
  <2> QED
    BY <2>3, <2>4
<1>2. D \in SUBSET D /\ D \notin B
  BY <1>1
<1> QED
  BY <1>2

------------------------------------------------------------------------------
(* Least and greatest elements.                                              *)

\* Of a set of numbers one is the least.
LEMMA Least ==
    ASSUME NEW T, T \subseteq Nat, T # {}
    PROVE  \E x \in T : \A y \in T : x <= y
<1> DEFINE R == {ss \in Nat \X Nat : ss[1] < ss[2]}
<1>1. IsWellFoundedOn(R, Nat)
  BY NatLessThanWellFounded DEF OpToRel
<1> HIDE DEF R
<1>2. PICK x \in T : \A y \in T : <<y, x>> \notin R
  BY <1>1, WFMin
<1>3. ASSUME NEW y \in T PROVE x <= y
  <2>1. <<y, x>> \in Nat \X Nat /\ <<y, x>>[1] = y /\ <<y, x>>[2] = x
    OBVIOUS
  <2>2. ~(y < x)
    BY <2>1, <1>2 DEF R
  <2>3. x \in Nat /\ y \in Nat
    OBVIOUS
  <2> QED
    BY <2>2, <2>3
<1> QED
  BY <1>3

\* A finite set of numbers has a greatest member.
LEMMA GreatestOfSubset ==
    ASSUME NEW S, IsFiniteSet(S)
    PROVE  \A s \in SUBSET S : s \subseteq Nat /\ s # {} => \E x \in s : \A y \in s : x >= y
<1> DEFINE Top(s) == \E x \in s : \A y \in s : x >= y
           B == {s \in SUBSET S : s \subseteq Nat /\ s # {} /\ ~Top(s)}
<1> SUFFICES ASSUME B # {} PROVE FALSE
  OBVIOUS
<1>1. PICK s \in B : \A t \in B : t \subseteq s => t = s
  <2>1. B \subseteq SUBSET S
    OBVIOUS
  <2> HIDE DEF B
  <2> QED
    BY <2>1, MinimalSubset
<1>2. s \in SUBSET S /\ s # {} /\ ~Top(s) /\ s \subseteq Nat
  <2>1. s \in B
    OBVIOUS
  <2> HIDE DEF Top
  <2> QED
    BY <2>1
<1>3. PICK p \in s : TRUE
  BY <1>2
<1> DEFINE t == s \ {p}
<1>4. t \in SUBSET S /\ t \subseteq s /\ t # s /\ t \subseteq Nat
  BY <1>2, <1>3
<1>5. t = {} \/ Top(t)
  <2>1. t \notin B
    BY <1>1, <1>4
  <2> HIDE DEF t, Top
  <2> QED
    BY <2>1, <1>4
<1>6. CASE t = {}
  <2>1. \A y \in s : y = p
    BY <1>6
  <2> QED
    BY <2>1, <1>2, <1>3
<1>7. CASE Top(t)
  <2>1. PICK x \in t : \A y \in t : x >= y
    BY <1>7
  <2>2. CASE x >= p
    BY <2>1, <2>2, <1>2
  <2>3. CASE ~(x >= p)
    <3>1. \A y \in t : p >= y
      BY <2>1, <2>3, <1>2, <1>3
    <3>2. p >= p
      BY <1>2, <1>3
    <3> QED
      BY <3>1, <3>2, <1>2, <1>3
  <2> QED
    BY <2>2, <2>3
<1> QED
  BY <1>5, <1>6, <1>7

LEMMA Greatest ==
    ASSUME NEW S, IsFiniteSet(S), S \subseteq Nat, S # {}
    PROVE  Max(S) \in S /\ \A y \in S : y <= Max(S)
<1>1. PICK x \in S : \A y \in S : x >= y
  BY GreatestOfSubset
<1>2. Max(S) \in S /\ \A y \in S : Max(S) >= y
  BY <1>1 DEF Max
<1> QED
  BY <1>2

\* A function on 1..n is a sequence.
LEMMA IsSequence ==
    ASSUME NEW S, NEW n \in Nat, NEW f \in [1..n -> S]
    PROVE  f \in Seq(S) /\ Len(f) = n
<1> DEFINE t == SubSeq(f, 1, n)
<1>1. /\ t \in Seq(S) /\ Len(t) = IF 1 <= n THEN n - 1 + 1 ELSE 0
      /\ \A i \in 1..(n - 1 + 1) : t[i] = f[1 + i - 1]
  BY SubSeqProperties
<1>2. Len(t) = n /\ \A i \in 1..n : t[i] = f[i]
  <2> HIDE DEF t
  <2> QED
    BY <1>1
<1>3. t \in [1..n -> S]
  BY <1>1, <1>2, LenProperties
<1>4. t = f
  <2> HIDE DEF t
  <2> QED
    BY <1>2, <1>3
<1> QED
  BY <1>1, <1>2, <1>4

------------------------------------------------------------------------------
(* Sorting: a finite set in a strict order of its elements, as a sequence.   *)

StrictOrder(S, R) ==
    /\ \A x \in S : <<x, x>> \notin R
    /\ \A x, y, z \in S : <<x, y>> \in R /\ <<y, z>> \in R => <<x, z>> \in R
    /\ \A x, y \in S : x = y \/ <<x, y>> \in R \/ <<y, x>> \in R

BeforeIn(S, R, o) == {p \in S : <<p, o>> \in R}

\* Who comes before another has fewer before itself.
LEMMA FewerBefore ==
    ASSUME NEW S, IsFiniteSet(S), NEW R, StrictOrder(S, R),
           NEW x \in S, NEW y \in S, <<x, y>> \in R
    PROVE  /\ Cardinality(BeforeIn(S, R, x)) \in Nat
           /\ Cardinality(BeforeIn(S, R, y)) \in Nat
           /\ Cardinality(BeforeIn(S, R, x)) < Cardinality(BeforeIn(S, R, y))
<1> DEFINE a == BeforeIn(S, R, x)
           b == BeforeIn(S, R, y)
<1>1. a \subseteq b /\ x \in b /\ x \notin a /\ b \subseteq S
  BY DEF StrictOrder, BeforeIn
<1> HIDE DEF a, b
<1>2. IsFiniteSet(b)
  BY <1>1, FS_Subset
<1>3. a \in SUBSET b /\ a # b
  BY <1>1
<1>4. IsFiniteSet(a) /\ Cardinality(a) <= Cardinality(b) /\ Cardinality(a) # Cardinality(b)
  BY <1>2, <1>3, FS_Subset
<1>5. Cardinality(a) \in Nat /\ Cardinality(b) \in Nat
  BY <1>2, <1>4, FS_CardinalityType
<1>6. Cardinality(a) < Cardinality(b)
  BY <1>4, <1>5
<1> QED
  BY <1>5, <1>6 DEF a, b

\* Nobody is before itself.
LEMMA SomeBefore ==
    ASSUME NEW S, IsFiniteSet(S), NEW R, StrictOrder(S, R), NEW o \in S
    PROVE  Cardinality(BeforeIn(S, R, o)) \in 0..(Cardinality(S) - 1)
<1> DEFINE b == BeforeIn(S, R, o)
           n == Cardinality(S)
<1>1. b \in SUBSET S /\ b # S
  BY DEF BeforeIn, StrictOrder
<1> HIDE DEF b
<1>2. IsFiniteSet(b) /\ Cardinality(b) <= n /\ Cardinality(b) # n
  BY <1>1, FS_Subset
<1>3. Cardinality(b) \in Nat /\ n \in Nat
  BY <1>2, FS_CardinalityType
<1>4. Cardinality(b) \in 0..(n - 1)
  BY <1>2, <1>3
<1> QED
  BY <1>4 DEF b

\* The sequence is one of S, in the order, and every element occurs in it.
Sorted(S, R, q) ==
    /\ q \in Seq(S) /\ Len(q) = Cardinality(S) /\ DOMAIN q = 1..Len(q)
    /\ \A i, j \in 1..Len(q) : i < j => <<q[i], q[j]>> \in R
    /\ \A o \in S : \E i \in 1..Len(q) : q[i] = o

\* S in the order R: the i-th has i - 1 before it.
RankSequence(S, R) ==
    [i \in 1..Cardinality(S) |-> CHOOSE o \in S : Cardinality({p \in S : <<p, o>> \in R}) = i - 1]

LEMMA RanksSort ==
    ASSUME NEW S, IsFiniteSet(S), NEW R, StrictOrder(S, R)
    PROVE  Sorted(S, R, RankSequence(S, R))
<1> DEFINE n == Cardinality(S)
           Rank(o) == Cardinality(BeforeIn(S, R, o))
           r == [o \in S |-> Rank(o)]
           q == RankSequence(S, R)
<1>1. n \in Nat
  BY FS_CardinalityType
<1>2. ASSUME NEW o \in S PROVE Rank(o) \in 0..(n - 1)
  BY SomeBefore
<1>3. ASSUME NEW x \in S, NEW y \in S
      PROVE  (<<x, y>> \in R <=> Rank(x) < Rank(y)) /\ (x # y => Rank(x) # Rank(y))
  <2>1. <<x, y>> \in R => Rank(x) \in Nat /\ Rank(y) \in Nat /\ Rank(x) < Rank(y)
    BY FewerBefore
  <2>2. <<y, x>> \in R => Rank(x) \in Nat /\ Rank(y) \in Nat /\ Rank(y) < Rank(x)
    BY FewerBefore
  <2>3. x = y \/ <<x, y>> \in R \/ <<y, x>> \in R
    BY DEF StrictOrder
  <2>4. Rank(x) \in Nat /\ Rank(y) \in Nat
    BY <1>1, <1>2
  <2> HIDE DEF Rank
  <2> QED
    BY <2>1, <2>2, <2>3, <2>4
<1>4. q = [i \in 1..n |-> CHOOSE o \in S : Rank(o) = i - 1]
  BY DEF RankSequence, BeforeIn
<1> HIDE DEF Rank, n, q
<1>5. r \in Injection(S, 0..(n - 1))
  <2>1. r \in [S -> 0..(n - 1)]
    BY <1>2
  <2>2. \A x, y \in S : r[x] = r[y] => x = y
    BY <1>3
  <2> QED
    BY <2>1, <2>2 DEF Injection, IsInjective
<1>6. \A k \in 0..(n - 1) : \E o \in S : Rank(o) = k
  <2>1. IsFiniteSet(0..(n - 1)) /\ Cardinality(0..(n - 1)) = n
    <3>1. 0 \in Int /\ n - 1 \in Int
      BY <1>1
    <3>2. /\ IsFiniteSet(0..(n - 1))
          /\ Cardinality(0..(n - 1)) = IF 0 > n - 1 THEN 0 ELSE n - 1 - 0 + 1
      BY <3>1, FS_Interval
    <3> QED
      BY <3>2, <1>1
  <2>2. Cardinality(S) = n
    BY DEF n
  <2>3. r \in Surjection(S, 0..(n - 1))
    <3> HIDE DEF r
    <3> QED
      BY <2>1, <2>2, <1>5, FS_Injection
  <2> QED
    BY <2>3 DEF Surjection
<1>7. ASSUME NEW i \in 1..n
      PROVE  q[i] \in S /\ Rank(q[i]) = i - 1
  <2>1. i - 1 \in 0..(n - 1)
    BY <1>1
  <2>2. \E o \in S : Rank(o) = i - 1
    BY <2>1, <1>6
  <2>3. q[i] = CHOOSE o \in S : Rank(o) = i - 1
    BY <1>4
  <2> QED
    BY <2>2, <2>3
<1>8. q \in [1..n -> S]
  <2>1. DOMAIN q = 1..n /\ q = [i \in 1..n |-> q[i]]
    BY <1>4
  <2> QED
    BY <2>1, <1>7
<1>9. q \in Seq(S) /\ Len(q) = n
  BY <1>1, <1>8, IsSequence
<1>10. ASSUME NEW i \in 1..n, NEW j \in 1..n, i < j
       PROVE  <<q[i], q[j]>> \in R
  <2>1. q[i] \in S /\ q[j] \in S /\ Rank(q[i]) = i - 1 /\ Rank(q[j]) = j - 1
    BY <1>7
  <2>2. Rank(q[i]) < Rank(q[j])
    BY <2>1, <1>1, <1>10
  <2> QED
    BY <2>1, <2>2, <1>3
<1>11. ASSUME NEW o \in S
       PROVE  \E i \in 1..n : q[i] = o
  <2>1. Rank(o) + 1 \in 1..n /\ (Rank(o) + 1) - 1 = Rank(o)
    BY <1>1, <1>2
  <2>2. q[Rank(o) + 1] \in S /\ Rank(q[Rank(o) + 1]) = Rank(o)
    BY <2>1, <1>7
  <2>3. q[Rank(o) + 1] = o
    BY <2>2, <1>3
  <2> QED
    BY <2>1, <2>3
<1>12. Cardinality(S) = n
  BY DEF n
<1>13. DOMAIN q = 1..Len(q)
  BY <1>8, <1>9
<1>14. Sorted(S, R, q)
  BY <1>9, <1>10, <1>11, <1>12, <1>13 DEF Sorted
<1> QED
  BY <1>14 DEF q

\* A finite set in a strict order has a last element.
LEMMA LastOne ==
    ASSUME NEW S, IsFiniteSet(S), S # {}, NEW R, StrictOrder(S, R)
    PROVE  \E x \in S : \A y \in S : y = x \/ <<y, x>> \in R
<1> DEFINE q == RankSequence(S, R)
           k == Len(q)
<1>1. Sorted(S, R, q)
  BY RanksSort
<1> HIDE DEF q
<1>2. q \in Seq(S) /\ k \in Nat /\ \A i \in 1..k : q[i] \in S
  BY <1>1, LenProperties DEF Sorted
<1>3. PICK m \in S : TRUE
  OBVIOUS
<1>4. \E i \in 1..k : q[i] = m
  BY <1>1 DEF Sorted
<1>5. k \in 1..k
  <2> HIDE DEF k
  <2> QED
    BY <1>2, <1>4
<1>6. ASSUME NEW y \in S PROVE y = q[k] \/ <<y, q[k]>> \in R
  <2>1. PICK i \in 1..k : q[i] = y
    BY <1>1 DEF Sorted
  <2>2. i = k \/ i < k
    <3> HIDE DEF k
    <3> QED
      BY <1>2
  <2> QED
    BY <2>1, <2>2, <1>1, <1>5 DEF Sorted
<1> QED
  BY <1>2, <1>5, <1>6
=============================================================================
