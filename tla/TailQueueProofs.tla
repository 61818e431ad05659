--------------------------- MODULE TailQueueProofs ---------------------------
(***************************************************************************)
(* Facts about the queue operators of TailQueue, for all queues: what      *)
(* unlinking and sorted insertion keep, and that they do not disturb the   *)
(* order of the queue.                                                     *)
(***************************************************************************)
EXTENDS TailQueue, SequenceTheorems, WellFoundedInduction, TLAPS

\* Induction over numbers in first-order form: a set of numbers that is not
\* empty has a least element.
LEMMA LeastNumber ==
  ASSUME NEW T \in SUBSET Nat, T # {}
  PROVE  \E n \in T : \A m \in T : n <= m
<1>1. PICK n \in T : \A m \in T : <<m, n>> \notin OpToRel(<, Nat)
  BY NatLessThanWellFounded, WFMin
<1>2. ASSUME NEW m \in T PROVE n <= m
  <2>1. <<m, n>> \in Nat \X Nat
    OBVIOUS
  <2>2. ~(m < n)
    BY <1>1, <2>1 DEF OpToRel
  <2> QED BY <2>2
<1> QED BY <1>2

\* f is the recursive function of Keep up to position n.
IsKept(f, q, S, n) ==
  f = [i \in 0 .. n |-> IF i = 0 THEN << >>
                        ELSE IF q[i] \in S THEN Append(f[i-1], q[i])
                        ELSE f[i-1]]

\* e embeds k, in order, into the first n elements of q: exactly those in S.
Embeds(e, k, q, S, n) ==
  /\ e \in [1 .. Len(k) -> 1 .. n]
  /\ \A i, j \in 1 .. Len(k) : i < j => e[i] < e[j]
  /\ \A i \in 1 .. Len(k) : k[i] = q[e[i]] /\ k[i] \in S /\ i <= e[i]
  /\ n > 0 /\ q[1] \notin S => \A i \in 1 .. Len(k) : i < e[i]
  /\ \A j \in 1 .. n : q[j] \in S => \E i \in 1 .. Len(k) : e[i] = j

\* The recursive function of Keep exists.
LEMMA KeptExists ==
  ASSUME NEW T, NEW q \in Seq(T), NEW S
  PROVE  \E f : IsKept(f, q, S, Len(q))
<1> DEFINE Bad == {n \in 0 .. Len(q) : ~ \E f : IsKept(f, q, S, n)}
<1>0. Len(q) \in Nat
  OBVIOUS
<1> SUFFICES ASSUME Bad # {} PROVE FALSE
  <2>1. Len(q) \notin Bad
    OBVIOUS
  <2> QED BY <1>0, <2>1
<1>1. PICK n \in Bad : \A m \in Bad : n <= m
  <2>1. Bad \in SUBSET Nat
    BY <1>0
  <2> HIDE DEF Bad
  <2> QED BY <2>1, LeastNumber
<1>2. CASE n = 0
  <2>1. IsKept([i \in 0 .. 0 |-> << >>], q, S, 0)
    BY DEF IsKept
  <2> QED BY <2>1, <1>2
<1>3. CASE n > 0
  <2>1. n - 1 \in 0 .. Len(q) /\ n - 1 \notin Bad
    BY <1>1, <1>3
  <2>2. PICK f : IsKept(f, q, S, n - 1)
    BY <2>1
  <2> DEFINE step == IF q[n] \in S THEN Append(f[n-1], q[n]) ELSE f[n-1]
             g == [i \in 0 .. n |-> IF i = n THEN step ELSE f[i]]
  <2>3. \A i \in 0 .. n - 1 :
          f[i] = IF i = 0 THEN << >>
                 ELSE IF q[i] \in S THEN Append(f[i-1], q[i]) ELSE f[i-1]
    BY <2>2 DEF IsKept
  <2>4. \A i \in 0 .. n :
          g[i] = IF i = 0 THEN << >>
                 ELSE IF q[i] \in S THEN Append(g[i-1], q[i]) ELSE g[i-1]
    <3> TAKE i \in 0 .. n
    <3>1. CASE i = n
      <4>1. g[i-1] = f[n-1] /\ g[i] = step
        BY <3>1, <1>3
      <4> QED BY <4>1, <3>1, <1>3
    <3>2. CASE i # n
      <4>1. g[i] = f[i] /\ i \in 0 .. n - 1
        BY <3>2
      <4>2. i # 0 => g[i-1] = f[i-1]
        BY <3>2
      <4> HIDE DEF g
      <4> QED BY <4>1, <4>2, <2>3
    <3> QED BY <3>1, <3>2
  <2>5. IsKept(g, q, S, n)
    <3>1. g = [i \in 0 .. n |-> g[i]]
      OBVIOUS
    <3> HIDE DEF g
    <3>2. [i \in 0 .. n |-> g[i]]
           = [i \in 0 .. n |-> IF i = 0 THEN << >>
                        ELSE IF q[i] \in S THEN Append(g[i-1], q[i])
                        ELSE g[i-1]]
      BY <2>4
    <3> QED BY <3>1, <3>2 DEF IsKept
  <2> QED BY <2>5
<1> QED BY <1>2, <1>3

\* At every position the recursive function holds the elements in S so far.
LEMMA KeptEmbeds ==
  ASSUME NEW T, NEW q \in Seq(T), NEW S, NEW f, IsKept(f, q, S, Len(q))
  PROVE  \A n \in 0 .. Len(q) : f[n] \in Seq(T) /\ \E e : Embeds(e, f[n], q, S, n)
<1> DEFINE Good(n) == f[n] \in Seq(T) /\ \E e : Embeds(e, f[n], q, S, n)
           Bad == {n \in 0 .. Len(q) : ~Good(n)}
<1>0. Len(q) \in Nat
  OBVIOUS
<1>1. \A i \in 0 .. Len(q) :
        f[i] = IF i = 0 THEN << >>
               ELSE IF q[i] \in S THEN Append(f[i-1], q[i]) ELSE f[i-1]
  BY DEF IsKept
<1>a. f[0] = << >>
  BY <1>1, <1>0
<1>b. ASSUME NEW i \in 1 .. Len(q), q[i] \in S PROVE f[i] = Append(f[i-1], q[i])
  <2>1. i \in 0 .. Len(q) /\ i # 0
    BY <1>0
  <2> QED BY <2>1, <1>1, <1>b, Zenon
<1>c. ASSUME NEW i \in 1 .. Len(q), q[i] \notin S PROVE f[i] = f[i-1]
  <2>1. i \in 0 .. Len(q) /\ i # 0
    BY <1>0
  <2> QED BY <2>1, <1>1, <1>c, Zenon
<1> SUFFICES ASSUME Bad # {} PROVE FALSE
  OBVIOUS
<1>2. PICK n \in Bad : \A m \in Bad : n <= m
  <2>1. Bad \in SUBSET Nat
    BY <1>0
  <2> HIDE DEF Bad
  <2> QED BY <2>1, LeastNumber
<1>n. n \in 0 .. Len(q) /\ ~Good(n)
  OBVIOUS
<1>p. n > 0 => Good(n - 1)
  <2>1. n > 0 => n - 1 \in 0 .. Len(q) /\ n - 1 < n
    BY <1>n, <1>0
  <2> QED BY <2>1, <1>2, <1>n, <1>0
<1> HIDE DEF Bad
<1>3. CASE n = 0
  <2>1. f[n] = << >>
    BY <1>a, <1>3
  <2>2. Embeds(<< >>, << >>, q, S, 0)
    BY DEF Embeds
  <2> QED BY <2>1, <2>2, <1>3, <1>n
<1>4. CASE n > 0
  <2>1. n \in 1 .. Len(q) /\ n - 1 \in 0 .. Len(q) /\ q[n] \in T
    BY <1>n, <1>4, <1>0
  <2>2. f[n-1] \in Seq(T)
    BY <1>p, <1>4
  <2>3. PICK e : Embeds(e, f[n-1], q, S, n - 1)
    BY <1>p, <1>4
  <2>n. ~ (f[n] \in Seq(T) /\ \E d : Embeds(d, f[n], q, S, n))
    BY <1>n
  <2> HIDE DEF Good
  <2>4. CASE q[n] \in S
    <3>1. f[n] = Append(f[n-1], q[n])
      BY <1>b, <2>1, <2>4
    <3> DEFINE L == Len(f[n-1])
               d == [i \in 1 .. L + 1 |-> IF i = L + 1 THEN n ELSE e[i]]
    <3>2. Len(f[n]) = L + 1 /\ f[n] \in Seq(T) /\ L \in Nat
      BY <3>1, <2>1, <2>2
    <3>3. \A i \in 1 .. L : f[n][i] = f[n-1][i] /\ d[i] = e[i] /\ e[i] \in 1 .. n - 1
      <4>1. \A i \in 1 .. L : e[i] \in 1 .. n - 1
        BY <2>3 DEF Embeds
      <4>2. \A i \in 1 .. L : f[n][i] = f[n-1][i]
        BY <3>1, <2>1, <2>2
      <4>3. \A i \in 1 .. L : i \in 1 .. L + 1 /\ i # L + 1
        BY <3>2
      <4>4. \A i \in 1 .. L : d[i] = e[i]
        BY <4>3
      <4> QED BY <4>1, <4>2, <4>4
    <3>4. f[n][L+1] = q[n] /\ d[L+1] = n
      BY <3>1, <3>2, <2>1, <2>2
    <3>5. \A i \in 1 .. L + 1 : i # L + 1 => i \in 1 .. L
      BY <3>2
    <3>6. L <= n - 1
      <4>1. \A i \in 1 .. L : i <= e[i] /\ e[i] \in 1 .. n - 1
        BY <2>3, <3>3 DEF Embeds
      <4>2. L > 0 => L \in 1 .. L
        BY <3>2
      <4> HIDE DEF L
      <4> QED BY <4>1, <4>2, <3>2, <2>1
    <3>7. d \in [1 .. L + 1 -> 1 .. n]
      <4>1. \A i \in 1 .. L + 1 : (IF i = L + 1 THEN n ELSE e[i]) \in 1 .. n
        <5> HIDE DEF L, d
        <5>1. \A i \in 1 .. L : e[i] \in 1 .. n
          BY <3>3, <2>1
        <5> QED BY <5>1, <3>5, <2>1
      <4> QED BY <4>1
    <3>8. DOMAIN d = 1 .. L + 1
      OBVIOUS
    <3> HIDE DEF d, L
    <3>9. \A i, j \in 1 .. L + 1 : i < j => d[i] < d[j]
      <4>1. \A i, j \in 1 .. L : i < j => d[i] < d[j]
        BY <2>3, <3>3 DEF Embeds, L
      <4>2. \A i \in 1 .. L : d[i] < d[L+1]
        BY <3>3, <3>4, <2>1
      <4>3. \A i, j \in 1 .. L + 1 : i < j => i \in 1 .. L
        BY <3>2
      <4> QED BY <4>1, <4>2, <4>3, <3>5
    <3>10. \A i \in 1 .. L + 1 : f[n][i] = q[d[i]] /\ f[n][i] \in S /\ i <= d[i]
      <4>1. \A i \in 1 .. L : f[n][i] = q[d[i]] /\ f[n][i] \in S /\ i <= d[i]
        <5>1. \A i \in 1 .. L : f[n-1][i] = q[e[i]] /\ f[n-1][i] \in S /\ i <= e[i]
          BY <2>3 DEF Embeds, L
        <5> QED BY <5>1, <3>3
      <4>2. f[n][L+1] = q[d[L+1]] /\ f[n][L+1] \in S /\ L + 1 <= d[L+1]
        BY <3>4, <3>6, <2>4, <3>2, <2>1
      <4> QED BY <4>1, <4>2, <3>5
    <3>11. ASSUME q[1] \notin S, NEW i \in 1 .. L + 1 PROVE i < d[i]
      <4>1. n # 1
        BY <3>11, <2>4
      <4>2. \A k \in 1 .. L : k < e[k]
        BY <2>3, <3>11, <4>1, <2>1 DEF Embeds, L
      <4>3. L < n - 1
        BY <4>2, <3>3, <4>1, <3>2, <2>1
      <4>4. L + 1 < d[L+1]
        BY <4>3, <3>4, <3>2, <2>1
      <4>5. \A k \in 1 .. L : k < d[k]
        BY <4>2, <3>3
      <4> QED BY <4>4, <4>5, <3>5
    <3>12. ASSUME NEW j \in 1 .. n, q[j] \in S PROVE \E i \in 1 .. L + 1 : d[i] = j
      <4>1. CASE j = n
        BY <4>1, <3>4, <3>2
      <4>2. CASE j # n
        <5>1. j \in 1 .. n - 1
          BY <4>2, <2>1
        <5>2. PICK i \in 1 .. L : e[i] = j
          BY <5>1, <3>12, <2>3 DEF Embeds, L
        <5> QED BY <5>2, <3>3, <3>2
      <4> QED BY <4>1, <4>2
    <3>13. Embeds(d, f[n], q, S, n)
      BY <3>2, <3>7, <3>9, <3>10, <3>11, <3>12 DEF Embeds
    <3> QED BY <3>13, <3>2, <2>n
  <2>5. CASE q[n] \notin S
    <3>1. f[n] = f[n-1]
      BY <1>c, <2>1, <2>5
    <3> DEFINE L == Len(f[n-1])
    <3>2. L \in Nat
      BY <2>2
    <3>3. e \in [1 .. L -> 1 .. n]
      BY <2>3, <2>1 DEF Embeds
    <3>4. \A j \in 1 .. n : q[j] \in S => j \in 1 .. n - 1
      BY <2>5, <2>1
    <3>5. CASE n = 1
      <4>1. L = 0
        BY <2>3, <3>5, <3>2 DEF Embeds
      <4> QED BY <2>2, <2>3, <3>1, <3>3, <3>4, <4>1, <3>5, <2>n DEF Embeds
    <3>6. CASE n # 1
      <4>1. Embeds(e, f[n], q, S, n)
        BY <2>3, <3>1, <3>3, <3>4, <3>6, <2>1 DEF Embeds
      <4> QED BY <4>1, <2>2, <3>1, <2>n
    <3> QED BY <3>5, <3>6
  <2> QED BY <2>4, <2>5
<1> QED BY <1>3, <1>4, <1>n, <1>0
-----------------------------------------------------------------------------
\* What TAILQ_FOREACH over the elements in S meets: a queue of exactly those
\* elements, each once if q holds each once, in the order of q.
LEMMA KeepProperties ==
  ASSUME NEW T, NEW q \in Seq(T), NEW S
  PROVE  /\ Keep(q, S) \in Seq(T)
         /\ Range(Keep(q, S)) = Range(q) \cap S
         /\ IsInjective(q) => IsInjective(Keep(q, S))
         /\ \E e : Embeds(e, Keep(q, S), q, S, Len(q))
<1>0. Len(q) \in Nat /\ Len(q) \in 0 .. Len(q)
  OBVIOUS
<1>1. \E f : IsKept(f, q, S, Len(q)) /\ Keep(q, S) = f[Len(q)]
  <2>1. \E f : IsKept(f, q, S, Len(q))
    BY KeptExists
  <2> QED BY <2>1 DEF Keep, IsKept
<1>2. PICK f : IsKept(f, q, S, Len(q)) /\ Keep(q, S) = f[Len(q)]
  BY <1>1
<1>3. Keep(q, S) \in Seq(T) /\ \E e : Embeds(e, Keep(q, S), q, S, Len(q))
  BY <1>2, <1>0, KeptEmbeds
<1>4. PICK e : Embeds(e, Keep(q, S), q, S, Len(q))
  BY <1>3
<1> DEFINE k == Keep(q, S)
<1>5. /\ DOMAIN q = 1 .. Len(q) /\ DOMAIN k = 1 .. Len(k) /\ Len(k) \in Nat
      /\ k \in Seq(T)
  BY <1>3
<1> HIDE DEF k
<1>6. Range(k) = Range(q) \cap S
  <2>1. ASSUME NEW i \in 1 .. Len(k) PROVE k[i] \in Range(q) \cap S
    BY <1>4, <1>5 DEF Embeds, Range, k
  <2>2. ASSUME NEW j \in 1 .. Len(q), q[j] \in S PROVE q[j] \in Range(k)
    <3>1. PICK i \in 1 .. Len(k) : e[i] = j
      BY <1>4, <2>2 DEF Embeds, k
    <3> QED BY <3>1, <1>4, <1>5 DEF Embeds, Range, k
  <2> QED BY <2>1, <2>2, <1>5 DEF Range
<1>7. IsInjective(q) => IsInjective(k)
  <2> SUFFICES ASSUME IsInjective(q), NEW i \in 1 .. Len(k), NEW j \in 1 .. Len(k), k[i] = k[j]
               PROVE  i = j
    BY <1>5 DEF IsInjective
  <2>1. e[i] \in 1 .. Len(q) /\ e[j] \in 1 .. Len(q) /\ q[e[i]] = q[e[j]]
    BY <1>4 DEF Embeds, k
  <2>2. e[i] = e[j]
    BY <2>1, <1>5 DEF IsInjective
  <2>3. \A a, b \in 1 .. Len(k) : a < b => e[a] < e[b]
    BY <1>4 DEF Embeds, k
  <2>4. ~(i < j) /\ ~(j < i)
    BY <2>2, <2>3, <2>1
  <2> QED BY <2>4, <1>5
<1> QED BY <1>3, <1>6, <1>7 DEF k

\* TAILQ_REMOVE of the elements in S leaves the others.
LEMMA UnlinkProperties ==
  ASSUME NEW T, NEW q \in Seq(T), NEW S
  PROVE  /\ Unlink(q, S) \in Seq(T)
         /\ Range(Unlink(q, S)) = Range(q) \ S
         /\ IsInjective(q) => IsInjective(Unlink(q, S))
         /\ \E e : Embeds(e, Unlink(q, S), q, Range(q) \ S, Len(q))
<1>1. Range(q) \cap (Range(q) \ S) = Range(q) \ S
  OBVIOUS
<1> QED BY <1>1, KeepProperties DEF Unlink

\* A loop that acts on every element meets the queue as it is.
LEMMA KeepAll ==
  ASSUME NEW T, NEW q \in Seq(T), NEW S, Range(q) \subseteq S
  PROVE  Keep(q, S) = q
<1> DEFINE k == Keep(q, S)
<1>1. k \in Seq(T)
  BY KeepProperties
<1>2. PICK e : Embeds(e, k, q, S, Len(q))
  BY KeepProperties
<1> HIDE DEF k
<1>3. /\ Len(q) \in Nat /\ Len(k) \in Nat
      /\ q = [i \in 1 .. Len(q) |-> q[i]] /\ k = [i \in 1 .. Len(k) |-> k[i]]
  BY <1>1
<1>4. /\ \A i \in 1 .. Len(k) : e[i] \in 1 .. Len(q) /\ k[i] = q[e[i]] /\ i <= e[i]
      /\ \A i, j \in 1 .. Len(k) : i < j => e[i] < e[j]
      /\ \A j \in 1 .. Len(q) : \E i \in 1 .. Len(k) : e[i] = j
  BY <1>2, <1>3 DEF Embeds, Range
<1> DEFINE Bad == {i \in 1 .. Len(k) : e[i] # i}
<1>5. Bad = {}
  <2> SUFFICES ASSUME Bad # {} PROVE FALSE
    OBVIOUS
  <2>1. PICK n \in Bad : \A m \in Bad : n <= m
    <3>1. Bad \in SUBSET Nat
      BY <1>3
    <3> HIDE DEF Bad
    <3> QED BY <3>1, LeastNumber
  <2>2. n \in 1 .. Len(k) /\ n < e[n] /\ n \in 1 .. Len(q)
    BY <1>3, <1>4, <2>1
  <2>3. PICK a \in 1 .. Len(k) : e[a] = n
    BY <1>4, <2>2
  <2>4. a < n
    <3>1. ~(n < a) /\ n # a
      BY <1>4, <2>2, <2>3
    <3> QED BY <3>1, <2>2, <2>3
  <2>5. a \notin Bad
    BY <2>1, <2>2, <2>4
  <2> QED BY <2>3, <2>4, <2>5
<1>6. \A i \in 1 .. Len(k) : e[i] = i /\ k[i] = q[i] /\ i \in 1 .. Len(q)
  <2>1. \A i \in 1 .. Len(k) : e[i] = i
    BY <1>5
  <2> HIDE DEF Bad
  <2> QED BY <2>1, <1>4
<1>7. \A j \in 1 .. Len(q) : j \in 1 .. Len(k)
  BY <1>4, <1>6
<1>8. Len(k) = Len(q)
  <2>1. Len(k) > 0 => Len(k) \in 1 .. Len(q)
    BY <1>3, <1>6
  <2>2. Len(q) > 0 => Len(q) \in 1 .. Len(k)
    BY <1>3, <1>7
  <2>3. Len(q) \in Nat /\ Len(k) \in Nat
    BY <1>3
  <2> QED BY <2>1, <2>2, <2>3
<1> QED BY <1>3, <1>6, <1>8 DEF k

\* Removing elements that are not there changes nothing.
LEMMA UnlinkNothing ==
  ASSUME NEW T, NEW q \in Seq(T), NEW S, Range(q) \cap S = {}
  PROVE  Unlink(q, S) = q
<1>1. Range(q) \ S = Range(q)
  OBVIOUS
<1> QED BY <1>1, KeepAll DEF Unlink

\* TAILQ_REMOVE keeps a queue sorted by keys that the others keep.
LEMMA UnlinkSorted ==
  ASSUME NEW T, NEW q \in Seq(T), NEW S, NEW key, NEW key2, Sorted(q, key),
         \A x \in Range(q) \ S : key2[x] = key[x]
  PROVE  Sorted(Unlink(q, S), key2)
<1> DEFINE k == Unlink(q, S)
<1>1. PICK e : Embeds(e, k, q, Range(q) \ S, Len(q))
  BY UnlinkProperties
<1>2. DOMAIN q = 1 .. Len(q) /\ DOMAIN k = 1 .. Len(k) /\ Len(k) \in Nat
  BY UnlinkProperties
<1> SUFFICES ASSUME NEW i \in 1 .. Len(k), NEW j \in 1 .. Len(k), i < j
             PROVE  key2[k[i]] <= key2[k[j]]
  BY <1>2 DEF Sorted
<1> HIDE DEF k
<1>3. /\ e[i] \in 1 .. Len(q) /\ e[j] \in 1 .. Len(q) /\ e[i] < e[j]
      /\ k[i] = q[e[i]] /\ k[j] = q[e[j]]
      /\ k[i] \in Range(q) \ S /\ k[j] \in Range(q) \ S
  BY <1>1 DEF Embeds
<1>4. key[q[e[i]]] <= key[q[e[j]]]
  BY <1>2, <1>3 DEF Sorted
<1>5. key2[k[i]] = key[k[i]] /\ key2[k[j]] = key[k[j]]
  BY <1>3
<1> QED BY <1>3, <1>4, <1>5

\* The insertion loop finds the one place that keeps a sorted queue sorted.
LEMMA SlotExists ==
  ASSUME NEW T, NEW q \in Seq(T), NEW key \in [T -> Nat], NEW n \in Nat, Sorted(q, key)
  PROVE  LET p == SlotFor(q, key, n)
         IN  /\ p \in 1 .. Len(q) + 1
             /\ \A i \in 1 .. p - 1 : key[q[i]] <= n
             /\ p <= Len(q) => n < key[q[p]]
<1> DEFINE Is(p) == (\A i \in 1 .. p - 1 : key[q[i]] <= n) /\ (p <= Len(q) => n < key[q[p]])
           Later == {i \in 1 .. Len(q) : n < key[q[i]]}
<1>0. Len(q) \in Nat /\ \A i \in 1 .. Len(q) : key[q[i]] \in Nat
  OBVIOUS
<1>1. \E p \in 1 .. Len(q) + 1 : Is(p)
  <2>1. CASE Later = {}
    <3>1. ASSUME NEW i \in 1 .. Len(q) PROVE key[q[i]] <= n
      <4>1. ~(n < key[q[i]])
        BY <2>1, Zenon
      <4> QED BY <4>1, <1>0
    <3>2. Is(Len(q) + 1) /\ Len(q) + 1 \in 1 .. Len(q) + 1
      BY <3>1, <1>0
    <3> QED BY <3>2
  <2>2. CASE Later # {}
    <3>1. Later \in SUBSET Nat
      OBVIOUS
    <3>2. PICK p \in Later : \A m \in Later : p <= m
      <4> HIDE DEF Later
      <4> QED BY <3>1, <2>2, LeastNumber
    <3>3. \A i \in 1 .. p - 1 : i \in 1 .. Len(q) /\ i \notin Later
      BY <3>2, <1>0
    <3>4. Is(p) /\ p \in 1 .. Len(q) + 1
      BY <3>2, <3>3, <1>0
    <3> QED BY <3>4
  <2> QED BY <2>1, <2>2
<1>2. SlotFor(q, key, n) = CHOOSE p \in 1 .. Len(q) + 1 : Is(p)
  BY DEF SlotFor
<1> HIDE DEF Is
<1>3. SlotFor(q, key, n) \in 1 .. Len(q) + 1 /\ Is(SlotFor(q, key, n))
  BY <1>1, <1>2
<1> QED BY <1>3 DEF Is

\* Sorted insertion adds the element, keeps the queue sorted, and leaves the
\* elements whose keys are no greater where they were.
LEMMA InsertSortedProperties ==
  ASSUME NEW T, NEW q \in Seq(T), NEW key \in [T -> Nat], NEW x \in T,
         Sorted(q, key), x \notin Range(q), IsInjective(q)
  PROVE  LET r == InsertSorted(q, key, x)
         IN  /\ r \in Seq(T)
             /\ Range(r) = Range(q) \cup {x}
             /\ IsInjective(r)
             /\ Sorted(r, key)
             /\ Len(r) = Len(q) + 1
             /\ \A i \in 1 .. Len(r) : key[r[i]] < key[x] => i <= Len(q) /\ r[i] = q[i]
<1> DEFINE p == SlotFor(q, key, key[x])
           r == InsertSorted(q, key, x)
<1>0. /\ Len(q) \in Nat /\ DOMAIN q = 1 .. Len(q) /\ key[x] \in Nat
      /\ \A i \in 1 .. Len(q) : q[i] \in T /\ q[i] \in Range(q) /\ key[q[i]] \in Nat
  BY DEF Range
<1>1. /\ p \in 1 .. Len(q) + 1
      /\ \A i \in 1 .. p - 1 : key[q[i]] <= key[x]
      /\ p <= Len(q) => key[x] < key[q[p]]
  BY SlotExists
<1> HIDE DEF p
<1>2. r = [i \in 1 .. Len(q) + 1 |-> IF i < p THEN q[i] ELSE IF i = p THEN x ELSE q[i-1]]
  BY DEF InsertSorted, InsertBefore, p
<1>3. \A i \in 1 .. Len(q) + 1 :
        (IF i < p THEN q[i] ELSE IF i = p THEN x ELSE q[i-1]) \in T
  BY <1>0, <1>1
<1>4. r \in [1 .. Len(q) + 1 -> T]
  BY <1>2, <1>3
<1>5. r \in Seq(T) /\ Len(r) = Len(q) + 1 /\ DOMAIN r = 1 .. Len(q) + 1
  BY <1>0, <1>4, IsASeq
<1>6. /\ \A i \in 1 .. Len(q) + 1 : i < p => r[i] = q[i] /\ i \in 1 .. Len(q)
      /\ r[p] = x
      /\ \A i \in 1 .. Len(q) + 1 : i > p => r[i] = q[i-1] /\ i - 1 \in 1 .. Len(q)
  BY <1>0, <1>1, <1>2
<1>7. \A i \in 1 .. Len(q) : p <= i => key[x] < key[q[i]]
  <2> TAKE i \in 1 .. Len(q)
  <2>1. CASE p = i
    BY <2>1, <1>1, <1>0
  <2>2. CASE p < i
    <3>1. p \in 1 .. Len(q) /\ key[q[p]] <= key[q[i]]
      BY <2>2, <1>0, <1>1, SMTT(30) DEF Sorted
    <3>2. key[x] < key[q[p]] /\ key[q[p]] \in Nat
      BY <3>1, <1>1, <1>0
    <3> QED BY <3>1, <3>2, <1>0
  <2> QED BY <2>1, <2>2, <1>0, <1>1
<1> HIDE DEF r
<1>8. Range(r) = Range(q) \cup {x}
  <2>1. ASSUME NEW i \in 1 .. Len(q) + 1 PROVE r[i] \in Range(q) \cup {x}
    BY <1>0, <1>1, <1>6
  <2>2. ASSUME NEW j \in 1 .. Len(q) PROVE q[j] \in Range(r)
    <3>1. CASE j < p
      <4>1. j \in 1 .. Len(q) + 1 /\ r[j] = q[j]
        BY <3>1, <1>0, <1>6
      <4> QED BY <4>1, <1>5 DEF Range
    <3>2. CASE ~(j < p)
      <4>1. j + 1 \in 1 .. Len(q) + 1 /\ j + 1 > p /\ (j + 1) - 1 = j
        BY <3>2, <1>0, <1>1
      <4>2. r[j+1] = q[j]
        BY <4>1, <1>6
      <4> QED BY <4>1, <4>2, <1>5 DEF Range
    <3> QED BY <3>1, <3>2
  <2>3. x \in Range(r)
    BY <1>5, <1>6, <1>1 DEF Range
  <2> QED BY <2>1, <2>2, <2>3, <1>0, <1>5 DEF Range
<1>9. IsInjective(r)
  <2> SUFFICES ASSUME NEW i \in 1 .. Len(q) + 1, NEW j \in 1 .. Len(q) + 1, r[i] = r[j]
               PROVE  i = j
    BY <1>5 DEF IsInjective
  <2>1. \A a, b \in 1 .. Len(q) : q[a] = q[b] => a = b
    BY <1>0 DEF IsInjective
  <2>2. \A a \in 1 .. Len(q) : q[a] # x
    BY <1>0
  <2>3. CASE i = p
    BY <2>3, <2>2, <1>6, <1>0, <1>1
  <2>4. CASE j = p
    BY <2>4, <2>2, <1>6, <1>0, <1>1
  <2>5. CASE i < p /\ j < p
    BY <2>5, <2>1, <1>6
  <2>6. CASE i < p /\ j > p
    BY <2>6, <2>1, <1>6, <1>1
  <2>7. CASE i > p /\ j < p
    BY <2>7, <2>1, <1>6, <1>1
  <2>8. CASE i > p /\ j > p
    BY <2>8, <2>1, <1>6, SMTT(30)
  <2> QED BY <2>3, <2>4, <2>5, <2>6, <2>7, <2>8, <1>1
<1>10. Sorted(r, key)
  <2> SUFFICES ASSUME NEW i \in 1 .. Len(q) + 1, NEW j \in 1 .. Len(q) + 1, i < j
               PROVE  key[r[i]] <= key[r[j]]
    BY <1>5 DEF Sorted
  <2>1. \A a, b \in 1 .. Len(q) : a <= b => key[q[a]] <= key[q[b]]
    <3> SUFFICES ASSUME NEW a \in 1 .. Len(q), NEW b \in 1 .. Len(q), a <= b
                 PROVE key[q[a]] <= key[q[b]]
      OBVIOUS
    <3>1. CASE a = b
      BY <3>1, <1>0
    <3>2. CASE a < b
      BY <3>2, <1>0 DEF Sorted
    <3> QED BY <3>1, <3>2
  <2>2. CASE j < p
    <3>1. r[i] = q[i] /\ r[j] = q[j] /\ i \in 1 .. Len(q) /\ j \in 1 .. Len(q)
      BY <2>2, <1>6, <1>1
    <3> QED BY <3>1, <2>1
  <2>3. CASE j = p
    <3>1. r[i] = q[i] /\ r[j] = x /\ i \in 1 .. p - 1
      BY <2>3, <1>6, <1>1
    <3> QED BY <3>1, <1>1
  <2>4. CASE i < p /\ j > p
    <3>1. r[i] = q[i] /\ r[j] = q[j-1] /\ i \in 1 .. Len(q) /\ j - 1 \in 1 .. Len(q) /\ i <= j - 1
      BY <2>4, <1>6, <1>1
    <3> QED BY <3>1, <2>1
  <2>5. CASE i = p /\ j > p
    <3>1. r[i] = x /\ r[j] = q[j-1] /\ j - 1 \in 1 .. Len(q) /\ p <= j - 1
      BY <2>5, <1>6, <1>1
    <3>2. key[x] < key[r[j]] /\ key[r[j]] \in Nat
      BY <3>1, <1>7, <1>0
    <3> QED BY <3>1, <3>2, <1>0
  <2>6. CASE i > p
    <3>1. /\ r[i] = q[i-1] /\ r[j] = q[j-1]
          /\ i - 1 \in 1 .. Len(q) /\ j - 1 \in 1 .. Len(q) /\ i - 1 <= j - 1
      BY <2>6, <1>6, <1>1
    <3> QED BY <3>1, <2>1
  <2> QED BY <2>2, <2>3, <2>4, <2>5, <2>6, <1>1
<1>11. ASSUME NEW i \in 1 .. Len(q) + 1, key[r[i]] < key[x] PROVE i <= Len(q) /\ r[i] = q[i]
  <2>1. i # p
    BY <1>11, <1>6, <1>0
  <2>2. ~(i > p)
    <3> SUFFICES ASSUME i > p PROVE FALSE
      OBVIOUS
    <3>1. r[i] = q[i-1] /\ i - 1 \in 1 .. Len(q) /\ p <= i - 1
      BY <1>6, <1>1
    <3>2. key[x] < key[r[i]] /\ key[r[i]] \in Nat
      BY <3>1, <1>7, <1>0
    <3> QED BY <3>2, <1>11, <1>0
  <2>3. i < p
    BY <2>1, <2>2, <1>1
  <2> QED BY <2>3, <1>6, <1>0, <1>1
<1> QED BY <1>5, <1>8, <1>9, <1>10, <1>11 DEF r

\* TAILQ_INSERT_TAIL of elements that are not in the queue, one or several.
LEMMA ConcatDistinct ==
  ASSUME NEW T, NEW q \in Seq(T), NEW w \in Seq(T),
         IsInjective(q), IsInjective(w), Range(q) \cap Range(w) = {}
  PROVE  /\ q \o w \in Seq(T)
         /\ Range(q \o w) = Range(q) \cup Range(w)
         /\ IsInjective(q \o w)
<1>1. /\ q \o w \in Seq(T) /\ DOMAIN (q \o w) = 1 .. Len(q) + Len(w)
      /\ Len(q) \in Nat /\ Len(w) \in Nat
      /\ DOMAIN q = 1 .. Len(q) /\ DOMAIN w = 1 .. Len(w)
      /\ \A i \in 1 .. Len(q) + Len(w) : (q \o w)[i] = IF i <= Len(q) THEN q[i] ELSE w[i - Len(q)]
  OBVIOUS
<1>2. IsInjective(q \o w)
  <2> SUFFICES ASSUME NEW i \in 1 .. Len(q) + Len(w), NEW j \in 1 .. Len(q) + Len(w),
                      (q \o w)[i] = (q \o w)[j]
               PROVE  i = j
    BY <1>1 DEF IsInjective
  <2>1. CASE i <= Len(q) /\ j <= Len(q)
    BY <2>1, <1>1 DEF IsInjective
  <2>2. CASE i > Len(q) /\ j > Len(q)
    BY <2>2, <1>1 DEF IsInjective
  <2>5. \A k \in 1 .. Len(q) + Len(w) : k <= Len(q) => (q \o w)[k] \in Range(q)
    <3> TAKE k \in 1 .. Len(q) + Len(w)
    <3>1. k <= Len(q) => k \in 1 .. Len(q) /\ (q \o w)[k] = q[k]
      BY <1>1
    <3> QED BY <3>1, <1>1 DEF Range
  <2>6. \A k \in 1 .. Len(q) + Len(w) : k > Len(q) => (q \o w)[k] \in Range(w)
    <3> TAKE k \in 1 .. Len(q) + Len(w)
    <3>1. k > Len(q) => k - Len(q) \in 1 .. Len(w) /\ (q \o w)[k] = w[k - Len(q)]
      BY <1>1
    <3> QED BY <3>1, <1>1 DEF Range
  <2>3. CASE i <= Len(q) /\ j > Len(q)
    BY <2>3, <2>5, <2>6
  <2>4. CASE i > Len(q) /\ j <= Len(q)
    BY <2>4, <2>5, <2>6
  <2> QED BY <2>1, <2>2, <2>3, <2>4, <1>1
<1> QED BY <1>1, <1>2, RangeConcatenation

\* TAILQ_INSERT_TAIL of one element that is not in the queue.
LEMMA AppendDistinct ==
  ASSUME NEW T, NEW q \in Seq(T), NEW x \in T, IsInjective(q), x \notin Range(q)
  PROVE  /\ Append(q, x) \in Seq(T)
         /\ Range(Append(q, x)) = Range(q) \cup {x}
         /\ IsInjective(Append(q, x))
<1>1. <<x>> \in Seq(T) /\ Range(<<x>>) = {x} /\ IsInjective(<<x>>)
  BY DEF Range, IsInjective
<1>2. Append(q, x) = q \o <<x>>
  BY AppendIsConcat
<1>3. Range(q) \cap Range(<<x>>) = {}
  BY <1>1
<1>4. /\ q \o <<x>> \in Seq(T)
      /\ Range(q \o <<x>>) = Range(q) \cup Range(<<x>>)
      /\ IsInjective(q \o <<x>>)
  BY <1>1, <1>3, ConcatDistinct
<1> QED BY <1>1, <1>2, <1>4

\* TAILQ_REMOVE of the first element.
LEMMA TailDistinct ==
  ASSUME NEW T, NEW q \in Seq(T), q # << >>, IsInjective(q)
  PROVE  /\ Head(q) \in T /\ Head(q) \in Range(q)
         /\ Tail(q) \in Seq(T)
         /\ Range(Tail(q)) = Range(q) \ {Head(q)}
         /\ IsInjective(Tail(q))
<1>1. /\ Len(q) \in Nat \ {0} /\ DOMAIN q = 1 .. Len(q) /\ Head(q) = q[1]
      /\ Tail(q) \in Seq(T) /\ DOMAIN Tail(q) = 1 .. Len(q) - 1
      /\ \A i \in 1 .. Len(q) - 1 : Tail(q)[i] = q[i+1]
  BY HeadTailProperties
<1>2. Range(Tail(q)) = Range(q) \ {Head(q)}
  <2>1. ASSUME NEW i \in 1 .. Len(q) - 1 PROVE Tail(q)[i] \in Range(q) \ {Head(q)}
    BY <1>1 DEF Range, IsInjective
  <2>2. ASSUME NEW j \in 1 .. Len(q), q[j] # Head(q) PROVE q[j] \in Range(Tail(q))
    <3>1. j - 1 \in 1 .. Len(q) - 1 /\ Tail(q)[j-1] = q[j]
      BY <2>2, <1>1
    <3> QED BY <3>1, <1>1 DEF Range
  <2> QED BY <2>1, <2>2, <1>1 DEF Range
<1>3. IsInjective(Tail(q))
  BY <1>1 DEF IsInjective
<1>4. 1 \in 1 .. Len(q) /\ Head(q) \in T
  BY <1>1
<1>5. Head(q) \in Range(q)
  BY <1>1, <1>4 DEF Range
<1> QED BY <1>1, <1>2, <1>3, <1>4, <1>5
==============================================================================
