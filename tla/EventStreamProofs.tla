--------------------------- MODULE EventStreamProofs ---------------------------
(***************************************************************************)
(* Proofs about EventStream: its types, the budgets of the rings and that  *)
(* a stream has no silent hole, for all values of the constants.           *)
(***************************************************************************)
EXTENDS EventStream, SequenceTheorems, WellFoundedInduction, TLAPS

-----------------------------------------------------------------------------
(* Numbers and recursive functions.                                        *)

\* A set of numbers has a least one.
LEMMA LeastNumber ==
  ASSUME NEW T, T \subseteq Nat, T # {}
  PROVE  \E m \in T : \A k \in T : m <= k
<1>1. IsWellFoundedOn(OpToRel(<, Nat), Nat)
  BY NatLessThanWellFounded
<1>2. PICK m \in T : \A k \in T : ~(<<k, m>> \in OpToRel(<, Nat))
  BY <1>1, WFMin
<1>3. \A k \in T : ~(k < m)
  BY <1>2 DEF OpToRel
<1>4. \A k \in T : m <= k
  BY <1>3
<1> QED
  BY <1>4

LEMMA MinInSet ==
  ASSUME NEW T, T \subseteq Nat, T # {}
  PROVE  Min(T) \in T
BY LeastNumber DEF Min

\* A set of numbers that goes on from each to the next one goes on to the end.
LEMMA Induct ==
  ASSUME NEW n \in Nat, NEW T, 0 \in T, \A i \in 1 .. n : i - 1 \in T => i \in T
  PROVE  \A i \in 0 .. n : i \in T
<1> DEFINE Left == {i \in 0 .. n : i \notin T}
<1> SUFFICES ASSUME Left # {} PROVE FALSE
  OBVIOUS
<1>1. Left \subseteq Nat
  OBVIOUS
<1>2. PICK m \in Left : \A k \in Left : m <= k
  <2> HIDE DEF Left
  <2> QED
    BY <1>1, LeastNumber
<1>3. m \in 1 .. n /\ m - 1 \notin Left
  BY <1>2
<1> QED
  BY <1>3

\* f starts with base and goes from i - 1 to i by F[i].
RunOf(f, F, base, n) == f[0] = base /\ \A i \in 1 .. n : f[i] = F[i][f[i - 1]]

\* There is such a function.
LEMMA Recursion ==
  ASSUME NEW n \in Nat, NEW V, NEW base \in V, NEW F \in [1 .. n -> [V -> V]]
  PROVE  \E f \in [0 .. n -> V] : RunOf(f, F, base, n)
<1> DEFINE T == {m \in 0 .. n : \E f \in [0 .. m -> V] : RunOf(f, F, base, m)}
<1>1. 0 \in T
  <2> DEFINE g == [i \in 0 .. 0 |-> base]
  <2>1. RunOf(g, F, base, 0)
    BY DEF RunOf
  <2>2. g \in [0 .. 0 -> V]
    OBVIOUS
  <2> QED
    BY <2>1, <2>2
<1>2. ASSUME NEW m \in 1 .. n, m - 1 \in T PROVE m \in T
  <2>1. PICK f \in [0 .. m - 1 -> V] : RunOf(f, F, base, m - 1)
    BY <1>2
  <2> DEFINE g == [i \in 0 .. m |-> IF i = m THEN F[m][f[m - 1]] ELSE f[i]]
  <2>2. g \in [0 .. m -> V]
    OBVIOUS
  <2>3. RunOf(g, F, base, m)
    BY <2>1 DEF RunOf
  <2> HIDE DEF g
  <2> QED
    BY <2>2, <2>3
<1> HIDE DEF T
<1>3. \A i \in 0 .. n : i \in T
  BY <1>1, <1>2, Induct
<1>4. n \in T
  BY <1>3
<1> QED
  BY <1>4 DEF T

-----------------------------------------------------------------------------
(* Sums.                                                                   *)

\* f has the sums of the numbers in a up to each position.
SumsTo(f, a, n) ==
  /\ f[0] = 0
  /\ \A i \in 1 .. n : f[i] = f[i - 1] + a[i]

Terms(weight, seq) == [i \in 1 .. Len(seq) |-> weight[seq[i]]]

LEMMA SumsExist ==
  ASSUME NEW n \in Nat, NEW a \in [1 .. n -> Nat]
  PROVE  \E f \in [0 .. n -> Nat] : SumsTo(f, a, n)
<1> DEFINE F == [i \in 1 .. n |-> [v \in Nat |-> v + a[i]]]
<1>1. F \in [1 .. n -> [Nat -> Nat]]
  OBVIOUS
<1>2. PICK f \in [0 .. n -> Nat] : RunOf(f, F, 0, n)
  <2> HIDE DEF F
  <2> QED
    BY <1>1, Recursion
<1>3. ASSUME NEW i \in 1 .. n PROVE f[i] = f[i - 1] + a[i]
  <2>1. f[i - 1] \in Nat
    OBVIOUS
  <2> QED
    BY <1>2, <2>1 DEF RunOf
<1> QED
  BY <1>2, <1>3 DEF SumsTo, RunOf

LEMMA SameSums ==
  ASSUME NEW n \in Nat, NEW a, NEW f, NEW g, SumsTo(f, a, n), SumsTo(g, a, n)
  PROVE  \A i \in 0 .. n : f[i] = g[i]
<1> DEFINE T == {i \in 0 .. n : f[i] = g[i]}
<1>1. 0 \in T
  BY DEF SumsTo
<1>2. ASSUME NEW i \in 1 .. n, i - 1 \in T PROVE i \in T
  BY <1>2 DEF SumsTo
<1> HIDE DEF T
<1>3. \A i \in 0 .. n : i \in T
  BY <1>1, <1>2, Induct
<1> QED
  BY <1>3 DEF T

LEMMA TermsOf ==
  ASSUME NEW S, NEW seq \in Seq(S), NEW weight \in [S -> Nat]
  PROVE  Len(seq) \in Nat /\ Terms(weight, seq) \in [1 .. Len(seq) -> Nat]
BY DEF Terms

LEMMA SumOfSums ==
  ASSUME NEW S, NEW seq \in Seq(S), NEW weight \in [S -> Nat],
         NEW f, SumsTo(f, Terms(weight, seq), Len(seq))
  PROVE  SumOf(weight, seq) = f[Len(seq)]
<1> DEFINE n == Len(seq)
           sum == CHOOSE g : g = [i \in 0 .. n |-> IF i = 0 THEN 0 ELSE g[i - 1] + weight[seq[i]]]
<1>1. n \in Nat /\ n \in 0 .. n /\ Terms(weight, seq) \in [1 .. n -> Nat]
  BY TermsOf
<1>2. PICK g \in [0 .. n -> Nat] : SumsTo(g, Terms(weight, seq), n)
  <2> HIDE DEF n
  <2> QED
    BY <1>1, SumsExist
<1>3. g = [i \in 0 .. n |-> IF i = 0 THEN 0 ELSE g[i - 1] + weight[seq[i]]]
  BY <1>2 DEF SumsTo, Terms
<1>4. sum = [i \in 0 .. n |-> IF i = 0 THEN 0 ELSE sum[i - 1] + weight[seq[i]]]
  BY <1>3
<1>5. SumOf(weight, seq) = sum[n]
  BY DEF SumOf
<1> HIDE DEF sum
<1>6. \A i \in 0 .. n : sum[i] = IF i = 0 THEN 0 ELSE sum[i - 1] + weight[seq[i]]
  BY <1>4
<1>7. SumsTo(sum, Terms(weight, seq), n)
  BY <1>1, <1>6 DEF SumsTo, Terms
<1>8. sum[n] = f[n]
  <2> HIDE DEF n
  <2>1. SumsTo(f, Terms(weight, seq), n)
    BY DEF n
  <2> QED
    BY <1>1, <1>7, <2>1, SameSums
<1> QED
  BY <1>5, <1>8

LEMMA SumsOf ==
  ASSUME NEW S, NEW seq \in Seq(S), NEW weight \in [S -> Nat]
  PROVE  \E f \in [0 .. Len(seq) -> Nat] :
           SumsTo(f, Terms(weight, seq), Len(seq)) /\ SumOf(weight, seq) = f[Len(seq)]
<1>1. PICK f \in [0 .. Len(seq) -> Nat] : SumsTo(f, Terms(weight, seq), Len(seq))
  BY TermsOf, SumsExist
<1> QED
  BY <1>1, SumOfSums

LEMMA SumInNat ==
  ASSUME NEW S, NEW seq \in Seq(S), NEW weight \in [S -> Nat]
  PROVE  SumOf(weight, seq) \in Nat
<1>1. Len(seq) \in 0 .. Len(seq)
  OBVIOUS
<1> QED
  BY <1>1, SumsOf

LEMMA SumAppend ==
  ASSUME NEW S, NEW seq \in Seq(S), NEW weight \in [S -> Nat], NEW x \in S
  PROVE  SumOf(weight, Append(seq, x)) = SumOf(weight, seq) + weight[x]
<1>1. PICK f \in [0 .. Len(seq) -> Nat] :
        SumsTo(f, Terms(weight, seq), Len(seq)) /\ SumOf(weight, seq) = f[Len(seq)]
  BY SumsOf
<1> DEFINE n == Len(seq)
           a == Terms(weight, seq)
           b == Terms(weight, Append(seq, x))
           g == [i \in 0 .. n + 1 |-> IF i <= n THEN f[i] ELSE f[n] + weight[x]]
<1>2. n \in Nat /\ weight[x] \in Nat /\ Append(seq, x) \in Seq(S) /\ Len(Append(seq, x)) = n + 1
  OBVIOUS
<1>3. b[n + 1] = weight[x] /\ \A i \in 1 .. n : b[i] = a[i]
  BY DEF Terms
<1>4. SumsTo(g, b, n + 1)
  <2> HIDE DEF n, a, b
  <2>1. SumsTo(f, a, n)
    BY <1>1 DEF n, a
  <2> QED
    BY <1>2, <1>3, <2>1 DEF SumsTo
<1>5. g[n + 1] = f[n] + weight[x]
  BY <1>2
<1>6. SumOf(weight, Append(seq, x)) = g[n + 1]
  <2> HIDE DEF g
  <2> QED
    BY <1>2, <1>4, SumOfSums
<1> QED
  BY <1>1, <1>5, <1>6

\* Without the number at p.
LEMMA SumsWithout ==
  ASSUME NEW n \in Nat, NEW a \in [1 .. n -> Nat], NEW f \in [0 .. n -> Nat], SumsTo(f, a, n),
         NEW p \in 1 .. n, NEW b, \A j \in 1 .. n - 1 : b[j] = IF j < p THEN a[j] ELSE a[j + 1]
  PROVE  SumsTo([i \in 0 .. n - 1 |-> IF i < p THEN f[i] ELSE f[i + 1] - a[p]], b, n - 1)
<1> DEFINE g == [i \in 0 .. n - 1 |-> IF i < p THEN f[i] ELSE f[i + 1] - a[p]]
<1>1. g[0] = 0
  BY DEF SumsTo
<1>2. ASSUME NEW i \in 1 .. n - 1 PROVE g[i] = g[i - 1] + b[i]
  <2>1. f[i] = f[i - 1] + a[i] /\ f[i + 1] = f[i] + a[i + 1]
    <3>1. i + 1 \in 1 .. n /\ (i + 1) - 1 = i
      OBVIOUS
    <3> QED
      BY <3>1 DEF SumsTo
  <2>2. a[i] \in Nat /\ a[i + 1] \in Nat /\ a[p] \in Nat /\ f[i - 1] \in Nat
    OBVIOUS
  <2>3. i \in 0 .. n - 1 /\ i - 1 \in 0 .. n - 1 /\ (i - 1) + 1 = i
    OBVIOUS
  <2>4. g[i] = IF i < p THEN f[i] ELSE f[i + 1] - a[p]
    BY <2>3
  <2>5. g[i - 1] = IF i - 1 < p THEN f[i - 1] ELSE f[(i - 1) + 1] - a[p]
    BY <2>3
  <2>6. b[i] = IF i < p THEN a[i] ELSE a[i + 1]
    OBVIOUS
  <2> HIDE DEF g
  <2>7. CASE i = p
    BY <2>1, <2>2, <2>3, <2>4, <2>5, <2>6, <2>7
  <2>8. CASE i # p
    BY <2>1, <2>2, <2>3, <2>4, <2>5, <2>6, <2>8
  <2> QED
    BY <2>7, <2>8
<1> QED
  BY <1>1, <1>2 DEF SumsTo

LEMMA SumWithout ==
  ASSUME NEW S, NEW seq \in Seq(S), NEW weight \in [S -> Nat], NEW p \in 1 .. Len(seq),
         NEW rest \in Seq(S), Len(rest) = Len(seq) - 1,
         \A j \in 1 .. Len(rest) : rest[j] = IF j < p THEN seq[j] ELSE seq[j + 1]
  PROVE  SumOf(weight, seq) = SumOf(weight, rest) + weight[seq[p]]
<1>1. PICK f \in [0 .. Len(seq) -> Nat] :
        SumsTo(f, Terms(weight, seq), Len(seq)) /\ SumOf(weight, seq) = f[Len(seq)]
  BY SumsOf
<1> DEFINE n == Len(seq)
           a == Terms(weight, seq)
           b == Terms(weight, rest)
           g == [i \in 0 .. n - 1 |-> IF i < p THEN f[i] ELSE f[i + 1] - a[p]]
<1>2. n \in Nat /\ a \in [1 .. n -> Nat] /\ a[p] = weight[seq[p]] /\ p \in 1 .. n
  BY TermsOf DEF Terms
<1>3. \A j \in 1 .. n - 1 : b[j] = IF j < p THEN a[j] ELSE a[j + 1]
  <2> SUFFICES ASSUME NEW j \in 1 .. n - 1 PROVE b[j] = IF j < p THEN a[j] ELSE a[j + 1]
    OBVIOUS
  <2>1. j \in 1 .. Len(rest) /\ j \in 1 .. n /\ j + 1 \in 1 .. n
    BY <1>2
  <2>2. b[j] = weight[rest[j]] /\ a[j] = weight[seq[j]] /\ a[j + 1] = weight[seq[j + 1]]
    BY <2>1 DEF Terms
  <2>3. rest[j] = IF j < p THEN seq[j] ELSE seq[j + 1]
    BY <2>1
  <2> QED
    BY <2>2, <2>3
<1>4. f \in [0 .. n -> Nat] /\ SumsTo(f, a, n)
  BY <1>1
<1>5. SumsTo(g, b, n - 1)
  <2> HIDE DEF n, a, b
  <2> QED
    BY <1>2, <1>3, <1>4, SumsWithout
<1>6. f[n] = g[n - 1] + a[p]
  <2> HIDE DEF n, a
  <2>1. n \in 1 .. n /\ n - 1 \in 0 .. n - 1
    BY <1>2
  <2>2. f[n] = f[n - 1] + a[n]
    BY <1>4, <2>1 DEF SumsTo
  <2>3. f[n - 1] \in Nat /\ f[n] \in Nat /\ a[n] \in Nat
    BY <1>2, <1>4, <2>1
  <2>4. g[n - 1] = IF n - 1 < p THEN f[n - 1] ELSE f[(n - 1) + 1] - a[p]
    BY <2>1
  <2>5. (n - 1) + 1 = n /\ (n - 1 < p => p = n) /\ a[p] \in Nat
    BY <1>2
  <2> HIDE DEF g
  <2> QED
    BY <2>2, <2>3, <2>4, <2>5
<1>7. SumOf(weight, rest) = g[n - 1]
  <2> HIDE DEF g
  <2> QED
    BY <1>5, SumOfSums
<1> QED
  BY <1>1, <1>2, <1>6, <1>7

\* With another number at p.
LEMMA SumsReplaced ==
  ASSUME NEW n \in Nat, NEW a \in [1 .. n -> Nat], NEW b \in [1 .. n -> Nat],
         NEW f \in [0 .. n -> Nat], SumsTo(f, a, n), NEW p \in 1 .. n,
         \A i \in 1 .. n : i # p => b[i] = a[i], NEW d \in Int, b[p] = a[p] + d
  PROVE  SumsTo([i \in 0 .. n |-> IF i < p THEN f[i] ELSE f[i] + d], b, n)
<1> DEFINE g == [i \in 0 .. n |-> IF i < p THEN f[i] ELSE f[i] + d]
<1>1. g[0] = 0
  BY DEF SumsTo
<1>2. ASSUME NEW i \in 1 .. n PROVE g[i] = g[i - 1] + b[i]
  <2>1. f[i] = f[i - 1] + a[i] /\ i - 1 \in 0 .. n
    BY DEF SumsTo
  <2>2. f[i] \in Nat /\ f[i - 1] \in Nat /\ a[i] \in Nat /\ b[i] \in Nat
    BY <2>1
  <2>3. g[i] = IF i < p THEN f[i] ELSE f[i] + d
    OBVIOUS
  <2>4. g[i - 1] = IF i - 1 < p THEN f[i - 1] ELSE f[i - 1] + d
    BY <2>1
  <2> HIDE DEF g
  <2>5. CASE i = p
    BY <2>1, <2>2, <2>3, <2>4, <2>5
  <2>6. CASE i < p
    BY <2>1, <2>2, <2>3, <2>4, <2>6
  <2>7. CASE i > p
    <3>1. g[i] = f[i] + d /\ g[i - 1] = f[i - 1] + d /\ b[i] = a[i]
      BY <2>3, <2>4, <2>7
    <3> QED
      BY <2>1, <2>2, <3>1
  <2> QED
    BY <2>5, <2>6, <2>7
<1> QED
  BY <1>1, <1>2 DEF SumsTo

LEMMA SumReweighed ==
  ASSUME NEW S, NEW seq \in Seq(S), NEW weight \in [S -> Nat], NEW other \in [S -> Nat],
         NEW p \in 1 .. Len(seq),
         \A i \in 1 .. Len(seq) : i # p => other[seq[i]] = weight[seq[i]]
  PROVE  SumOf(other, seq) = SumOf(weight, seq) + (other[seq[p]] - weight[seq[p]])
<1>1. PICK f \in [0 .. Len(seq) -> Nat] :
        SumsTo(f, Terms(weight, seq), Len(seq)) /\ SumOf(weight, seq) = f[Len(seq)]
  BY SumsOf
<1> DEFINE n == Len(seq)
           a == Terms(weight, seq)
           b == Terms(other, seq)
           d == b[p] - a[p]
           g == [i \in 0 .. n |-> IF i < p THEN f[i] ELSE f[i] + d]
<1>2. n \in Nat /\ a \in [1 .. n -> Nat] /\ b \in [1 .. n -> Nat] /\ p \in 1 .. n
  BY TermsOf
<1>3. a[p] = weight[seq[p]] /\ b[p] = other[seq[p]] /\ \A i \in 1 .. n : i # p => b[i] = a[i]
  BY DEF Terms
<1>4. f \in [0 .. n -> Nat] /\ SumsTo(f, a, n)
  BY <1>1
<1>5. d \in Int /\ b[p] = a[p] + d
  <2> HIDE DEF n, a, b
  <2> QED
    BY <1>2
<1>6. SumsTo(g, b, n)
  <2> HIDE DEF n, a, b, d
  <2> QED
    BY <1>2, <1>3, <1>4, <1>5, SumsReplaced
<1>7. g[n] = f[n] + d
  <2> HIDE DEF n, d
  <2> QED
    BY <1>2
<1>8. SumOf(other, seq) = g[n]
  <2> HIDE DEF g
  <2> QED
    BY <1>6, SumOfSums
<1> QED
  BY <1>1, <1>3, <1>7, <1>8

\* In two parts.
LEMMA SumSplit ==
  ASSUME NEW S, NEW seq \in Seq(S), NEW weight \in [S -> Nat], NEW k \in 0 .. Len(seq)
  PROVE  SumOf(weight, seq) = SumOf(weight, SubSeq(seq, 1, k))
                                + SumOf(weight, SubSeq(seq, k + 1, Len(seq)))
<1>1. PICK f \in [0 .. Len(seq) -> Nat] :
        SumsTo(f, Terms(weight, seq), Len(seq)) /\ SumOf(weight, seq) = f[Len(seq)]
  BY SumsOf
<1> DEFINE n == Len(seq)
           a == Terms(weight, seq)
           front == SubSeq(seq, 1, k)
           rest == SubSeq(seq, k + 1, n)
           b == Terms(weight, front)
           c == Terms(weight, rest)
           g == [i \in 0 .. n - k |-> f[i + k] - f[k]]
<1>2. n \in Nat /\ a \in [1 .. n -> Nat] /\ k \in 0 .. n
  BY TermsOf
<1>3. front \in Seq(S) /\ Len(front) = k /\ \A i \in 1 .. k : b[i] = a[i]
  BY DEF Terms
<1>4. rest \in Seq(S) /\ Len(rest) = n - k /\ \A i \in 1 .. n - k : c[i] = a[i + k]
  <2>1. /\ rest \in Seq(S)
        /\ Len(rest) = n - k
        /\ \A i \in 1 .. n - k : rest[i] = seq[i + k]
    OBVIOUS
  <2>2. \A i \in 1 .. n - k : i + k \in 1 .. n
    <3> HIDE DEF n
    <3> QED
      BY <1>2
  <2> HIDE DEF rest
  <2> QED
    BY <2>1, <2>2 DEF Terms
<1>5. f \in [0 .. n -> Nat] /\ SumsTo(f, a, n)
  BY <1>1
<1>6. SumsTo(f, b, k)
  <2> HIDE DEF n, a, b
  <2> QED
    BY <1>2, <1>3, <1>5 DEF SumsTo
<1>7. SumsTo(g, c, n - k)
  <2> HIDE DEF n, a, c
  <2>1. g[0] = 0
    BY <1>2, <1>5
  <2>2. ASSUME NEW i \in 1 .. n - k PROVE g[i] = g[i - 1] + c[i]
    <3>1. i + k \in 1 .. n /\ (i + k) - 1 = (i - 1) + k
      BY <1>2
    <3>2. f[i + k] = f[(i - 1) + k] + a[i + k]
      BY <1>5, <3>1 DEF SumsTo
    <3>3. f[(i - 1) + k] \in Nat /\ a[i + k] \in Nat /\ f[k] \in Nat
      BY <1>2, <1>5
    <3>4. g[i] = f[i + k] - f[k] /\ g[i - 1] = f[(i - 1) + k] - f[k]
      BY <1>2
    <3>5. c[i] = a[i + k]
      BY <1>4
    <3> HIDE DEF g
    <3> QED
      BY <3>2, <3>3, <3>4, <3>5
  <2> QED
    BY <2>1, <2>2 DEF SumsTo
<1>8. SumOf(weight, front) = f[k]
  <2> HIDE DEF front
  <2> QED
    BY <1>3, <1>6, SumOfSums
<1>9. SumOf(weight, rest) = g[n - k]
  <2> HIDE DEF rest, g
  <2> QED
    BY <1>4, <1>7, SumOfSums
<1>10. g[n - k] = f[n] - f[k] /\ f[n] \in Nat /\ f[k] \in Nat
  <2> HIDE DEF n
  <2> QED
    BY <1>2, <1>5
<1> QED
  BY <1>1, <1>8, <1>9, <1>10

LEMMA SumOfNothing ==
  ASSUME NEW S, NEW seq \in Seq(S), NEW weight \in [S -> Nat],
         \A i \in 1 .. Len(seq) : weight[seq[i]] = 0
  PROVE  SumOf(weight, seq) = 0
<1> DEFINE f == [i \in 0 .. Len(seq) |-> 0]
<1>1. SumsTo(f, Terms(weight, seq), Len(seq))
  BY DEF SumsTo, Terms
<1>2. f[Len(seq)] = 0
  OBVIOUS
<1> HIDE DEF f
<1> QED
  BY <1>1, <1>2, SumOfSums

LEMMA SumAgree ==
  ASSUME NEW S, NEW seq \in Seq(S), NEW weight \in [S -> Nat], NEW other \in [S -> Nat],
         \A i \in 1 .. Len(seq) : other[seq[i]] = weight[seq[i]]
  PROVE  SumOf(other, seq) = SumOf(weight, seq)
<1>1. Terms(other, seq) = Terms(weight, seq)
  BY DEF Terms
<1>2. PICK f \in [0 .. Len(seq) -> Nat] :
        SumsTo(f, Terms(weight, seq), Len(seq)) /\ SumOf(weight, seq) = f[Len(seq)]
  BY SumsOf
<1> QED
  BY <1>1, <1>2, SumOfSums

-----------------------------------------------------------------------------
(* The keys of a dictionary, each once.                                    *)

Distinct(keys) == \A i, j \in 1 .. Len(keys) : keys[i] = keys[j] => i = j

LEMMA RemoveFacts ==
  ASSUME NEW S, NEW keys \in Seq(S), NEW p \in 1 .. Len(keys)
  PROVE  /\ RemoveAt(keys, p) \in Seq(S)
         /\ Len(RemoveAt(keys, p)) = Len(keys) - 1
         /\ \A j \in 1 .. Len(keys) - 1 :
              RemoveAt(keys, p)[j] = IF j < p THEN keys[j] ELSE keys[j + 1]
<1> DEFINE front == SubSeq(keys, 1, p - 1)
           rest == SubSeq(keys, p + 1, Len(keys))
<1>1. front \in Seq(S) /\ Len(front) = p - 1 /\ \A j \in 1 .. p - 1 : front[j] = keys[j]
  OBVIOUS
<1>2. /\ rest \in Seq(S)
      /\ Len(rest) = Len(keys) - p
      /\ \A j \in 1 .. Len(keys) - p : rest[j] = keys[j + p]
  OBVIOUS
<1>3. RemoveAt(keys, p) = front \o rest
  BY DEF RemoveAt
<1> HIDE DEF front, rest
<1>4. front \o rest \in Seq(S) /\ Len(front \o rest) = Len(keys) - 1
  BY <1>1, <1>2
<1>5. ASSUME NEW j \in 1 .. Len(keys) - 1
      PROVE  (front \o rest)[j] = IF j < p THEN keys[j] ELSE keys[j + 1]
  <2>1. CASE j < p
    BY <1>1, <1>2, <2>1
  <2>2. CASE j >= p
    <3>1. (front \o rest)[j] = rest[j - (p - 1)]
      BY <1>1, <1>2, <2>2
    <3>2. j - (p - 1) \in 1 .. Len(keys) - p /\ (j - (p - 1)) + p = j + 1
      BY <2>2
    <3> QED
      BY <1>2, <2>2, <3>1, <3>2
  <2>3. j \in Int /\ p \in Int
    OBVIOUS
  <2>4. j < p \/ j >= p
    BY <2>3
  <2> QED
    BY <2>1, <2>2, <2>4
<1> QED
  BY <1>3, <1>4, <1>5

LEMMA WithoutPlace ==
  ASSUME NEW S, NEW keys \in Seq(S), NEW s \in ToSet(keys)
  PROVE  \E p \in 1 .. Len(keys) :
           /\ keys[p] = s
           /\ Without(keys, s) \in Seq(S)
           /\ Len(Without(keys, s)) = Len(keys) - 1
           /\ \A j \in 1 .. Len(keys) - 1 :
                Without(keys, s)[j] = IF j < p THEN keys[j] ELSE keys[j + 1]
<1> DEFINE p == CHOOSE i \in DOMAIN keys : keys[i] = s
<1>1. p \in 1 .. Len(keys) /\ keys[p] = s
  BY DEF ToSet
<1>2. Without(keys, s) = RemoveAt(keys, p)
  BY DEF Without
<1> HIDE DEF p
<1> QED
  BY <1>1, <1>2, RemoveFacts

LEMMA WithoutFacts ==
  ASSUME NEW S, NEW keys \in Seq(S), Distinct(keys), NEW s
  PROVE  /\ Without(keys, s) \in Seq(S)
         /\ Distinct(Without(keys, s))
         /\ ToSet(Without(keys, s)) = ToSet(keys) \ {s}
         /\ Len(Without(keys, s)) = IF s \in ToSet(keys) THEN Len(keys) - 1 ELSE Len(keys)
<1>1. CASE s \notin ToSet(keys)
  BY <1>1 DEF Without
<1>2. CASE s \in ToSet(keys)
  <2>1. PICK p \in 1 .. Len(keys) :
          /\ keys[p] = s
          /\ Without(keys, s) \in Seq(S)
          /\ Len(Without(keys, s)) = Len(keys) - 1
          /\ \A j \in 1 .. Len(keys) - 1 :
               Without(keys, s)[j] = IF j < p THEN keys[j] ELSE keys[j + 1]
    BY <1>2, WithoutPlace
  <2>2. PICK rest \in Seq(S) : rest = Without(keys, s)
    BY <2>1
  <2>3. Len(rest) = Len(keys) - 1
    BY <2>1, <2>2
  <2>4. \A j \in 1 .. Len(rest) : rest[j] = IF j < p THEN keys[j] ELSE keys[j + 1]
    BY <2>1, <2>2
  <2>5. Distinct(rest)
    BY <2>3, <2>4 DEF Distinct
  <2>6. ASSUME NEW j \in 1 .. Len(rest) PROVE rest[j] \in ToSet(keys) \ {s}
    <3>1. j \in 1 .. Len(keys) /\ j + 1 \in 1 .. Len(keys)
      BY <2>3
    <3>2. j \in Int /\ p \in Int /\ rest[j] = IF j < p THEN keys[j] ELSE keys[j + 1]
      BY <2>4
    <3>3. \A i \in 1 .. Len(keys) : i # p => keys[i] \in ToSet(keys) /\ keys[i] # s
      BY <2>1 DEF Distinct, ToSet
    <3>4. CASE j < p
      <4>1. rest[j] = keys[j] /\ j # p
        BY <3>2, <3>4
      <4> QED
        BY <3>1, <3>3, <4>1
    <3>5. CASE ~(j < p)
      <4>1. rest[j] = keys[j + 1] /\ j + 1 # p
        BY <3>2, <3>5
      <4> QED
        BY <3>1, <3>3, <4>1
    <3> QED
      BY <3>4, <3>5
  <2>8. ToSet(rest) \subseteq ToSet(keys) \ {s}
    BY <2>6 DEF ToSet
  <2>7. ASSUME NEW x \in ToSet(keys), x # s PROVE x \in ToSet(rest)
    <3>1. PICK i \in 1 .. Len(keys) : keys[i] = x
      BY DEF ToSet
    <3>2. i # p
      BY <2>1, <2>7, <3>1
    <3>3. CASE i < p
      <4>1. i \in 1 .. Len(rest) /\ rest[i] = x
        BY <2>3, <2>4, <3>1, <3>3
      <4> QED
        BY <4>1 DEF ToSet
    <3>4. CASE i > p
      <4>1. i - 1 \in 1 .. Len(rest) /\ ~(i - 1 < p) /\ (i - 1) + 1 = i
        BY <2>3, <3>1, <3>4
      <4>2. rest[i - 1] = x
        BY <2>4, <3>1, <4>1
      <4> QED
        BY <4>1, <4>2 DEF ToSet
    <3> QED
      BY <3>2, <3>3, <3>4
  <2> QED
    BY <1>2, <2>2, <2>3, <2>5, <2>7, <2>8
<1> QED
  BY <1>1, <1>2

LEMMA AppendFacts ==
  ASSUME NEW S, NEW keys \in Seq(S), NEW x \in S
  PROVE  /\ Append(keys, x) \in Seq(S)
         /\ Len(Append(keys, x)) = Len(keys) + 1
         /\ ToSet(Append(keys, x)) = ToSet(keys) \cup {x}
         /\ Distinct(keys) /\ x \notin ToSet(keys) => Distinct(Append(keys, x))
<1> DEFINE more == Append(keys, x)
<1>1. more \in Seq(S)
  OBVIOUS
<1>2. /\ Len(more) = Len(keys) + 1
      /\ \A i \in 1 .. Len(keys) : more[i] = keys[i]
      /\ more[Len(keys) + 1] = x
  OBVIOUS
<1> HIDE DEF more
<1>3. ToSet(more) = ToSet(keys) \cup {x}
  <2>1. ToSet(more) \subseteq ToSet(keys) \cup {x}
    BY <1>2 DEF ToSet
  <2>2. ToSet(keys) \subseteq ToSet(more)
    BY <1>2 DEF ToSet
  <2>3. x \in ToSet(more)
    BY <1>2 DEF ToSet
  <2> QED
    BY <2>1, <2>2, <2>3
<1>4. ASSUME Distinct(keys), x \notin ToSet(keys) PROVE Distinct(more)
  BY <1>2, <1>4 DEF Distinct, ToSet
<1> QED
  BY <1>1, <1>2, <1>3, <1>4 DEF more

\* The sums over the keys when one of them changes its weight, goes, or moves.
LEMMA SumWithoutKey ==
  ASSUME NEW keys \in Seq(Sessions), NEW s \in Sessions,
         NEW weight \in [Sessions -> Nat], NEW other \in [Sessions -> Nat]
  PROVE  /\ Distinct(keys)
         /\ s \notin ToSet(keys) => weight[s] = 0
         /\ \A x \in Sessions : x # s => other[x] = weight[x]
         => SumOf(weight, keys) = SumOf(other, Without(keys, s)) + weight[s]
<1>1. SUFFICES ASSUME Distinct(keys),
                      s \notin ToSet(keys) => weight[s] = 0,
                      \A x \in Sessions : x # s => other[x] = weight[x]
               PROVE  SumOf(weight, keys) = SumOf(other, Without(keys, s)) + weight[s]
  OBVIOUS
<1>2. PICK rest \in Seq(Sessions) : rest = Without(keys, s) /\ ToSet(rest) = ToSet(keys) \ {s}
  BY <1>1, WithoutFacts
<1>3. SumOf(other, rest) = SumOf(weight, rest)
  <2>1. \A i \in 1 .. Len(rest) : rest[i] \in ToSet(rest)
    BY DEF ToSet
  <2>2. \A i \in 1 .. Len(rest) : other[rest[i]] = weight[rest[i]]
    BY <1>1, <1>2, <2>1
  <2> QED
    BY <2>2, SumAgree
<1>4. SumOf(weight, keys) \in Nat
  BY SumInNat
<1>5. CASE s \notin ToSet(keys)
  BY <1>1, <1>2, <1>3, <1>4, <1>5 DEF Without
<1>6. CASE s \in ToSet(keys)
  <2>1. PICK p \in 1 .. Len(keys) :
          /\ keys[p] = s
          /\ Len(rest) = Len(keys) - 1
          /\ \A j \in 1 .. Len(rest) : rest[j] = IF j < p THEN keys[j] ELSE keys[j + 1]
    <3>1. PICK p \in 1 .. Len(keys) :
            /\ keys[p] = s
            /\ Len(Without(keys, s)) = Len(keys) - 1
            /\ \A j \in 1 .. Len(keys) - 1 :
                 Without(keys, s)[j] = IF j < p THEN keys[j] ELSE keys[j + 1]
      BY <1>6, WithoutPlace
    <3> QED
      BY <1>2, <3>1
  <2>2. SumOf(weight, keys) = SumOf(weight, rest) + weight[keys[p]]
    BY <2>1, SumWithout
  <2> QED
    BY <1>2, <1>3, <2>1, <2>2
<1> QED
  BY <1>5, <1>6

LEMMA SumChanged ==
  ASSUME NEW keys \in Seq(Sessions), NEW s \in Sessions,
         NEW weight \in [Sessions -> Nat], NEW other \in [Sessions -> Nat]
  PROVE  /\ Distinct(keys)
         /\ s \notin ToSet(keys) => other[s] = weight[s]
         /\ \A x \in Sessions : x # s => other[x] = weight[x]
         => SumOf(other, keys) = SumOf(weight, keys) + (other[s] - weight[s])
<1>1. SUFFICES ASSUME Distinct(keys),
                      s \notin ToSet(keys) => other[s] = weight[s],
                      \A x \in Sessions : x # s => other[x] = weight[x]
               PROVE  SumOf(other, keys) = SumOf(weight, keys) + (other[s] - weight[s])
  OBVIOUS
<1>2. CASE s \notin ToSet(keys)
  <2>1. \A i \in 1 .. Len(keys) : other[keys[i]] = weight[keys[i]]
    BY <1>1, <1>2
  <2>2. SumOf(other, keys) = SumOf(weight, keys)
    BY <2>1, SumAgree
  <2>3. SumOf(weight, keys) \in Nat
    BY SumInNat
  <2> QED
    BY <1>1, <1>2, <2>2, <2>3
<1>3. CASE s \in ToSet(keys)
  <2>1. PICK p \in 1 .. Len(keys) : keys[p] = s
    BY <1>3 DEF ToSet
  <2>2. \A i \in 1 .. Len(keys) : i # p => other[keys[i]] = weight[keys[i]]
    BY <1>1, <2>1 DEF Distinct
  <2>3. SumOf(other, keys) = SumOf(weight, keys) + (other[keys[p]] - weight[keys[p]])
    BY <2>2, SumReweighed
  <2> QED
    BY <2>1, <2>3
<1> QED
  BY <1>2, <1>3

-----------------------------------------------------------------------------
(* What holds of the streams between two steps of the client.              *)

\* A session is in a dictionary once, and one with events is in the order.
KeysOnce(st) ==
  /\ Distinct(st.slots)
  /\ Len(st.slots) <= MaxSlots
  /\ Distinct(st.order)
  /\ \A s \in Sessions : st.ring[s] # <<>> => s \in ToSet(st.order)

\* The running counts are those of the rings.
Counted(st) ==
  /\ \A s \in Sessions : st.bytes[s] = Bytes(st.ring[s])
  /\ st.total = SumOf(st.bytes, st.order)

\* A ring is in order and does not go past mark.
InOrder(ring, mark) ==
  /\ \A i \in 1 .. Len(ring) : ring[i] <= mark
  /\ \A i, j \in 1 .. Len(ring) : i < j => ring[i] < ring[j]

RingsInOrder(st) == \A s \in Sessions : InOrder(st.ring[s], st.watermark[s])

\* Slots and watermarks go together.
SlotsMarked(st) == \A s \in Sessions : HasSlot(st, s) <=> st.watermark[s] # 0

\* No silent hole: that of s up to n, that of every other up to its watermark.
AccountedTo(st, s, n) ==
  \A x \in Sessions :
    HasSlot(st, x) /\ x \notin st.gaps => AccountsFor(st, x, IF x = s THEN n ELSE st.watermark[x])

Accounted(st) ==
  \A x \in Sessions : HasSlot(st, x) /\ x \notin st.gaps => AccountsFor(st, x, st.watermark[x])

Shaped(st) ==
  st \in Streams /\ KeysOnce(st) /\ Counted(st) /\ RingsInOrder(st) /\ SlotsMarked(st)

Consistent(st) == Shaped(st) /\ Accounted(st)

RingsFit(st) ==
  \A s \in Sessions : Len(st.ring[s]) <= BufferMax /\ st.bytes[s] <= BufferBytes

StreamInv(st) == Consistent(st) /\ RingsFit(st) /\ st.total <= TotalBytes

-----------------------------------------------------------------------------
(* Bytes of a ring.                                                        *)

LEMMA SizeType == Size \in [Seqs -> Nat] /\ \A n \in Seqs : Size[n] >= 1
BY SizeAssumption DEF Seqs

LEMMA BudgetTypes ==
  BufferMax \in Nat \ {0} /\ BufferBytes \in Nat \ {0} /\ TotalBytes \in Nat \ {0}
    /\ MaxSlots \in Nat \ {0}
BY BudgetAssumption

LEMMA BytesType == ASSUME NEW ring \in Seq(Seqs) PROVE Bytes(ring) \in Nat
BY SizeType, SumInNat DEF Bytes

LEMMA BytesOfNone == Bytes(<<>>) = 0
<1>1. <<>> \in Seq(Seqs) /\ Len(<<>>) = 0
  OBVIOUS
<1>2. \A i \in 1 .. Len(<<>>) : Size[<<>>[i]] = 0
  BY <1>1
<1>3. Size \in [Seqs -> Nat]
  BY SizeType
<1>4. SumOf(Size, <<>>) = 0
  BY <1>1, <1>2, <1>3, SumOfNothing
<1> QED
  BY <1>4 DEF Bytes

LEMMA BytesAppend ==
  ASSUME NEW ring \in Seq(Seqs), NEW n \in Seqs
  PROVE  Bytes(Append(ring, n)) = Bytes(ring) + Size[n]
<1>1. Size \in [Seqs -> Nat]
  BY SizeType
<1> QED
  BY <1>1, SumAppend DEF Bytes

LEMMA BytesSplit ==
  ASSUME NEW ring \in Seq(Seqs), NEW k \in 0 .. Len(ring)
  PROVE  /\ Bytes(Oldest(ring, k)) \in Nat
         /\ Bytes(Rest(ring, k)) \in Nat
         /\ Bytes(ring) = Bytes(Oldest(ring, k)) + Bytes(Rest(ring, k))
<1>1. Size \in [Seqs -> Nat]
  BY SizeType
<1>2. SubSeq(ring, 1, k) \in Seq(Seqs) /\ SubSeq(ring, k + 1, Len(ring)) \in Seq(Seqs)
  OBVIOUS
<1> QED
  BY <1>1, <1>2, SumSplit, BytesType DEF Bytes, Oldest, Rest

LEMMA BytesOfWhole ==
  ASSUME NEW ring \in Seq(Seqs)
  PROVE  Bytes(Oldest(ring, Len(ring))) = Bytes(ring)
<1>1. SubSeq(ring, 1, Len(ring)) = ring
  OBVIOUS
<1> QED
  BY <1>1 DEF Oldest

-----------------------------------------------------------------------------
(* Dropping a session and making a slot.                                   *)

LEMMA StreamFields ==
  ASSUME NEW st \in Streams
  PROVE  /\ st.slots \in Seq(Sessions)
         /\ st.watermark \in [Sessions -> 0 .. MaxEvents]
         /\ st.ring \in [Sessions -> Seq(Seqs)]
         /\ st.order \in Seq(Sessions)
         /\ st.bytes \in [Sessions -> Nat]
         /\ st.total \in Nat
         /\ st.evicted \in [Sessions -> 0 .. MaxEvents]
         /\ st.gaps \in SUBSET Sessions
         /\ st.base \in [Sessions -> 0 .. MaxEvents]
BY DEF Streams

\* st is a record with the fields of a stream.
Whole(st) ==
  st = [slots |-> st.slots, watermark |-> st.watermark, ring |-> st.ring, order |-> st.order,
        bytes |-> st.bytes, total |-> st.total, evicted |-> st.evicted, gaps |-> st.gaps,
        base |-> st.base]

LEMMA StreamIsWhole == ASSUME NEW st \in Streams PROVE Whole(st)
BY DEF Streams, Whole

LEMMA WholeIsStream ==
  ASSUME NEW st, Whole(st),
         st.slots \in Seq(Sessions), st.watermark \in [Sessions -> 0 .. MaxEvents],
         st.ring \in [Sessions -> Seq(Seqs)], st.order \in Seq(Sessions),
         st.bytes \in [Sessions -> Nat], st.total \in Nat,
         st.evicted \in [Sessions -> 0 .. MaxEvents], st.gaps \in SUBSET Sessions,
         st.base \in [Sessions -> 0 .. MaxEvents]
  PROVE  st \in Streams
BY DEF Streams, Whole

LEMMA MaxEventsType == MaxEvents \in Nat
BY SizeAssumption

\* An event that is kept or known to be evicted stays so.
LEMMA AccountsKept ==
  ASSUME NEW st, NEW q, NEW s, NEW n,
         q.base[s] = st.base[s],
         \A m \in Nat : m \in Kept(st, s) \/ m - 1 < st.evicted[s]
                          => m \in Kept(q, s) \/ m - 1 < q.evicted[s],
         st.base[s] \in Nat,
         AccountsFor(st, s, n)
  PROVE  AccountsFor(q, s, n)
BY DEF AccountsFor, StreamTruncated

\* Another session's stream.
LEMMA SameAccount ==
  ASSUME NEW st, NEW q, NEW x, NEW n,
         q.base[x] = st.base[x], q.ring[x] = st.ring[x], q.evicted[x] = st.evicted[x],
         AccountsFor(st, x, n)
  PROVE  AccountsFor(q, x, n)
BY DEF AccountsFor, StreamTruncated, Kept

\* q is st after s has lost its slot.
WithoutSlot(st, s, q) ==
  /\ StreamInv(q)
  /\ ToSet(q.slots) = ToSet(st.slots) \ {s}
  /\ HasSlot(st, s) => Len(q.slots) = Len(st.slots) - 1
  /\ q.gaps = st.gaps \ {s}
  /\ \A x \in Sessions : x # s => q.watermark[x] = st.watermark[x]

LEMMA DroppedKeeps ==
  ASSUME NEW st, StreamInv(st), NEW s \in Sessions, NEW q, q = Dropped(st, s)
  PROVE  WithoutSlot(st, s, q)
<1> SUFFICES /\ StreamInv(q)
             /\ ToSet(q.slots) = ToSet(st.slots) \ {s}
             /\ HasSlot(st, s) => Len(q.slots) = Len(st.slots) - 1
             /\ q.gaps = st.gaps \ {s}
             /\ \A x \in Sessions : x # s => q.watermark[x] = st.watermark[x]
  BY DEF WithoutSlot
<1>1. /\ KeysOnce(st) /\ Counted(st) /\ RingsInOrder(st) /\ SlotsMarked(st)
      /\ Accounted(st) /\ RingsFit(st) /\ st.total <= TotalBytes
  BY DEF StreamInv, Consistent, Shaped
<1>2. st \in Streams
  BY DEF StreamInv, Consistent, Shaped
<1>3. /\ st.slots \in Seq(Sessions) /\ st.order \in Seq(Sessions)
      /\ st.watermark \in [Sessions -> 0 .. MaxEvents]
      /\ st.ring \in [Sessions -> Seq(Seqs)]
      /\ st.bytes \in [Sessions -> Nat]
      /\ st.total \in Nat
      /\ st.evicted \in [Sessions -> 0 .. MaxEvents]
      /\ st.gaps \in SUBSET Sessions
      /\ st.base \in [Sessions -> 0 .. MaxEvents]
  BY <1>2, StreamFields
<1>4. /\ q.slots = Without(st.slots, s)
      /\ q.watermark = [st.watermark EXCEPT ![s] = 0]
      /\ q.ring = [st.ring EXCEPT ![s] = <<>>]
      /\ q.order = Without(st.order, s)
      /\ q.bytes = [st.bytes EXCEPT ![s] = 0]
      /\ q.total = st.total - st.bytes[s]
      /\ q.evicted = [st.evicted EXCEPT ![s] = 0]
      /\ q.gaps = st.gaps \ {s}
      /\ q.base = [st.base EXCEPT ![s] = 0]
      /\ Whole(q)
  <2>1. st = [slots |-> st.slots, watermark |-> st.watermark, ring |-> st.ring,
              order |-> st.order, bytes |-> st.bytes, total |-> st.total,
              evicted |-> st.evicted, gaps |-> st.gaps, base |-> st.base]
    BY <1>2, StreamIsWhole DEF Whole
  <2> QED
    BY <2>1 DEF Dropped, Whole
<1>5. Distinct(st.slots) /\ Distinct(st.order) /\ Len(st.slots) <= MaxSlots
  BY <1>1 DEF KeysOnce
<1>6. /\ q.slots \in Seq(Sessions)
      /\ Distinct(q.slots)
      /\ ToSet(q.slots) = ToSet(st.slots) \ {s}
      /\ Len(q.slots) = IF s \in ToSet(st.slots) THEN Len(st.slots) - 1 ELSE Len(st.slots)
  <2>1. st.slots \in Seq(Sessions) /\ Distinct(st.slots) /\ q.slots = Without(st.slots, s)
    BY <1>3, <1>4, <1>5
  <2> QED
    BY <2>1, WithoutFacts
<1>7. /\ q.order \in Seq(Sessions)
      /\ Distinct(q.order)
      /\ ToSet(q.order) = ToSet(st.order) \ {s}
  <2>1. st.order \in Seq(Sessions) /\ Distinct(st.order) /\ q.order = Without(st.order, s)
    BY <1>3, <1>4, <1>5
  <2> QED
    BY <2>1, WithoutFacts
<1>8. /\ q.watermark \in [Sessions -> 0 .. MaxEvents]
      /\ q.ring \in [Sessions -> Seq(Seqs)]
      /\ q.bytes \in [Sessions -> Nat]
      /\ q.evicted \in [Sessions -> 0 .. MaxEvents]
      /\ q.gaps \in SUBSET Sessions
      /\ q.base \in [Sessions -> 0 .. MaxEvents]
  <2>1. 0 \in 0 .. MaxEvents /\ <<>> \in Seq(Seqs)
    BY MaxEventsType
  <2> QED
    BY <1>3, <1>4, <2>1
<1>9. SumOf(st.bytes, st.order) = SumOf(q.bytes, q.order) + st.bytes[s]
  <2>1. s \notin ToSet(st.order) => st.bytes[s] = 0
    BY <1>1, BytesOfNone DEF KeysOnce, Counted
  <2>2. \A x \in Sessions : x # s => q.bytes[x] = st.bytes[x]
    BY <1>3, <1>4
  <2>3. st.order \in Seq(Sessions) /\ q.order = Without(st.order, s)
    BY <1>3, <1>4
  <2>4. st.bytes \in [Sessions -> Nat] /\ q.bytes \in [Sessions -> Nat]
    BY <1>3, <1>8
  <2>5. SumOf(st.bytes, st.order) = SumOf(q.bytes, Without(st.order, s)) + st.bytes[s]
    <3>1. PICK keys, weight, other :
            keys = st.order /\ weight = st.bytes /\ other = q.bytes
      OBVIOUS
    <3>2. keys \in Seq(Sessions) /\ weight \in [Sessions -> Nat] /\ other \in [Sessions -> Nat]
      BY <2>3, <2>4, <3>1
    <3>3. /\ Distinct(keys)
          /\ s \notin ToSet(keys) => weight[s] = 0
          /\ \A x \in Sessions : x # s => other[x] = weight[x]
      BY <1>5, <2>1, <2>2, <3>1
    <3>4. SumOf(weight, keys) = SumOf(other, Without(keys, s)) + weight[s]
      BY <3>2, <3>3, SumWithoutKey
    <3> QED
      BY <3>1, <3>4
  <2> QED
    BY <2>3, <2>5
<1>10. SumOf(q.bytes, q.order) \in Nat
  BY <1>7, <1>8, SumInNat
<1>11. q.total = SumOf(q.bytes, q.order) /\ q.total <= st.total /\ q.total \in Nat
  <2>1. st.total = SumOf(st.bytes, st.order)
    BY <1>1 DEF Counted
  <2>2. st.bytes[s] \in Nat
    BY <1>3
  <2> QED
    BY <1>4, <1>9, <1>10, <2>1, <2>2
<1>12. q \in Streams
  BY <1>4, <1>6, <1>7, <1>8, <1>11, WholeIsStream
<1>13. \A x \in Sessions : /\ q.ring[x] = IF x = s THEN <<>> ELSE st.ring[x]
                           /\ q.bytes[x] = IF x = s THEN 0 ELSE st.bytes[x]
                           /\ q.watermark[x] = IF x = s THEN 0 ELSE st.watermark[x]
  BY <1>3, <1>4
<1>14. KeysOnce(q)
  <2>1. Len(q.slots) <= MaxSlots
    BY <1>3, <1>5, <1>6, BudgetTypes
  <2>2. \A x \in Sessions : q.ring[x] # <<>> => x \in ToSet(q.order)
    BY <1>1, <1>7, <1>13 DEF KeysOnce
  <2> QED
    BY <1>6, <1>7, <2>1, <2>2 DEF KeysOnce
<1>15. Counted(q)
  BY <1>1, <1>11, <1>13, BytesOfNone DEF Counted
<1>16. RingsInOrder(q)
  <2>1. InOrder(<<>>, 0)
    BY DEF InOrder
  <2> QED
    BY <1>1, <1>13, <2>1 DEF RingsInOrder
<1>17. SlotsMarked(q)
  BY <1>1, <1>6, <1>13 DEF SlotsMarked, HasSlot
<1>18. Accounted(q)
  <2>1. SUFFICES ASSUME NEW x \in Sessions, HasSlot(q, x), x \notin q.gaps
                 PROVE  AccountsFor(q, x, q.watermark[x])
    BY DEF Accounted
  <2>2. x # s /\ HasSlot(st, x) /\ x \notin st.gaps
    BY <1>4, <1>6, <2>1 DEF HasSlot
  <2>3. q.base[x] = st.base[x] /\ q.ring[x] = st.ring[x] /\ q.evicted[x] = st.evicted[x]
    BY <1>3, <1>4, <2>2
  <2>4. AccountsFor(st, x, st.watermark[x])
    BY <1>1, <2>2 DEF Accounted
  <2>5. AccountsFor(q, x, st.watermark[x])
    BY <2>3, <2>4, SameAccount
  <2> QED
    BY <1>13, <2>2, <2>5
<1>19. RingsFit(q)
  <2>1. Len(<<>>) = 0
    OBVIOUS
  <2> QED
    BY <1>1, <1>13, <2>1, BudgetTypes DEF RingsFit
<1>20. q.total <= TotalBytes
  BY <1>1, <1>3, <1>11, BudgetTypes
<1>21. \A x \in Sessions : x # s => q.watermark[x] = st.watermark[x]
  BY <1>3, <1>4
<1> QED
  BY <1>4, <1>6, <1>12, <1>14, <1>15, <1>16, <1>17, <1>18, <1>19, <1>20, <1>21
  DEF StreamInv, Consistent, Shaped, HasSlot

-----------------------------------------------------------------------------
(* The watermark.                                                          *)

LEMMA StreamParts ==
  ASSUME NEW st, Shaped(st)
  PROVE  /\ st \in Streams
         /\ KeysOnce(st) /\ Counted(st) /\ RingsInOrder(st) /\ SlotsMarked(st)
         /\ st.slots \in Seq(Sessions) /\ st.order \in Seq(Sessions)
         /\ st.watermark \in [Sessions -> 0 .. MaxEvents]
         /\ st.ring \in [Sessions -> Seq(Seqs)]
         /\ st.bytes \in [Sessions -> Nat]
         /\ st.total \in Nat
         /\ st.evicted \in [Sessions -> 0 .. MaxEvents]
         /\ st.gaps \in SUBSET Sessions
         /\ st.base \in [Sessions -> 0 .. MaxEvents]
BY StreamFields DEF Shaped

\* The stream after the watermark of s has moved to n and before the event is kept.
Moved(st, s, n) ==
  /\ Shaped(st)
  /\ AccountedTo(st, s, n - 1)
  /\ RingsFit(st)
  /\ st.total <= TotalBytes
  /\ HasSlot(st, s)
  /\ st.watermark[s] = n
  /\ \A i \in 1 .. Len(st.ring[s]) : st.ring[s][i] < n

\* Slots, watermarks and allowed gaps are those of st.
SameMarks(st, q) == q.slots = st.slots /\ q.watermark = st.watermark /\ q.gaps = st.gaps

\* x has no slot in q, or the one it had.
SlotKept(st, q, x) ==
  HasSlot(q, x) => /\ HasSlot(st, x) /\ q.watermark[x] = st.watermark[x]
                   /\ x \in st.gaps => x \in q.gaps

\* From st to q, event n of s was looked at and at most other slots were lost.
Marked(st, s, n, q) ==
  /\ HasSlot(q, s) /\ q.watermark[s] = n
  /\ s \in st.gaps => s \in q.gaps
  /\ \A x \in Sessions : x # s => SlotKept(st, q, x)

LEMMA MarkMoves ==
  ASSUME NEW st, StreamInv(st), NEW s \in Sessions, NEW n \in Seqs, n > st.watermark[s],
         NEW q, NEW b \in 0 .. MaxEvents,
         q.slots \in Seq(Sessions), Distinct(q.slots), Len(q.slots) <= MaxSlots,
         ToSet(q.slots) = ToSet(st.slots) \cup {s},
         q.watermark = [st.watermark EXCEPT ![s] = n], q.ring = st.ring, q.order = st.order,
         q.bytes = st.bytes, q.total = st.total, q.evicted = st.evicted, q.gaps = st.gaps,
         q.base = [st.base EXCEPT ![s] = b], Whole(q),
         s \notin st.gaps => AccountsFor(q, s, n - 1)
  PROVE  Moved(q, s, n)
<1>1. /\ Shaped(st) /\ Accounted(st) /\ RingsFit(st) /\ st.total <= TotalBytes
  BY DEF StreamInv, Consistent
<1>2. /\ st \in Streams
      /\ KeysOnce(st) /\ Counted(st) /\ RingsInOrder(st) /\ SlotsMarked(st)
      /\ st.order \in Seq(Sessions)
      /\ st.watermark \in [Sessions -> 0 .. MaxEvents]
      /\ st.ring \in [Sessions -> Seq(Seqs)]
      /\ st.bytes \in [Sessions -> Nat]
      /\ st.total \in Nat
      /\ st.evicted \in [Sessions -> 0 .. MaxEvents]
      /\ st.gaps \in SUBSET Sessions
      /\ st.base \in [Sessions -> 0 .. MaxEvents]
  BY <1>1, StreamParts
<1>3. n \in 0 .. MaxEvents /\ n # 0
  BY MaxEventsType DEF Seqs
<1>4. /\ q.watermark \in [Sessions -> 0 .. MaxEvents] /\ q.base \in [Sessions -> 0 .. MaxEvents]
  BY <1>2, <1>3
<1>5. q \in Streams
  BY <1>2, <1>4, WholeIsStream
<1>6. q.watermark[s] = n /\ \A x \in Sessions : x # s => q.watermark[x] = st.watermark[x]
  BY <1>2
<1>7. KeysOnce(q) /\ Counted(q)
  BY <1>2 DEF KeysOnce, Counted
<1>8. RingsInOrder(q)
  <2>1. ASSUME NEW x \in Sessions PROVE InOrder(q.ring[x], q.watermark[x])
    <3>1. InOrder(st.ring[x], st.watermark[x]) /\ st.ring[x] \in Seq(Seqs)
      BY <1>2 DEF RingsInOrder
    <3>2. CASE x # s
      BY <1>6, <3>1, <3>2
    <3>3. CASE x = s
      <4>1. \A i \in 1 .. Len(st.ring[s]) : st.ring[s][i] \in Nat
        BY <3>1, <3>3, MaxEventsType DEF Seqs
      <4>2. st.watermark[s] \in Nat /\ n \in Nat
        BY <1>2, <1>3, MaxEventsType
      <4>3. \A i \in 1 .. Len(st.ring[s]) : st.ring[s][i] <= n
        BY <3>1, <3>3, <4>1, <4>2 DEF InOrder
      <4> QED
        BY <1>6, <3>1, <3>3, <4>3 DEF InOrder
    <3> QED
      BY <3>2, <3>3
  <2> QED
    BY <2>1 DEF RingsInOrder
<1>9. SlotsMarked(q)
  BY <1>2, <1>3, <1>6 DEF SlotsMarked, HasSlot
<1>10. AccountedTo(q, s, n - 1)
  <2>1. SUFFICES ASSUME NEW x \in Sessions, HasSlot(q, x), x \notin q.gaps
                 PROVE  AccountsFor(q, x, IF x = s THEN n - 1 ELSE q.watermark[x])
    BY DEF AccountedTo
  <2>2. CASE x = s
    BY <2>1, <2>2
  <2>3. CASE x # s
    <3>1. HasSlot(st, x) /\ x \notin st.gaps
      BY <2>1, <2>3 DEF HasSlot
    <3>2. AccountsFor(st, x, st.watermark[x])
      BY <1>1, <3>1 DEF Accounted
    <3>3. q.base[x] = st.base[x] /\ q.ring[x] = st.ring[x] /\ q.evicted[x] = st.evicted[x]
      BY <1>2, <2>3
    <3> QED
      BY <1>6, <2>3, <3>2, <3>3, SameAccount
  <2> QED
    BY <2>2, <2>3
<1>11. RingsFit(q) /\ q.total <= TotalBytes /\ HasSlot(q, s)
  BY <1>1 DEF RingsFit, HasSlot
<1>12. \A i \in 1 .. Len(q.ring[s]) : q.ring[s][i] < n
  <2>1. InOrder(st.ring[s], st.watermark[s]) /\ st.ring[s] \in Seq(Seqs)
    BY <1>2 DEF RingsInOrder
  <2>2. \A i \in 1 .. Len(st.ring[s]) : st.ring[s][i] \in Nat
    BY <2>1, MaxEventsType DEF Seqs
  <2>3. st.watermark[s] \in Nat /\ n \in Nat
    BY <1>2, <1>3, MaxEventsType
  <2> QED
    BY <2>1, <2>2, <2>3 DEF InOrder
<1> QED
  BY <1>5, <1>6, <1>7, <1>8, <1>9, <1>10, <1>11, <1>12 DEF Moved, Shaped

\* A slot is made for s unless it has one.
LEMMA RoomMade ==
  ASSUME NEW st, StreamInv(st), NEW s \in Sessions, ~HasSlot(st, s), NEW r,
         r = IF Len(st.slots) >= MaxSlots THEN Dropped(st, Head(st.slots)) ELSE st
  PROVE  /\ StreamInv(r)
         /\ ~HasSlot(r, s)
         /\ Len(r.slots) < MaxSlots
         /\ s \in st.gaps => s \in r.gaps
         /\ \A x \in Sessions : SlotKept(st, r, x)
<1>1. /\ Shaped(st) /\ KeysOnce(st) /\ st.slots \in Seq(Sessions)
  BY StreamParts DEF StreamInv, Consistent
<1>2. Len(st.slots) <= MaxSlots /\ Len(st.slots) \in Nat /\ MaxSlots \in Nat /\ MaxSlots # 0
  BY <1>1, BudgetTypes DEF KeysOnce
<1>3. CASE ~(Len(st.slots) >= MaxSlots)
  BY <1>2, <1>3 DEF SlotKept
<1>4. CASE Len(st.slots) >= MaxSlots
  <2>1. PICK x \in Sessions : x = Head(st.slots) /\ x \in ToSet(st.slots)
    <3>1. Len(st.slots) # 0
      BY <1>2, <1>4
    <3>2. Head(st.slots) = st.slots[1] /\ 1 \in 1 .. Len(st.slots)
      BY <1>1, <1>2, <3>1
    <3> QED
      BY <1>1, <3>2 DEF ToSet
  <2>2. r = Dropped(st, x)
    BY <1>4, <2>1
  <2>3. /\ StreamInv(r)
        /\ ToSet(r.slots) = ToSet(st.slots) \ {x}
        /\ HasSlot(st, x) => Len(r.slots) = Len(st.slots) - 1
        /\ r.gaps = st.gaps \ {x}
        /\ \A o \in Sessions : o # x => r.watermark[o] = st.watermark[o]
    <3>1. WithoutSlot(st, x, r)
      BY <2>2, DroppedKeeps
    <3> QED
      BY <3>1 DEF WithoutSlot
  <2>4. x # s
    BY <2>1 DEF HasSlot
  <2>5. \A o \in Sessions : SlotKept(st, r, o)
    BY <2>3 DEF SlotKept, HasSlot
  <2>6. ~HasSlot(r, s)
    BY <2>3 DEF HasSlot
  <2>7. Len(r.slots) < MaxSlots
    <3>1. Len(r.slots) = Len(st.slots) - 1
      BY <2>1, <2>3 DEF HasSlot
    <3> QED
      BY <1>2, <3>1
  <2>8. s \in st.gaps => s \in r.gaps
    BY <2>3, <2>4
  <2> QED
    BY <2>3, <2>5, <2>6, <2>7, <2>8
<1> QED
  BY <1>3, <1>4

LEMMA SeenMoves ==
  ASSUME NEW st, StreamInv(st), NEW s \in Sessions, NEW n \in Seqs, Acceptable(st, s, n, FALSE),
         NEW q, q = Seen(st, s, n)
  PROVE  Moved(q, s, n) /\ Marked(st, s, n, q)
<1>1. n \in Nat /\ n - 1 \in 0 .. MaxEvents
  BY MaxEventsType DEF Seqs
<1>2. CASE HasSlot(st, s)
  <2>1. /\ Shaped(st) /\ Accounted(st) /\ st \in Streams /\ KeysOnce(st) /\ SlotsMarked(st)
        /\ st.slots \in Seq(Sessions)
        /\ st.watermark \in [Sessions -> 0 .. MaxEvents]
        /\ st.base \in [Sessions -> 0 .. MaxEvents]
    BY StreamParts DEF StreamInv, Consistent
  <2>2. /\ q.slots = st.slots
        /\ q.watermark = [st.watermark EXCEPT ![s] = n]
        /\ q.ring = st.ring /\ q.order = st.order /\ q.bytes = st.bytes /\ q.total = st.total
        /\ q.evicted = st.evicted /\ q.gaps = st.gaps
        /\ q.base = [st.base EXCEPT ![s] = st.base[s]]
        /\ Whole(q)
    <3>1. st = [slots |-> st.slots, watermark |-> st.watermark, ring |-> st.ring,
                order |-> st.order, bytes |-> st.bytes, total |-> st.total,
                evicted |-> st.evicted, gaps |-> st.gaps, base |-> st.base]
      BY <2>1, StreamIsWhole DEF Whole
    <3>2. q = [st EXCEPT !.watermark[s] = n, !.base[s] = @]
      BY <1>2 DEF Seen, Slotted
    <3> QED
      BY <3>1, <3>2 DEF Whole
  <2>3. st.watermark[s] # 0 /\ st.watermark[s] \in Nat /\ n > st.watermark[s]
    BY <1>2, <2>1, MaxEventsType DEF SlotsMarked, Acceptable
  <2>4. ASSUME s \notin st.gaps PROVE AccountsFor(q, s, n - 1)
    <3>1. n - 1 = st.watermark[s]
      BY <1>1, <2>3, <2>4 DEF Acceptable
    <3>2. AccountsFor(st, s, st.watermark[s])
      BY <1>2, <2>1, <2>4 DEF Accounted
    <3>3. q.base[s] = st.base[s] /\ q.ring[s] = st.ring[s] /\ q.evicted[s] = st.evicted[s]
      BY <2>1, <2>2
    <3> QED
      BY <3>1, <3>2, <3>3, SameAccount
  <2>5. ToSet(q.slots) = ToSet(st.slots) \cup {s}
    BY <1>2, <2>2 DEF HasSlot
  <2>6. q.slots \in Seq(Sessions) /\ Distinct(q.slots) /\ Len(q.slots) <= MaxSlots
    BY <2>1, <2>2 DEF KeysOnce
  <2>7. st.base[s] \in 0 .. MaxEvents
    BY <2>1
  <2>8. Moved(q, s, n)
    BY <2>2, <2>3, <2>4, <2>5, <2>6, <2>7, MarkMoves
  <2>9. \A x \in Sessions : x # s => SlotKept(st, q, x)
    BY <2>1, <2>2 DEF SlotKept, HasSlot
  <2> QED
    BY <2>2, <2>8, <2>9 DEF Moved, Marked
<1>3. CASE ~HasSlot(st, s)
  <2>1. PICK r : r = IF Len(st.slots) >= MaxSlots THEN Dropped(st, Head(st.slots)) ELSE st
    OBVIOUS
  <2>2. /\ StreamInv(r) /\ ~HasSlot(r, s) /\ Len(r.slots) < MaxSlots
        /\ s \in st.gaps => s \in r.gaps
        /\ \A x \in Sessions : SlotKept(st, r, x)
    BY <1>3, <2>1, RoomMade
  <2>3. /\ Shaped(r) /\ r \in Streams /\ KeysOnce(r) /\ SlotsMarked(r)
        /\ r.slots \in Seq(Sessions)
        /\ r.watermark \in [Sessions -> 0 .. MaxEvents]
        /\ r.base \in [Sessions -> 0 .. MaxEvents]
    BY <2>2, StreamParts DEF StreamInv, Consistent
  <2>4. /\ q.slots = Append(r.slots, s)
        /\ q.watermark = [r.watermark EXCEPT ![s] = n]
        /\ q.ring = r.ring /\ q.order = r.order /\ q.bytes = r.bytes /\ q.total = r.total
        /\ q.evicted = r.evicted /\ q.gaps = r.gaps
        /\ q.base = [r.base EXCEPT ![s] = n - 1]
        /\ Whole(q)
    <3>1. r = [slots |-> r.slots, watermark |-> r.watermark, ring |-> r.ring,
               order |-> r.order, bytes |-> r.bytes, total |-> r.total,
               evicted |-> r.evicted, gaps |-> r.gaps, base |-> r.base]
      BY <2>3, StreamIsWhole DEF Whole
    <3>2. Slotted(st, s) = [r EXCEPT !.slots = Append(@, s)]
      BY <1>3, <2>1 DEF Slotted
    <3>3. q = [Slotted(st, s) EXCEPT !.watermark[s] = n, !.base[s] = n - 1]
      BY <1>3 DEF Seen
    <3>4. [r EXCEPT !.slots = Append(@, s)]
            = [slots |-> Append(r.slots, s), watermark |-> r.watermark, ring |-> r.ring,
               order |-> r.order, bytes |-> r.bytes, total |-> r.total,
               evicted |-> r.evicted, gaps |-> r.gaps, base |-> r.base]
      BY <3>1
    <3>5. PICK m : m = Slotted(st, s)
      OBVIOUS
    <3>6. m = [slots |-> Append(r.slots, s), watermark |-> r.watermark, ring |-> r.ring,
               order |-> r.order, bytes |-> r.bytes, total |-> r.total,
               evicted |-> r.evicted, gaps |-> r.gaps, base |-> r.base]
      BY <3>2, <3>4, <3>5
    <3>7. q = [m EXCEPT !.watermark[s] = n, !.base[s] = n - 1]
      BY <3>3, <3>5
    <3> QED
      BY <3>6, <3>7 DEF Whole
  <2>5. r.watermark[s] = 0 /\ n > 0
    BY <1>1, <2>2, <2>3 DEF SlotsMarked, Seqs
  <2>6. AccountsFor(q, s, n - 1)
    <3>1. q.base[s] = n - 1
      BY <2>3, <2>4
    <3> QED
      BY <1>1, <3>1 DEF AccountsFor
  <2>7. /\ q.slots \in Seq(Sessions)
        /\ Len(q.slots) = Len(r.slots) + 1
        /\ ToSet(q.slots) = ToSet(r.slots) \cup {s}
        /\ Distinct(q.slots)
    BY <2>2, <2>3, <2>4, AppendFacts DEF HasSlot, KeysOnce
  <2>8. Len(q.slots) <= MaxSlots
    BY <2>2, <2>3, <2>7, BudgetTypes
  <2>9. n > r.watermark[s]
    BY <2>5
  <2>10. Moved(q, s, n)
    BY <1>1, <2>2, <2>4, <2>6, <2>7, <2>8, <2>9, MarkMoves
  <2>11. ASSUME NEW x \in Sessions, x # s PROVE SlotKept(st, q, x)
    <3>1. HasSlot(q, x) => HasSlot(r, x)
      BY <2>7, <2>11 DEF HasSlot
    <3>2. q.watermark[x] = r.watermark[x] /\ q.gaps = r.gaps
      BY <2>3, <2>4, <2>11
    <3> QED
      BY <2>2, <3>1, <3>2 DEF SlotKept
  <2> QED
    BY <2>2, <2>4, <2>10, <2>11 DEF Moved, Marked
<1> QED
  BY <1>2, <1>3

-----------------------------------------------------------------------------
(* Keeping the event.                                                      *)

LEMMA LaterType ==
  ASSUME NEW m \in 0 .. MaxEvents, NEW n \in 0 .. MaxEvents
  PROVE  Later(m, n) \in 0 .. MaxEvents /\ Later(m, n) >= m /\ Later(m, n) >= n
BY MaxEventsType DEF Later

\* Not at all: it counts as evicted.
LEMMA OversizeKeeps ==
  ASSUME NEW st, NEW s \in Sessions, NEW n \in Seqs, Moved(st, s, n),
         NEW q, q = [st EXCEPT !.evicted[s] = Later(@, n)]
  PROVE  StreamInv(q) /\ SameMarks(st, q)
<1>1. /\ Shaped(st) /\ AccountedTo(st, s, n - 1) /\ RingsFit(st) /\ st.total <= TotalBytes
      /\ st.watermark[s] = n
  BY DEF Moved
<1>2. /\ st \in Streams
      /\ KeysOnce(st) /\ Counted(st) /\ RingsInOrder(st) /\ SlotsMarked(st)
      /\ st.slots \in Seq(Sessions) /\ st.order \in Seq(Sessions)
      /\ st.watermark \in [Sessions -> 0 .. MaxEvents]
      /\ st.ring \in [Sessions -> Seq(Seqs)]
      /\ st.bytes \in [Sessions -> Nat]
      /\ st.total \in Nat
      /\ st.evicted \in [Sessions -> 0 .. MaxEvents]
      /\ st.gaps \in SUBSET Sessions
      /\ st.base \in [Sessions -> 0 .. MaxEvents]
  BY <1>1, StreamParts
<1>3. /\ q.slots = st.slots /\ q.watermark = st.watermark /\ q.ring = st.ring
      /\ q.order = st.order /\ q.bytes = st.bytes /\ q.total = st.total
      /\ q.gaps = st.gaps /\ q.base = st.base
      /\ q.evicted = [st.evicted EXCEPT ![s] = Later(st.evicted[s], n)]
      /\ Whole(q)
  <2>1. st = [slots |-> st.slots, watermark |-> st.watermark, ring |-> st.ring,
              order |-> st.order, bytes |-> st.bytes, total |-> st.total,
              evicted |-> st.evicted, gaps |-> st.gaps, base |-> st.base]
    BY <1>2, StreamIsWhole DEF Whole
  <2> QED
    BY <2>1 DEF Whole
<1>4. n \in 0 .. MaxEvents /\ n \in Nat
  BY MaxEventsType DEF Seqs
<1>5. /\ Later(st.evicted[s], n) \in 0 .. MaxEvents
      /\ Later(st.evicted[s], n) >= st.evicted[s]
      /\ Later(st.evicted[s], n) >= n
  BY <1>2, <1>4, LaterType
<1>6. q.evicted \in [Sessions -> 0 .. MaxEvents]
  BY <1>2, <1>3, <1>5
<1>7. q \in Streams
  BY <1>2, <1>3, <1>6, WholeIsStream
<1>8. KeysOnce(q) /\ Counted(q) /\ RingsInOrder(q) /\ SlotsMarked(q) /\ RingsFit(q)
  BY <1>1, <1>2, <1>3 DEF KeysOnce, Counted, RingsInOrder, SlotsMarked, RingsFit, HasSlot
<1>9. Accounted(q)
  <2>1. SUFFICES ASSUME NEW x \in Sessions, HasSlot(q, x), x \notin q.gaps
                 PROVE  AccountsFor(q, x, q.watermark[x])
    BY DEF Accounted
  <2>2. HasSlot(st, x) /\ x \notin st.gaps
    BY <1>3, <2>1 DEF HasSlot
  <2>3. CASE x # s
    <3>1. AccountsFor(st, x, st.watermark[x])
      BY <1>1, <2>2, <2>3 DEF AccountedTo
    <3>2. q.base[x] = st.base[x] /\ q.ring[x] = st.ring[x] /\ q.evicted[x] = st.evicted[x]
      BY <1>2, <1>3, <2>3
    <3> QED
      BY <1>3, <3>1, <3>2, SameAccount
  <2>4. CASE x = s
    <3>1. q.evicted[s] = Later(st.evicted[s], n)
      BY <1>2, <1>3
    <3>2. ASSUME NEW m \in q.base[s] + 1 .. n PROVE m - 1 < q.evicted[s]
      BY <1>2, <1>3, <1>4, <1>5, <3>1, MaxEventsType
    <3> QED
      BY <1>1, <1>3, <2>4, <3>2 DEF AccountsFor, StreamTruncated
  <2> QED
    BY <2>3, <2>4
<1> QED
  BY <1>1, <1>3, <1>7, <1>8, <1>9 DEF StreamInv, Consistent, Shaped, SameMarks

RingFits(st, s) == Len(st.ring[s]) <= BufferMax /\ st.bytes[s] <= BufferBytes

\* In its ring, the budgets aside.
LEMMA PushedKeeps ==
  ASSUME NEW st, NEW s \in Sessions, NEW n \in Seqs, Moved(st, s, n),
         NEW q, q = Pushed(st, s, n)
  PROVE  /\ Consistent(q)
         /\ \A x \in Sessions : x # s => RingFits(q, x)
         /\ SameMarks(st, q)
<1>1. /\ Shaped(st) /\ AccountedTo(st, s, n - 1) /\ RingsFit(st) /\ st.total <= TotalBytes
      /\ st.watermark[s] = n
      /\ \A i \in 1 .. Len(st.ring[s]) : st.ring[s][i] < n
  BY DEF Moved
<1>2. /\ st \in Streams
      /\ KeysOnce(st) /\ Counted(st) /\ RingsInOrder(st) /\ SlotsMarked(st)
      /\ st.slots \in Seq(Sessions) /\ st.order \in Seq(Sessions)
      /\ st.watermark \in [Sessions -> 0 .. MaxEvents]
      /\ st.ring \in [Sessions -> Seq(Seqs)]
      /\ st.bytes \in [Sessions -> Nat]
      /\ st.total \in Nat
      /\ st.evicted \in [Sessions -> 0 .. MaxEvents]
      /\ st.gaps \in SUBSET Sessions
      /\ st.base \in [Sessions -> 0 .. MaxEvents]
  BY <1>1, StreamParts
<1>3. /\ q.slots = st.slots /\ q.watermark = st.watermark
      /\ q.ring = [st.ring EXCEPT ![s] = Append(st.ring[s], n)]
      /\ q.order = Append(Without(st.order, s), s)
      /\ q.bytes = [st.bytes EXCEPT ![s] = st.bytes[s] + Size[n]]
      /\ q.total = st.total + Size[n]
      /\ q.gaps = st.gaps /\ q.base = st.base /\ q.evicted = st.evicted
      /\ Whole(q)
  <2>1. st = [slots |-> st.slots, watermark |-> st.watermark, ring |-> st.ring,
              order |-> st.order, bytes |-> st.bytes, total |-> st.total,
              evicted |-> st.evicted, gaps |-> st.gaps, base |-> st.base]
    BY <1>2, StreamIsWhole DEF Whole
  <2> QED
    BY <2>1 DEF Whole, Pushed
<1>4. Size[n] \in Nat
  BY SizeType
<1>5. PICK ring \in Seq(Seqs) :
        /\ ring = Append(st.ring[s], n)
        /\ Len(ring) = Len(st.ring[s]) + 1
        /\ ring[Len(ring)] = n
        /\ \A i \in 1 .. Len(st.ring[s]) : ring[i] = st.ring[s][i]
        /\ ToSet(ring) = ToSet(st.ring[s]) \cup {n}
  <2>1. st.ring[s] \in Seq(Seqs)
    BY <1>2
  <2>2. PICK old \in Seq(Seqs) : old = st.ring[s]
    BY <2>1
  <2>3. ToSet(Append(old, n)) = ToSet(old) \cup {n}
    BY AppendFacts
  <2>4. /\ Append(old, n) \in Seq(Seqs)
        /\ Len(Append(old, n)) = Len(old) + 1
        /\ Append(old, n)[Len(old) + 1] = n
        /\ \A i \in 1 .. Len(old) : Append(old, n)[i] = old[i]
    OBVIOUS
  <2> QED
    BY <2>2, <2>3, <2>4
<1>6. PICK rest \in Seq(Sessions) :
        /\ rest = Without(st.order, s)
        /\ Distinct(rest)
        /\ ToSet(rest) = ToSet(st.order) \ {s}
  <2>1. st.order \in Seq(Sessions) /\ Distinct(st.order)
    BY <1>2 DEF KeysOnce
  <2> QED
    BY <2>1, WithoutFacts
<1>7. /\ q.order \in Seq(Sessions)
      /\ ToSet(q.order) = ToSet(st.order) \cup {s}
      /\ Distinct(q.order)
  <2>1. q.order = Append(rest, s) /\ s \notin ToSet(rest)
    BY <1>3, <1>6
  <2> QED
    BY <1>6, <2>1, AppendFacts
<1>8. /\ q.ring \in [Sessions -> Seq(Seqs)]
      /\ q.bytes \in [Sessions -> Nat]
      /\ q.total \in Nat
  <2>1. q.ring \in [Sessions -> Seq(Seqs)]
    <3>1. q.ring = [st.ring EXCEPT ![s] = ring]
      BY <1>3, <1>5
    <3> QED
      BY <1>2, <3>1
  <2>2. q.bytes \in [Sessions -> Nat]
    <3>1. PICK old \in [Sessions -> Nat] : old = st.bytes
      BY <1>2
    <3>2. PICK size \in Nat : size = Size[n]
      BY <1>4
    <3>3. q.bytes = [old EXCEPT ![s] = old[s] + size]
      BY <1>3, <3>1, <3>2
    <3>4. old[s] + size \in Nat
      OBVIOUS
    <3> QED
      BY <3>3, <3>4
  <2>3. q.total \in Nat
    BY <1>2, <1>3, <1>4
  <2> QED
    BY <2>1, <2>2, <2>3
<1>9. q \in Streams
  BY <1>2, <1>3, <1>7, <1>8, WholeIsStream
<1>10. /\ q.ring[s] = ring /\ q.bytes[s] = st.bytes[s] + Size[n]
       /\ \A x \in Sessions : x # s => q.ring[x] = st.ring[x] /\ q.bytes[x] = st.bytes[x]
  BY <1>2, <1>3, <1>5
<1>11. KeysOnce(q)
  BY <1>2, <1>3, <1>7, <1>10 DEF KeysOnce
<1>12. Counted(q)
  <2>1. q.bytes[s] = Bytes(q.ring[s])
    <3>1. st.bytes[s] = Bytes(st.ring[s]) /\ st.ring[s] \in Seq(Seqs)
      BY <1>2 DEF Counted
    <3>2. Bytes(Append(st.ring[s], n)) = Bytes(st.ring[s]) + Size[n]
      BY <3>1, BytesAppend
    <3> QED
      BY <1>5, <1>10, <3>1, <3>2
  <2>2. SumOf(st.bytes, st.order) = SumOf(q.bytes, Without(st.order, s)) + st.bytes[s]
    <3>1. Distinct(st.order) /\ st.order \in Seq(Sessions)
      BY <1>2 DEF KeysOnce
    <3>2. s \notin ToSet(st.order) => st.bytes[s] = 0
      BY <1>2, BytesOfNone DEF KeysOnce, Counted
    <3>3. st.bytes \in [Sessions -> Nat] /\ q.bytes \in [Sessions -> Nat]
      BY <1>2, <1>8
    <3>4. \A x \in Sessions : x # s => q.bytes[x] = st.bytes[x]
      BY <1>10
    <3> QED
      BY <3>1, <3>2, <3>3, <3>4, SumWithoutKey
  <2>3. SumOf(q.bytes, q.order) = SumOf(q.bytes, Without(st.order, s)) + q.bytes[s]
    <3>1. q.order = Append(rest, s) /\ q.bytes \in [Sessions -> Nat]
      BY <1>3, <1>6, <1>8
    <3> QED
      BY <1>6, <3>1, SumAppend
  <2>4. SumOf(q.bytes, Without(st.order, s)) \in Nat
    BY <1>6, <1>8, SumInNat
  <2>5. st.total = SumOf(st.bytes, st.order) /\ st.bytes[s] \in Nat
    BY <1>2 DEF Counted
  <2>6. q.total = SumOf(q.bytes, q.order)
    BY <1>3, <1>4, <1>10, <2>2, <2>3, <2>4, <2>5
  <2> QED
    BY <1>2, <1>10, <2>1, <2>6 DEF Counted
<1>13. RingsInOrder(q)
  <2>1. ASSUME NEW x \in Sessions PROVE InOrder(q.ring[x], q.watermark[x])
    <3>1. InOrder(st.ring[x], st.watermark[x]) /\ st.ring[x] \in Seq(Seqs)
      BY <1>2 DEF RingsInOrder
    <3>2. CASE x # s
      BY <1>3, <1>10, <3>1, <3>2
    <3>3. CASE x = s
      <4>1. n \in Nat /\ \A i \in 1 .. Len(st.ring[s]) : st.ring[s][i] \in Nat
        BY <3>1, <3>3, MaxEventsType DEF Seqs
      <4>2. \A i \in 1 .. Len(ring) : ring[i] <= n
        BY <1>1, <1>5, <4>1
      <4>3. ASSUME NEW i \in 1 .. Len(ring), NEW j \in 1 .. Len(ring), i < j
            PROVE  ring[i] < ring[j]
        <5>1. i \in 1 .. Len(st.ring[s])
          BY <1>5, <4>3
        <5>2. CASE j \in 1 .. Len(st.ring[s])
          BY <1>5, <3>1, <3>3, <4>3, <5>1, <5>2 DEF InOrder
        <5>3. CASE j = Len(ring)
          BY <1>1, <1>5, <5>1, <5>3
        <5>4. Len(ring) = Len(st.ring[s]) + 1 /\ Len(st.ring[s]) \in Nat
          BY <1>5, <3>1, <3>3
        <5> QED
          BY <5>2, <5>3, <5>4
      <4>4. InOrder(ring, n)
        BY <4>2, <4>3 DEF InOrder
      <4> QED
        BY <1>1, <1>3, <1>10, <3>3, <4>4
    <3> QED
      BY <3>2, <3>3
  <2> QED
    BY <2>1 DEF RingsInOrder
<1>14. SlotsMarked(q)
  BY <1>2, <1>3 DEF SlotsMarked, HasSlot
<1>15. Accounted(q)
  <2>1. SUFFICES ASSUME NEW x \in Sessions, HasSlot(q, x), x \notin q.gaps
                 PROVE  AccountsFor(q, x, q.watermark[x])
    BY DEF Accounted
  <2>2. HasSlot(st, x) /\ x \notin st.gaps
    BY <1>3, <2>1 DEF HasSlot
  <2>3. CASE x # s
    <3>1. AccountsFor(st, x, st.watermark[x])
      BY <1>1, <2>2, <2>3 DEF AccountedTo
    <3>2. q.base[x] = st.base[x] /\ q.ring[x] = st.ring[x] /\ q.evicted[x] = st.evicted[x]
      BY <1>3, <1>10, <2>3
    <3> QED
      BY <1>3, <3>1, <3>2, SameAccount
  <2>4. CASE x = s
    <3>1. AccountsFor(st, s, n - 1)
      BY <1>1, <2>2, <2>4 DEF AccountedTo
    <3>2. ASSUME NEW m \in q.base[s] + 1 .. n
          PROVE  m \in Kept(q, s) \/ StreamTruncated(q, s, m - 1)
      <4>1. n \in Nat /\ st.base[s] \in Nat /\ q.base[s] = st.base[s]
        BY <1>2, <1>3, MaxEventsType DEF Seqs
      <4>2. CASE m = n
        BY <1>5, <1>10, <4>2 DEF Kept
      <4>3. CASE m # n
        <5>1. m \in st.base[s] + 1 .. n - 1
          BY <4>1, <4>3
        <5>2. m \in Kept(st, s) \/ StreamTruncated(st, s, m - 1)
          BY <3>1, <5>1 DEF AccountsFor
        <5> QED
          BY <1>3, <1>5, <1>10, <5>2 DEF Kept, StreamTruncated
      <4> QED
        BY <4>2, <4>3
    <3> QED
      BY <1>1, <1>3, <2>4, <3>2 DEF AccountsFor
  <2> QED
    BY <2>3, <2>4
<1>16. \A x \in Sessions : x # s => RingFits(q, x)
  BY <1>1, <1>10 DEF RingsFit, RingFits
<1> QED
  BY <1>3, <1>9, <1>11, <1>12, <1>13, <1>14, <1>15, <1>16
  DEF Consistent, Shaped, SameMarks

-----------------------------------------------------------------------------
(* Evicting the oldest events of a ring.                                   *)

LEMMA CutPart ==
  ASSUME NEW ring \in Seq(Seqs), NEW k \in 1 .. Len(ring), NEW mark, InOrder(ring, mark)
  PROVE  /\ Rest(ring, k) \in Seq(Seqs)
         /\ Len(Rest(ring, k)) = Len(ring) - k
         /\ InOrder(Rest(ring, k), mark)
         /\ ring[k] \in Seqs
         /\ \A m \in ToSet(ring) : m \in ToSet(Rest(ring, k)) \/ m <= ring[k]
<1> DEFINE rest == Rest(ring, k)
<1>1. /\ rest \in Seq(Seqs)
      /\ Len(rest) = Len(ring) - k
      /\ \A i \in 1 .. Len(ring) - k : rest[i] = ring[i + k]
  BY DEF Rest
<1> HIDE DEF rest
<1>2. Len(ring) \in Nat /\ k \in Nat
  OBVIOUS
<1>3. InOrder(rest, mark)
  <2>1. \A i \in 1 .. Len(rest) : i + k \in 1 .. Len(ring) /\ rest[i] = ring[i + k]
    BY <1>1, <1>2
  <2>2. \A i \in 1 .. Len(rest) : rest[i] <= mark
    BY <2>1 DEF InOrder
  <2>3. ASSUME NEW i \in 1 .. Len(rest), NEW j \in 1 .. Len(rest), i < j
        PROVE  rest[i] < rest[j]
    <3>1. i + k < j + k
      BY <1>1, <1>2, <2>3
    <3> QED
      BY <2>1, <3>1 DEF InOrder
  <2> QED
    BY <2>2, <2>3 DEF InOrder
<1>4. ASSUME NEW m \in ToSet(ring) PROVE m \in ToSet(rest) \/ m <= ring[k]
  <2>1. PICK i \in 1 .. Len(ring) : m = ring[i]
    BY DEF ToSet
  <2>2. CASE i > k
    <3>1. i - k \in 1 .. Len(rest) /\ (i - k) + k = i
      BY <1>1, <1>2, <2>2
    <3>2. rest[i - k] = m
      BY <1>1, <2>1, <3>1
    <3> QED
      BY <3>1, <3>2 DEF ToSet
  <2>3. CASE i <= k
    <3>1. ring[i] \in Nat
      BY MaxEventsType DEF Seqs
    <3>2. CASE i = k
      BY <2>1, <3>1, <3>2
    <3>3. CASE i < k
      <4>1. ring[i] < ring[k]
        BY <3>3 DEF InOrder
      <4>2. ring[k] \in Nat
        BY MaxEventsType DEF Seqs
      <4> QED
        BY <2>1, <3>1, <4>1, <4>2
    <3> QED
      BY <1>2, <2>3, <3>2, <3>3
  <2> QED
    BY <1>2, <2>2, <2>3
<1> QED
  BY <1>1, <1>3, <1>4 DEF rest

\* q is st without the k oldest events of s.
CutTo(st, s, k, q) ==
  /\ Consistent(q)
  /\ q.order = st.order /\ SameMarks(st, q)
  /\ Bytes(Oldest(st.ring[s], k)) \in Nat
  /\ Len(q.ring[s]) = Len(st.ring[s]) - k
  /\ q.bytes[s] = st.bytes[s] - Bytes(Oldest(st.ring[s], k))
  /\ q.total = st.total - Bytes(Oldest(st.ring[s], k))
  /\ \A x \in Sessions : x # s => q.ring[x] = st.ring[x] /\ q.bytes[x] = st.bytes[x]

LEMMA CutKeeps ==
  ASSUME NEW st, Consistent(st), NEW s \in Sessions, NEW k \in 0 .. Len(st.ring[s]),
         NEW q, q = Cut(st, s, k)
  PROVE  CutTo(st, s, k, q)
<1> SUFFICES /\ Consistent(q)
             /\ q.order = st.order /\ SameMarks(st, q)
             /\ Bytes(Oldest(st.ring[s], k)) \in Nat
             /\ Len(q.ring[s]) = Len(st.ring[s]) - k
             /\ q.bytes[s] = st.bytes[s] - Bytes(Oldest(st.ring[s], k))
             /\ q.total = st.total - Bytes(Oldest(st.ring[s], k))
             /\ \A x \in Sessions : x # s => q.ring[x] = st.ring[x] /\ q.bytes[x] = st.bytes[x]
  BY DEF CutTo
<1>1. Shaped(st) /\ Accounted(st)
  BY DEF Consistent
<1>2. /\ st \in Streams
      /\ KeysOnce(st) /\ Counted(st) /\ RingsInOrder(st) /\ SlotsMarked(st)
      /\ st.slots \in Seq(Sessions) /\ st.order \in Seq(Sessions)
      /\ st.watermark \in [Sessions -> 0 .. MaxEvents]
      /\ st.ring \in [Sessions -> Seq(Seqs)]
      /\ st.bytes \in [Sessions -> Nat]
      /\ st.total \in Nat
      /\ st.evicted \in [Sessions -> 0 .. MaxEvents]
      /\ st.gaps \in SUBSET Sessions
      /\ st.base \in [Sessions -> 0 .. MaxEvents]
  BY <1>1, StreamParts
<1>3. PICK ring \in Seq(Seqs) : ring = st.ring[s]
  BY <1>2
<1>4. PICK freed, rest : freed = Bytes(Oldest(ring, k)) /\ rest = Rest(ring, k)
  OBVIOUS
<1>5. /\ freed \in Nat /\ Bytes(rest) \in Nat /\ Bytes(ring) = freed + Bytes(rest)
      /\ st.bytes[s] = Bytes(ring)
  <2>1. k \in 0 .. Len(ring)
    BY <1>3
  <2>2. st.bytes[s] = Bytes(ring)
    BY <1>2, <1>3 DEF Counted
  <2> QED
    BY <1>4, <2>1, <2>2, BytesSplit
<1>6. CASE k = 0
  <2>1. q = st
    BY <1>6 DEF Cut
  <2>2. freed = 0
    <3>1. Oldest(ring, 0) = <<>>
      BY DEF Oldest
    <3> QED
      BY <1>4, <1>6, <3>1, BytesOfNone
  <2>3. Len(ring) - 0 = Len(ring) /\ st.total - 0 = st.total /\ st.bytes[s] - 0 = st.bytes[s]
    BY <1>2, <1>3
  <2>4. SameMarks(st, q)
    BY <2>1 DEF SameMarks
  <2> QED
    BY <1>3, <1>4, <1>5, <1>6, <2>1, <2>2, <2>3, <2>4
<1>7. CASE k # 0
  <2>1. k \in 1 .. Len(ring)
    BY <1>3, <1>7
  <2>2. /\ q.slots = st.slots /\ q.watermark = st.watermark /\ q.order = st.order
        /\ q.gaps = st.gaps /\ q.base = st.base
        /\ q.ring = [st.ring EXCEPT ![s] = rest]
        /\ q.bytes = [st.bytes EXCEPT ![s] = st.bytes[s] - freed]
        /\ q.total = st.total - freed
        /\ q.evicted = [st.evicted EXCEPT ![s] = Later(st.evicted[s], ring[k])]
        /\ Whole(q)
    <3>1. st = [slots |-> st.slots, watermark |-> st.watermark, ring |-> st.ring,
                order |-> st.order, bytes |-> st.bytes, total |-> st.total,
                evicted |-> st.evicted, gaps |-> st.gaps, base |-> st.base]
      BY <1>2, StreamIsWhole DEF Whole
    <3>2. q = [st EXCEPT !.ring[s] = Rest(@, k), !.bytes[s] = @ - freed,
                         !.total = @ - freed, !.evicted[s] = Later(@, ring[k])]
      BY <1>3, <1>4, <1>7 DEF Cut
    <3>3. rest = Rest(st.ring[s], k)
      BY <1>3, <1>4
    <3> QED
      BY <3>1, <3>2, <3>3 DEF Whole
  <2>3. /\ rest \in Seq(Seqs)
        /\ Len(rest) = Len(ring) - k
        /\ InOrder(rest, st.watermark[s])
        /\ ring[k] \in Seqs
        /\ \A m \in ToSet(ring) : m \in ToSet(rest) \/ m <= ring[k]
        /\ rest # <<>> => ring # <<>>
    <3>1. InOrder(ring, st.watermark[s])
      BY <1>2, <1>3 DEF RingsInOrder
    <3>2. /\ Rest(ring, k) \in Seq(Seqs)
          /\ Len(Rest(ring, k)) = Len(ring) - k
          /\ InOrder(Rest(ring, k), st.watermark[s])
          /\ ring[k] \in Seqs
          /\ \A m \in ToSet(ring) : m \in ToSet(Rest(ring, k)) \/ m <= ring[k]
      BY <2>1, <3>1, CutPart
    <3>3. rest = Rest(ring, k)
      BY <1>4
    <3> QED
      BY <2>1, <3>2, <3>3
  <2>4. ring[k] \in 0 .. MaxEvents /\ st.evicted[s] \in 0 .. MaxEvents
    BY <1>2, <2>3, MaxEventsType DEF Seqs
  <2>5. /\ Later(st.evicted[s], ring[k]) \in 0 .. MaxEvents
        /\ Later(st.evicted[s], ring[k]) >= st.evicted[s]
        /\ Later(st.evicted[s], ring[k]) >= ring[k]
    BY <2>4, LaterType
  <2>6. st.bytes[s] - freed = Bytes(rest)
    BY <1>5
  <2>7. /\ q.ring \in [Sessions -> Seq(Seqs)]
        /\ q.bytes \in [Sessions -> Nat]
        /\ q.evicted \in [Sessions -> 0 .. MaxEvents]
    <3>1. q.ring \in [Sessions -> Seq(Seqs)]
      BY <1>2, <2>2, <2>3
    <3>2. q.bytes \in [Sessions -> Nat]
      BY <1>2, <1>5, <2>2, <2>6
    <3>3. q.evicted \in [Sessions -> 0 .. MaxEvents]
      BY <1>2, <2>2, <2>5
    <3> QED
      BY <3>1, <3>2, <3>3
  <2>8. /\ q.ring[s] = rest /\ q.bytes[s] = Bytes(rest)
        /\ q.evicted[s] = Later(st.evicted[s], ring[k])
        /\ \A x \in Sessions : x # s => /\ q.ring[x] = st.ring[x]
                                        /\ q.bytes[x] = st.bytes[x]
                                        /\ q.evicted[x] = st.evicted[x]
    BY <1>2, <2>2, <2>6
  <2>9. q.total = SumOf(q.bytes, q.order) /\ q.total \in Nat
    <3>1. s \notin ToSet(st.order) => q.bytes[s] = st.bytes[s]
      <4>1. s \notin ToSet(st.order) => ring = <<>>
        BY <1>2, <1>3 DEF KeysOnce
      <4>2. ring = <<>> => rest = <<>>
        BY <2>3
      <4> QED
        BY <1>5, <2>8, <4>1, <4>2
    <3>2. st.order \in Seq(Sessions) /\ Distinct(st.order)
      BY <1>2 DEF KeysOnce
    <3>3. st.bytes \in [Sessions -> Nat] /\ q.bytes \in [Sessions -> Nat]
      BY <1>2, <2>7
    <3>4. \A x \in Sessions : x # s => q.bytes[x] = st.bytes[x]
      BY <2>8
    <3>5. SumOf(q.bytes, st.order) = SumOf(st.bytes, st.order) + (q.bytes[s] - st.bytes[s])
      BY <3>1, <3>2, <3>3, <3>4, SumChanged
    <3>6. SumOf(q.bytes, st.order) \in Nat
      BY <3>2, <3>3, SumInNat
    <3>7. st.total = SumOf(st.bytes, st.order)
      BY <1>2 DEF Counted
    <3>8. q.bytes[s] - st.bytes[s] = 0 - freed
      BY <1>5, <2>8
    <3>9. q.total = SumOf(q.bytes, st.order)
      BY <1>2, <1>5, <2>2, <3>5, <3>7, <3>8
    <3> QED
      BY <2>2, <3>6, <3>9
  <2>10. q \in Streams
    BY <1>2, <2>2, <2>7, <2>9, WholeIsStream
  <2>11. KeysOnce(q)
    BY <1>2, <1>3, <2>2, <2>3, <2>8 DEF KeysOnce
  <2>12. Counted(q)
    BY <1>2, <2>8, <2>9 DEF Counted
  <2>13. RingsInOrder(q)
    BY <1>2, <2>2, <2>3, <2>8 DEF RingsInOrder
  <2>14. SlotsMarked(q)
    BY <1>2, <2>2 DEF SlotsMarked, HasSlot
  <2>15. Accounted(q)
    <3>1. SUFFICES ASSUME NEW x \in Sessions, HasSlot(q, x), x \notin q.gaps
                   PROVE  AccountsFor(q, x, q.watermark[x])
      BY DEF Accounted
    <3>2. AccountsFor(st, x, q.watermark[x])
      BY <1>1, <2>2, <3>1 DEF Accounted, HasSlot
    <3>3. q.base[x] = st.base[x] /\ st.base[x] \in Nat
      BY <1>2, <2>2, MaxEventsType
    <3>4. CASE x # s
      BY <2>8, <3>2, <3>3, <3>4, SameAccount
    <3>5. CASE x = s
      <4>1. ASSUME NEW m \in Nat, m \in Kept(st, s) \/ m - 1 < st.evicted[s]
            PROVE  m \in Kept(q, s) \/ m - 1 < q.evicted[s]
        <5>1. q.evicted[s] \in Int /\ q.evicted[s] >= st.evicted[s] /\ q.evicted[s] >= ring[k]
                /\ ring[k] \in Int /\ st.evicted[s] \in Int
          BY <2>4, <2>5, <2>8, MaxEventsType
        <5>2. CASE m \in Kept(st, s)
          <6>1. m \in ToSet(rest) \/ m <= ring[k]
            BY <1>3, <2>3, <5>2 DEF Kept
          <6> QED
            BY <2>8, <5>1, <6>1 DEF Kept
        <5>3. CASE m - 1 < st.evicted[s]
          BY <5>1, <5>3
        <5> QED
          BY <4>1, <5>2, <5>3
      <4> QED
        BY <3>2, <3>3, <3>5, <4>1, AccountsKept
    <3> QED
      BY <3>4, <3>5
  <2> QED
    BY <1>3, <1>4, <1>5, <2>2, <2>3, <2>6, <2>8, <2>10, <2>11, <2>12, <2>13, <2>14, <2>15
       DEF Consistent, Shaped, SameMarks
<1> QED
  BY <1>6, <1>7

LEMMA CutIs ==
  ASSUME NEW st, Consistent(st), NEW s \in Sessions, NEW k \in 0 .. Len(st.ring[s])
  PROVE  /\ Consistent(Cut(st, s, k))
         /\ Cut(st, s, k).order = st.order /\ SameMarks(st, Cut(st, s, k))
         /\ Bytes(Oldest(st.ring[s], k)) \in Nat
         /\ Len(Cut(st, s, k).ring[s]) = Len(st.ring[s]) - k
         /\ Cut(st, s, k).bytes[s] = st.bytes[s] - Bytes(Oldest(st.ring[s], k))
         /\ Cut(st, s, k).total = st.total - Bytes(Oldest(st.ring[s], k))
         /\ \A x \in Sessions : x # s => Cut(st, s, k).ring[x] = st.ring[x] /\ Cut(st, s, k).bytes[x] = st.bytes[x]
<1>1. PICK q : q = Cut(st, s, k)
  OBVIOUS
<1>2. CutTo(st, s, k, q)
  BY <1>1, CutKeeps
<1> QED
  BY <1>1, <1>2 DEF CutTo

LEMMA TrimmedKeeps ==
  ASSUME NEW st, Consistent(st), NEW s \in Sessions, \A x \in Sessions : x # s => RingFits(st, x),
         NEW q, q = Trimmed(st, s)
  PROVE  Consistent(q) /\ RingsFit(q) /\ SameMarks(st, q)
<1>1. /\ st.ring[s] \in Seq(Seqs) /\ Len(st.ring[s]) \in Nat
      /\ st.bytes[s] \in Nat /\ st.bytes[s] = Bytes(st.ring[s])
  BY StreamParts DEF Consistent, Counted
<1> DEFINE T == {k \in 0 .. Len(st.ring[s]) :
                   /\ Len(st.ring[s]) - k <= BufferMax
                   /\ st.bytes[s] - Bytes(Oldest(st.ring[s], k)) <= BufferBytes}
<1>2. T \subseteq Nat
  BY <1>1
<1>3. Len(st.ring[s]) \in T
  <2>1. Bytes(Oldest(st.ring[s], Len(st.ring[s]))) = st.bytes[s]
    BY <1>1, BytesOfWhole
  <2> QED
    BY <1>1, <2>1, BudgetTypes
<1>4. Min(T) \in T
  <2> HIDE DEF T
  <2> QED
    BY <1>2, <1>3, MinInSet
<1>5. PICK k \in 0 .. Len(st.ring[s]) :
        /\ q = Cut(st, s, k)
        /\ Len(st.ring[s]) - k <= BufferMax
        /\ st.bytes[s] - Bytes(Oldest(st.ring[s], k)) <= BufferBytes
  <2>1. q = Cut(st, s, Min(T))
    BY DEF Trimmed
  <2> QED
    BY <1>4, <2>1
<1>6. q = Cut(st, s, k)
  BY <1>5
<1> HIDE DEF T
<1>7. /\ Consistent(q) /\ SameMarks(st, q)
      /\ Len(q.ring[s]) = Len(st.ring[s]) - k
      /\ q.bytes[s] = st.bytes[s] - Bytes(Oldest(st.ring[s], k))
      /\ \A x \in Sessions : x # s => q.ring[x] = st.ring[x] /\ q.bytes[x] = st.bytes[x]
  <2>1. Consistent(Cut(st, s, k)) /\ SameMarks(st, Cut(st, s, k)) /\ Cut(st, s, k).order = st.order
    BY CutIs
  <2>2. Bytes(Oldest(st.ring[s], k)) \in Nat
    BY CutIs
  <2>3. Len(Cut(st, s, k).ring[s]) = Len(st.ring[s]) - k
    BY CutIs
  <2>4. Cut(st, s, k).bytes[s] = st.bytes[s] - Bytes(Oldest(st.ring[s], k))
    BY CutIs
  <2>5. Cut(st, s, k).total = st.total - Bytes(Oldest(st.ring[s], k))
    BY CutIs
  <2>6. \A x \in Sessions : x # s =>
          Cut(st, s, k).ring[x] = st.ring[x] /\ Cut(st, s, k).bytes[x] = st.bytes[x]
    BY CutIs
  <2> QED
    BY <1>6, <2>1, <2>2, <2>3, <2>4, <2>5, <2>6
<1>8. Len(q.ring[s]) <= BufferMax /\ q.bytes[s] <= BufferBytes
  BY <1>5, <1>7
<1>9. RingsFit(q)
  BY <1>7, <1>8 DEF RingsFit, RingFits
<1> QED
  BY <1>7, <1>9

\* The budget of all sessions, for one of them: q is st after it.
Relief(st, s, q) ==
  /\ Consistent(q) /\ RingsFit(q)
  /\ SameMarks(st, q) /\ q.order = st.order
  /\ q.total <= st.total
  /\ q.ring[s] = <<>> \/ q.total <= TotalBytes
  /\ \A x \in Sessions : x # s => q.ring[x] = st.ring[x]
  /\ st.ring[s] = <<>> => q.ring[s] = <<>>

LEMMA RelievedKeeps ==
  ASSUME NEW st, Consistent(st), RingsFit(st), NEW s \in Sessions, NEW q, q = Relieved(st, s)
  PROVE  Relief(st, s, q)
<1>1. /\ st.ring[s] \in Seq(Seqs) /\ Len(st.ring[s]) \in Nat
      /\ st.bytes[s] \in Nat /\ st.total \in Nat
  BY StreamParts DEF Consistent
<1> DEFINE T == {k \in 0 .. Len(st.ring[s]) :
                   \/ k = Len(st.ring[s])
                   \/ st.total - Bytes(Oldest(st.ring[s], k)) <= TotalBytes}
<1>2. T \subseteq Nat
  BY <1>1
<1>3. Len(st.ring[s]) \in T
  BY <1>1
<1>4. Min(T) \in T
  <2> HIDE DEF T
  <2> QED
    BY <1>2, <1>3, MinInSet
<1>5. PICK k \in 0 .. Len(st.ring[s]) :
        /\ q = Cut(st, s, k)
        /\ \/ k = Len(st.ring[s])
           \/ st.total - Bytes(Oldest(st.ring[s], k)) <= TotalBytes
  <2>1. q = Cut(st, s, Min(T))
    BY DEF Relieved
  <2> QED
    BY <1>4, <2>1
<1>6. q = Cut(st, s, k)
  BY <1>5
<1> HIDE DEF T
<1>7. /\ Consistent(q) /\ SameMarks(st, q) /\ q.order = st.order
      /\ Bytes(Oldest(st.ring[s], k)) \in Nat
      /\ Len(q.ring[s]) = Len(st.ring[s]) - k
      /\ q.bytes[s] = st.bytes[s] - Bytes(Oldest(st.ring[s], k))
      /\ q.total = st.total - Bytes(Oldest(st.ring[s], k))
      /\ \A x \in Sessions : x # s => q.ring[x] = st.ring[x] /\ q.bytes[x] = st.bytes[x]
  <2>1. Consistent(Cut(st, s, k)) /\ SameMarks(st, Cut(st, s, k)) /\ Cut(st, s, k).order = st.order
    BY CutIs
  <2>2. Bytes(Oldest(st.ring[s], k)) \in Nat
    BY CutIs
  <2>3. Len(Cut(st, s, k).ring[s]) = Len(st.ring[s]) - k
    BY CutIs
  <2>4. Cut(st, s, k).bytes[s] = st.bytes[s] - Bytes(Oldest(st.ring[s], k))
    BY CutIs
  <2>5. Cut(st, s, k).total = st.total - Bytes(Oldest(st.ring[s], k))
    BY CutIs
  <2>6. \A x \in Sessions : x # s =>
          Cut(st, s, k).ring[x] = st.ring[x] /\ Cut(st, s, k).bytes[x] = st.bytes[x]
    BY CutIs
  <2> QED
    BY <1>6, <2>1, <2>2, <2>3, <2>4, <2>5, <2>6
<1>8. Len(q.ring[s]) <= Len(st.ring[s]) /\ q.bytes[s] <= st.bytes[s] /\ q.total <= st.total
  BY <1>1, <1>6, <1>7
<1>9. RingsFit(q)
  <2>1. Len(q.ring[s]) <= BufferMax /\ q.bytes[s] <= BufferBytes
    <3>1. Len(st.ring[s]) <= BufferMax /\ st.bytes[s] <= BufferBytes
      BY DEF RingsFit
    <3>2. Len(st.ring[s]) - k \in Int /\ st.bytes[s] - Bytes(Oldest(st.ring[s], k)) \in Int
      BY <1>1, <1>6, <1>7
    <3> QED
      BY <1>1, <1>7, <1>8, <3>1, <3>2, BudgetTypes
  <2> QED
    BY <1>7, <2>1 DEF RingsFit
<1>10. q.ring[s] \in Seq(Seqs)
  BY <1>7, StreamParts DEF Consistent
<1>11. q.ring[s] = <<>> \/ q.total <= TotalBytes
  <2>1. CASE k = Len(st.ring[s])
    <3>1. Len(q.ring[s]) = 0
      BY <1>1, <1>7, <2>1
    <3> QED
      BY <1>10, <3>1
  <2>2. CASE k # Len(st.ring[s])
    BY <1>5, <1>7, <2>2
  <2> QED
    BY <2>1, <2>2
<1>12. st.ring[s] = <<>> => q.ring[s] = <<>>
  <2>1. ASSUME st.ring[s] = <<>> PROVE Len(q.ring[s]) = 0
    BY <1>6, <1>7, <2>1
  <2> QED
    BY <1>10, <2>1
<1> QED
  BY <1>7, <1>8, <1>9, <1>11, <1>12 DEF Relief

\* The streams that an eviction for the sake of the total may lead to.
Relievable(order, first) ==
  {x \in Streams : Consistent(x) /\ RingsFit(x) /\ x.order = order /\ SameMarks(first, x)}

\* Nothing is left where relief was sought in vain.
Exhausted(st, i) == \A j \in 1 .. i : st.ring[st.order[j]] = <<>>

LEMMA RelievedGoesOn ==
  ASSUME NEW order \in Seq(Sessions), NEW first, NEW st \in Relievable(order, first),
         NEW i \in 1 .. Len(order), NEW q, q = Relieved(st, order[i])
  PROVE  /\ q \in Relievable(order, first)
         /\ st.total <= TotalBytes => q.total <= TotalBytes
         /\ Exhausted(st, i - 1) => Exhausted(q, i) \/ q.total <= TotalBytes
<1>1. PICK s \in Sessions : s = order[i]
  OBVIOUS
<1>2. Consistent(st) /\ RingsFit(st) /\ st.order = order /\ SameMarks(first, st)
  BY DEF Relievable
<1>3. q = Relieved(st, s)
  BY <1>1
<1>4. /\ Consistent(q) /\ RingsFit(q)
      /\ SameMarks(st, q) /\ q.order = st.order
      /\ q.total <= st.total
      /\ q.ring[s] = <<>> \/ q.total <= TotalBytes
      /\ \A x \in Sessions : x # s => q.ring[x] = st.ring[x]
      /\ st.ring[s] = <<>> => q.ring[s] = <<>>
  <2>1. Relief(st, s, q)
    BY <1>2, <1>3, RelievedKeeps
  <2> QED
    BY <2>1 DEF Relief
<1>5. q \in Streams /\ q.total \in Nat /\ st.total \in Nat
  BY <1>2, <1>4, StreamParts DEF Consistent
<1>6. ASSUME Exhausted(st, i - 1), q.ring[s] = <<>> PROVE Exhausted(q, i)
  <2>1. ASSUME NEW j \in 1 .. i PROVE q.ring[order[j]] = <<>>
    <3>1. order[j] \in Sessions
      OBVIOUS
    <3>2. CASE order[j] = s
      BY <1>6, <3>2
    <3>3. CASE order[j] # s
      <4>1. j \in 1 .. i - 1
        BY <1>1, <3>3
      <4>2. st.ring[order[j]] = <<>>
        BY <1>2, <1>6, <4>1 DEF Exhausted
      <4> QED
        BY <1>4, <3>1, <3>3, <4>2
    <3> QED
      BY <3>2, <3>3
  <2> QED
    BY <1>2, <1>4, <2>1 DEF Exhausted
<1>7. st.total <= TotalBytes => q.total <= TotalBytes
  BY <1>4, <1>5, BudgetTypes
<1> QED
  BY <1>2, <1>4, <1>5, <1>6, <1>7 DEF Relievable, SameMarks

\* Session by session, until the total is within its budget or all rings are empty.
LEMMA TotalTrimmedKeeps ==
  ASSUME NEW st, Consistent(st), RingsFit(st), NEW q, q = TotalTrimmed(st)
  PROVE  StreamInv(q) /\ SameMarks(st, q)
<1>1. st \in Streams /\ st.order \in Seq(Sessions)
  BY StreamParts DEF Consistent
<1>2. PICK order \in Seq(Sessions) : order = st.order
  BY <1>1
<1>3. PICK n \in Nat : n = Len(order)
  OBVIOUS
<1>4. PICK first : first = st
  OBVIOUS
<1>5. order = st.order /\ first = st /\ n = Len(order)
  BY <1>2, <1>3, <1>4
<1> DEFINE V == Relievable(order, first)
           F == [i \in 1 .. n |-> [x \in V |-> Relieved(x, order[i])]]
           acc == CHOOSE g : g = [i \in 0 .. n |->
                                    IF i = 0 THEN st ELSE Relieved(g[i - 1], order[i])]
<1>6. st \in V
  BY <1>1, <1>5 DEF Relievable, SameMarks
<1>7. \A i \in 1 .. n, x \in V : Relieved(x, order[i]) \in V
  BY <1>5, RelievedGoesOn
<1>8. PICK f \in [0 .. n -> V] : RunOf(f, F, st, n)
  <2>1. F \in [1 .. n -> [V -> V]]
    <3> HIDE DEF V
    <3> QED
      BY <1>7
  <2> HIDE DEF F, V
  <2> QED
    BY <1>6, <2>1, Recursion
<1> HIDE DEF V
<1>9. f[0] = st /\ \A i \in 1 .. n : f[i] = Relieved(f[i - 1], order[i])
  <2>1. ASSUME NEW i \in 1 .. n PROVE f[i] = Relieved(f[i - 1], order[i])
    <3>1. f[i - 1] \in V
      BY <1>5
    <3> QED
      BY <1>8, <3>1 DEF RunOf
  <2> QED
    BY <1>8, <2>1 DEF RunOf
<1>10. f = [i \in 0 .. n |-> IF i = 0 THEN st ELSE Relieved(f[i - 1], order[i])]
  BY <1>9
<1>11. acc = [i \in 0 .. n |-> IF i = 0 THEN st ELSE Relieved(acc[i - 1], order[i])]
  BY <1>10
<1>12. q = acc[n]
  BY <1>5 DEF TotalTrimmed
<1> HIDE DEF acc, F
<1>13. acc[0] = st /\ \A i \in 1 .. n : acc[i] = Relieved(acc[i - 1], order[i])
  BY <1>11
<1> DEFINE T == {i \in 0 .. n : /\ acc[i] \in V
                                /\ acc[i].total <= TotalBytes \/ Exhausted(acc[i], i)}
<1>14. 0 \in T
  BY <1>6, <1>13 DEF Exhausted
<1>15. ASSUME NEW i \in 1 .. n, i - 1 \in T PROVE i \in T
  <2>1. PICK before, after : before = acc[i - 1] /\ after = acc[i]
    OBVIOUS
  <2>2. before \in V /\ (before.total <= TotalBytes \/ Exhausted(before, i - 1))
    BY <1>15, <2>1
  <2>3. after = Relieved(before, order[i]) /\ i \in 1 .. Len(order)
    BY <1>5, <1>13, <2>1
  <2>4. /\ after \in V
        /\ before.total <= TotalBytes => after.total <= TotalBytes
        /\ Exhausted(before, i - 1) => Exhausted(after, i) \/ after.total <= TotalBytes
    BY <2>2, <2>3, RelievedGoesOn DEF V
  <2> QED
    BY <2>1, <2>2, <2>4
<1> HIDE DEF T
<1>16. n \in T
  <2>1. \A i \in 0 .. n : i \in T
    BY <1>14, <1>15, Induct
  <2> QED
    BY <2>1
<1>17. q \in V /\ (q.total <= TotalBytes \/ Exhausted(q, n))
  BY <1>12, <1>16 DEF T
<1>18. Consistent(q) /\ RingsFit(q) /\ q.order = order /\ SameMarks(st, q)
  BY <1>5, <1>17 DEF V, Relievable
<1>19. q.total <= TotalBytes
  <2>1. ASSUME Exhausted(q, n) PROVE q.total = 0
    <3>1. /\ q.total = SumOf(q.bytes, q.order) /\ q.bytes \in [Sessions -> Nat]
          /\ \A s \in Sessions : q.bytes[s] = Bytes(q.ring[s])
      BY <1>18, StreamParts DEF Consistent, Counted
    <3>2. \A i \in 1 .. Len(order) : q.bytes[order[i]] = 0
      BY <1>5, <1>18, <2>1, <3>1, BytesOfNone DEF Exhausted
    <3>3. SumOf(q.bytes, order) = 0
      BY <3>1, <3>2, SumOfNothing
    <3> QED
      BY <1>18, <3>1, <3>3
  <2> QED
    BY <1>17, <2>1, BudgetTypes
<1> QED
  BY <1>18, <1>19 DEF StreamInv

-----------------------------------------------------------------------------
(* _accept_event.                                                          *)

LEMMA AcceptedKeeps ==
  ASSUME NEW st, StreamInv(st), NEW s \in Sessions, NEW n \in Seqs, Acceptable(st, s, n, FALSE),
         NEW q, q = Accepted(st, s, n)
  PROVE  StreamInv(q) /\ Marked(st, s, n, q)
<1>1. PICK seen : seen = Seen(st, s, n)
  OBVIOUS
<1>2. Moved(seen, s, n) /\ Marked(st, s, n, seen)
  BY <1>1, SeenMoves
<1>3. CASE Size[n] > BufferBytes
  <2>1. q = [seen EXCEPT !.evicted[s] = Later(@, n)]
    BY <1>1, <1>3 DEF Accepted
  <2>2. StreamInv(q) /\ SameMarks(seen, q)
    BY <1>2, <2>1, OversizeKeeps
  <2> QED
    BY <1>2, <2>2 DEF Marked, SameMarks, SlotKept, HasSlot
<1>4. CASE ~(Size[n] > BufferBytes)
  <2>1. PICK pushed, trimmed : pushed = Pushed(seen, s, n) /\ trimmed = Trimmed(pushed, s)
    OBVIOUS
  <2>2. q = TotalTrimmed(trimmed)
    BY <1>1, <1>4, <2>1 DEF Accepted
  <2>3. /\ Consistent(pushed) /\ SameMarks(seen, pushed)
        /\ \A x \in Sessions : x # s => RingFits(pushed, x)
    BY <1>2, <2>1, PushedKeeps
  <2>4. Consistent(trimmed) /\ RingsFit(trimmed) /\ SameMarks(pushed, trimmed)
    BY <2>1, <2>3, TrimmedKeeps
  <2>5. StreamInv(q) /\ SameMarks(trimmed, q)
    BY <2>2, <2>4, TotalTrimmedKeeps
  <2> QED
    BY <1>2, <2>3, <2>4, <2>5 DEF Marked, SameMarks, SlotKept, HasSlot
<1> QED
  BY <1>3, <1>4

\* What a replay's events lead to.
Accepting(s, first) ==
  {x \in [ok : BOOLEAN, st : Streams] :
     /\ StreamInv(x.st)
     /\ s \in first.gaps => s \in x.st.gaps
     /\ \A o \in Sessions : o # s => SlotKept(first, x.st, o)}

LEMMA AcceptedGoesOn ==
  ASSUME NEW s \in Sessions, NEW gap \in BOOLEAN, NEW first, gap => s \in first.gaps,
         NEW x \in Accepting(s, first), NEW n \in Seqs, NEW y, y = AcceptedNext(x, s, n, gap)
  PROVE  /\ y \in Accepting(s, first)
         /\ y.ok => HasSlot(y.st, s) /\ y.st.watermark[s] = n
<1>1. /\ StreamInv(x.st) /\ x.st \in Streams
      /\ s \in first.gaps => s \in x.st.gaps
      /\ \A o \in Sessions : o # s => SlotKept(first, x.st, o)
  BY DEF Accepting
<1>2. CASE x.ok /\ Acceptable(x.st, s, n, gap)
  <2>1. Acceptable(x.st, s, n, FALSE)
    BY <1>1, <1>2 DEF Acceptable
  <2>2. PICK st, q : st = x.st /\ q = Accepted(st, s, n)
    OBVIOUS
  <2>3. StreamInv(q) /\ Marked(st, s, n, q)
    <3>1. StreamInv(st) /\ Acceptable(st, s, n, FALSE) /\ q = Accepted(st, s, n)
      BY <1>1, <2>1, <2>2
    <3> QED
      BY <3>1, AcceptedKeeps
  <2>4. q \in Streams
    BY <2>3 DEF StreamInv, Consistent, Shaped
  <2>5. y = [ok |-> TRUE, st |-> q]
    BY <1>2, <2>2 DEF AcceptedNext
  <2>6. \A o \in Sessions : o # s => SlotKept(first, q, o)
    BY <1>1, <2>2, <2>3 DEF Marked, SlotKept
  <2>7. /\ s \in first.gaps => s \in q.gaps
        /\ HasSlot(q, s) /\ q.watermark[s] = n
    BY <1>1, <2>2, <2>3 DEF Marked
  <2> QED
    BY <2>3, <2>4, <2>5, <2>6, <2>7 DEF Accepting
<1>3. CASE ~(x.ok /\ Acceptable(x.st, s, n, gap))
  <2>1. y = [ok |-> FALSE, st |-> x.st]
    BY <1>3 DEF AcceptedNext
  <2> QED
    BY <1>1, <2>1 DEF Accepting
<1> QED
  BY <1>2, <1>3

\* The events of a replay: when all of them are accepted, the last one counts.
ReplayEnds(st, s, seqs, q) ==
  /\ q \in Accepting(s, st)
  /\ seqs = <<>> => q.st = st
  /\ q.ok /\ seqs # <<>> => HasSlot(q.st, s) /\ q.st.watermark[s] = seqs[Len(seqs)]

LEMMA AcceptedAllKeeps ==
  ASSUME NEW st, StreamInv(st), NEW s \in Sessions, NEW seqs \in Seq(Seqs), NEW gap \in BOOLEAN,
         gap => s \in st.gaps, NEW q, q = AcceptedAll(st, s, seqs, gap)
  PROVE  ReplayEnds(st, s, seqs, q)
<1>1. PICK n \in Nat : n = Len(seqs)
  OBVIOUS
<1> DEFINE V == Accepting(s, st)
           start == [ok |-> TRUE, st |-> st]
           F == [i \in 1 .. n |-> [x \in V |-> AcceptedNext(x, s, seqs[i], gap)]]
           acc == CHOOSE g : g = [i \in 0 .. n |->
                                    IF i = 0 THEN start ELSE AcceptedNext(g[i - 1], s, seqs[i], gap)]
<1>2. start \in V
  <2>1. st \in Streams
    BY DEF StreamInv, Consistent, Shaped
  <2> QED
    BY <2>1 DEF Accepting, SlotKept
<1>3. \A i \in 1 .. n : seqs[i] \in Seqs
  BY <1>1
<1>4. \A i \in 1 .. n, x \in V : AcceptedNext(x, s, seqs[i], gap) \in V
  BY <1>3, AcceptedGoesOn
<1>5. PICK f \in [0 .. n -> V] : RunOf(f, F, start, n)
  <2>1. F \in [1 .. n -> [V -> V]]
    <3> HIDE DEF V
    <3> QED
      BY <1>4
  <2> HIDE DEF F, V, start
  <2> QED
    BY <1>2, <2>1, Recursion
<1> HIDE DEF V, start
<1>6. f[0] = start /\ \A i \in 1 .. n : f[i] = AcceptedNext(f[i - 1], s, seqs[i], gap)
  <2>1. ASSUME NEW i \in 1 .. n PROVE f[i] = AcceptedNext(f[i - 1], s, seqs[i], gap)
    <3>1. f[i - 1] \in V
      BY <1>1
    <3> QED
      BY <1>5, <3>1 DEF RunOf
  <2> QED
    BY <1>5, <2>1 DEF RunOf
<1>7. f = [i \in 0 .. n |-> IF i = 0 THEN start ELSE AcceptedNext(f[i - 1], s, seqs[i], gap)]
  BY <1>6
<1>8. acc = [i \in 0 .. n |-> IF i = 0 THEN start ELSE AcceptedNext(acc[i - 1], s, seqs[i], gap)]
  BY <1>7
<1>9. q = acc[n]
  BY <1>1 DEF AcceptedAll, start
<1> HIDE DEF acc, F
<1>10. acc[0] = start /\ \A i \in 1 .. n : acc[i] = AcceptedNext(acc[i - 1], s, seqs[i], gap)
  BY <1>8
<1> DEFINE T == {i \in 0 .. n : acc[i] \in V}
<1>11. 0 \in T
  BY <1>2, <1>10
<1>12. ASSUME NEW i \in 1 .. n, i - 1 \in T PROVE i \in T
  BY <1>4, <1>10, <1>12
<1> HIDE DEF T
<1>13. \A i \in 0 .. n : i \in T
  BY <1>11, <1>12, Induct
<1>14. \A i \in 0 .. n : acc[i] \in V
  BY <1>13 DEF T
<1>15. CASE n = 0
  <2>1. seqs = <<>> /\ q = start
    BY <1>1, <1>9, <1>10, <1>15
  <2> QED
    BY <1>2, <2>1 DEF ReplayEnds, V, start
<1>16. CASE n # 0
  <2>1. n \in 1 .. n /\ n - 1 \in 0 .. n /\ seqs # <<>>
    BY <1>1, <1>16
  <2>2. PICK x : x = acc[n - 1]
    OBVIOUS
  <2>3. x \in Accepting(s, st) /\ q = AcceptedNext(x, s, seqs[n], gap) /\ seqs[n] \in Seqs
    BY <1>3, <1>9, <1>10, <1>14, <2>1, <2>2 DEF V
  <2>4. q \in Accepting(s, st) /\ (q.ok => HasSlot(q.st, s) /\ q.st.watermark[s] = seqs[n])
    BY <2>3, AcceptedGoesOn
  <2> QED
    BY <1>1, <2>1, <2>4 DEF ReplayEnds
<1> QED
  BY <1>15, <1>16

\* Marking a session as one whose events may have gaps.
LEMMA GapAllowedKeeps ==
  ASSUME NEW st, StreamInv(st), NEW s \in Sessions, NEW q, q = [st EXCEPT !.gaps = @ \cup {s}]
  PROVE  StreamInv(q) /\ s \in q.gaps
<1>1. /\ st \in Streams
      /\ KeysOnce(st) /\ Counted(st) /\ RingsInOrder(st) /\ SlotsMarked(st)
      /\ Accounted(st) /\ RingsFit(st) /\ st.total <= TotalBytes
  BY DEF StreamInv, Consistent, Shaped
<1>2. /\ q.slots = st.slots /\ q.watermark = st.watermark /\ q.ring = st.ring
      /\ q.order = st.order /\ q.bytes = st.bytes /\ q.total = st.total
      /\ q.evicted = st.evicted /\ q.base = st.base /\ q.gaps = st.gaps \cup {s}
      /\ Whole(q)
  <2>1. st = [slots |-> st.slots, watermark |-> st.watermark, ring |-> st.ring,
              order |-> st.order, bytes |-> st.bytes, total |-> st.total,
              evicted |-> st.evicted, gaps |-> st.gaps, base |-> st.base]
    BY <1>1, StreamIsWhole DEF Whole
  <2> QED
    BY <2>1 DEF Whole
<1>3. q \in Streams
  BY <1>1, <1>2, StreamFields, WholeIsStream
<1>4. KeysOnce(q) /\ Counted(q) /\ RingsInOrder(q) /\ SlotsMarked(q) /\ RingsFit(q)
  BY <1>1, <1>2 DEF KeysOnce, Counted, RingsInOrder, SlotsMarked, RingsFit, HasSlot
<1>5. Accounted(q)
  <2>1. SUFFICES ASSUME NEW x \in Sessions, HasSlot(q, x), x \notin q.gaps
                 PROVE  AccountsFor(q, x, q.watermark[x])
    BY DEF Accounted
  <2>2. AccountsFor(st, x, st.watermark[x])
    BY <1>1, <1>2, <2>1 DEF Accounted, HasSlot
  <2> QED
    BY <1>2, <2>2, SameAccount
<1> QED
  BY <1>1, <1>2, <1>3, <1>4, <1>5 DEF StreamInv, Consistent, Shaped

\* Such a session's observed base does not matter.
LEMMA BaseMovedKeeps ==
  ASSUME NEW st, StreamInv(st), NEW s \in Sessions, s \in st.gaps, NEW b \in 0 .. MaxEvents,
         NEW q, q = [st EXCEPT !.base[s] = b]
  PROVE  StreamInv(q)
<1>1. /\ st \in Streams
      /\ KeysOnce(st) /\ Counted(st) /\ RingsInOrder(st) /\ SlotsMarked(st)
      /\ Accounted(st) /\ RingsFit(st) /\ st.total <= TotalBytes
      /\ st.base \in [Sessions -> 0 .. MaxEvents]
  BY StreamFields DEF StreamInv, Consistent, Shaped
<1>2. /\ q.slots = st.slots /\ q.watermark = st.watermark /\ q.ring = st.ring
      /\ q.order = st.order /\ q.bytes = st.bytes /\ q.total = st.total
      /\ q.evicted = st.evicted /\ q.base = [st.base EXCEPT ![s] = b] /\ q.gaps = st.gaps
      /\ Whole(q)
  <2>1. st = [slots |-> st.slots, watermark |-> st.watermark, ring |-> st.ring,
              order |-> st.order, bytes |-> st.bytes, total |-> st.total,
              evicted |-> st.evicted, gaps |-> st.gaps, base |-> st.base]
    BY <1>1, StreamIsWhole DEF Whole
  <2> QED
    BY <2>1 DEF Whole
<1>3. q.base \in [Sessions -> 0 .. MaxEvents]
  BY <1>1, <1>2
<1>4. q \in Streams
  BY <1>1, <1>2, <1>3, StreamFields, WholeIsStream
<1>5. KeysOnce(q) /\ Counted(q) /\ RingsInOrder(q) /\ SlotsMarked(q) /\ RingsFit(q)
  BY <1>1, <1>2 DEF KeysOnce, Counted, RingsInOrder, SlotsMarked, RingsFit, HasSlot
<1>6. Accounted(q)
  <2>1. SUFFICES ASSUME NEW x \in Sessions, HasSlot(q, x), x \notin q.gaps
                 PROVE  AccountsFor(q, x, q.watermark[x])
    BY DEF Accounted
  <2>2. AccountsFor(st, x, st.watermark[x]) /\ x # s
    BY <1>1, <1>2, <2>1 DEF Accounted, HasSlot
  <2>3. q.base[x] = st.base[x]
    BY <1>1, <1>2, <2>2
  <2> QED
    BY <1>2, <2>2, <2>3, SameAccount
<1> QED
  BY <1>1, <1>2, <1>4, <1>5, <1>6 DEF StreamInv, Consistent, Shaped

LEMMA NoStreamInv == StreamInv(NoStream)
<1>1. PICK q : q = NoStream
  OBVIOUS
<1>2. /\ q.slots = <<>> /\ q.watermark = [s \in Sessions |-> 0]
      /\ q.ring = [s \in Sessions |-> <<>>] /\ q.order = <<>>
      /\ q.bytes = [s \in Sessions |-> 0] /\ q.total = 0
      /\ q.evicted = [s \in Sessions |-> 0] /\ q.gaps = {} /\ q.base = [s \in Sessions |-> 0]
      /\ Whole(q)
  BY <1>1 DEF NoStream, Whole
<1>3. 0 \in 0 .. MaxEvents /\ <<>> \in Seq(Seqs) /\ <<>> \in Seq(Sessions) /\ Len(<<>>) = 0
  BY MaxEventsType
<1>4. q \in Streams
  <2>1. /\ q.slots \in Seq(Sessions) /\ q.order \in Seq(Sessions)
        /\ q.watermark \in [Sessions -> 0 .. MaxEvents]
        /\ q.ring \in [Sessions -> Seq(Seqs)]
        /\ q.bytes \in [Sessions -> Nat]
    BY <1>2, <1>3
  <2>2. /\ q.total \in Nat
        /\ q.evicted \in [Sessions -> 0 .. MaxEvents]
        /\ q.gaps \in SUBSET Sessions
        /\ q.base \in [Sessions -> 0 .. MaxEvents]
    BY <1>2, <1>3
  <2>3. Whole(q)
    BY <1>2
  <2> QED
    BY <2>1, <2>2, <2>3, WholeIsStream
<1>5. ToSet(q.slots) = {} /\ \A s \in Sessions : ~HasSlot(q, s)
  BY <1>2, <1>3 DEF ToSet, HasSlot
<1>6. KeysOnce(q)
  BY <1>2, <1>3, BudgetTypes DEF KeysOnce, Distinct
<1>7. Counted(q)
  <2>1. q.bytes \in [Sessions -> Nat] /\ q.order \in Seq(Sessions)
    BY <1>2, <1>3
  <2>2. \A i \in 1 .. Len(q.order) : q.bytes[q.order[i]] = 0
    BY <1>2, <1>3
  <2>3. SumOf(q.bytes, q.order) = 0
    BY <2>1, <2>2, SumOfNothing
  <2> QED
    BY <1>2, <2>3, BytesOfNone DEF Counted
<1>8. RingsInOrder(q)
  BY <1>2, <1>3 DEF RingsInOrder, InOrder
<1>9. SlotsMarked(q) /\ Accounted(q)
  BY <1>2, <1>5 DEF SlotsMarked, Accounted
<1>10. RingsFit(q) /\ q.total <= TotalBytes
  BY <1>2, <1>3, BudgetTypes DEF RingsFit
<1> QED
  BY <1>1, <1>4, <1>6, <1>7, <1>8, <1>9, <1>10 DEF StreamInv, Consistent, Shaped

-----------------------------------------------------------------------------
(* The invariant.                                                          *)

Holds == [on : BOOLEAN, sid : Sessions, parked : Seq(Seqs)]

Attempts ==
  [pc : {"idle", "joining", "capabilities", "replaying"}, answered : BOOLEAN,
   id : Nat, todo : Seq(Entries), last : 0 .. MaxEvents, reply : Replies, bad : BOOLEAN]

GatewayTypes == gwEpoch \in 1 .. MaxEpochs /\ emitted \in [Sessions -> 0 .. MaxEvents]

SocketTypes == asked \subseteq Calls /\ wire \in Seq(Frames)

LinkTypes ==
  /\ state \in {"closed", "connecting", "open"}
  /\ epoch \in 0 .. MaxEpochs
  /\ newEpoch \in BOOLEAN
  /\ connections \in 0 .. MaxConnections

\* A connect that replays has a session to replay.
AttemptTypes ==
  /\ connector \in [Connectors -> Attempts]
  /\ \A c \in Connectors : connector[c].pc = "replaying" => connector[c].todo # <<>>

IInv ==
  /\ GatewayTypes /\ SocketTypes /\ LinkTypes /\ AttemptTypes
  /\ StreamInv(stream)
  /\ hold \in Holds /\ degraded \in BOOLEAN
  /\ timeouts \in 0 .. MaxTimeouts

LEMMA IInvTypes == IInv => TypeOK
BY DEF IInv, TypeOK, GatewayTypes, SocketTypes, LinkTypes, AttemptTypes, Holds, Attempts,
       StreamInv, Consistent, Shaped

LEMMA BoundTypes ==
  /\ MaxEpochs \in Nat \ {0} /\ GatewayRing \in Nat \ {0}
  /\ MaxEmitted \in Nat /\ MaxConnections \in Nat /\ MaxTimeouts \in Nat /\ MaxWire \in Nat
BY StreamBoundsAssumption

LEMMA StartTypes ==
  /\ NoHold \in Holds /\ NoHold.sid \in Sessions
  /\ NoReply \in Replies
  /\ Idle \in Attempts /\ Idle.pc = "idle"
<1>1. (CHOOSE s \in Sessions : TRUE) \in Sessions
  BY SessionsAssumption
<1>2. 0 \in 0 .. MaxEvents /\ 0 \in Nat
  BY MaxEventsType
<1>3. <<>> \in Seq(Seqs) /\ <<>> \in Seq(Entries)
  OBVIOUS
<1>4. NoHold \in Holds /\ NoHold.sid \in Sessions
  BY <1>1, <1>3 DEF NoHold, Holds
<1>5. NoReply \in Replies
  BY <1>2 DEF NoReply, Replies
<1>6. Idle \in Attempts /\ Idle.pc = "idle"
  BY <1>2, <1>3, <1>5 DEF Idle, Attempts
<1> QED
  BY <1>4, <1>5, <1>6

LEMMA InitInv == Init => IInv
<1> SUFFICES ASSUME Init PROVE IInv
  OBVIOUS
<1>1. GatewayTypes /\ SocketTypes /\ LinkTypes
  <2>1. gwEpoch \in 1 .. MaxEpochs /\ epoch \in 0 .. MaxEpochs /\ connections \in 0 .. MaxConnections
    BY BoundTypes DEF Init
  <2>2. emitted \in [Sessions -> 0 .. MaxEvents]
    BY MaxEventsType DEF Init
  <2>3. asked \subseteq Calls /\ wire \in Seq(Frames)
    BY DEF Init
  <2>4. state \in {"closed", "connecting", "open"} /\ newEpoch \in BOOLEAN
    BY DEF Init
  <2> QED
    BY <2>1, <2>2, <2>3, <2>4 DEF GatewayTypes, SocketTypes, LinkTypes
<1>2. AttemptTypes
  BY StartTypes DEF Init, AttemptTypes
<1>3. StreamInv(stream)
  BY NoStreamInv DEF Init
<1>4. hold \in Holds /\ degraded \in BOOLEAN
  BY StartTypes DEF Init
<1>5. timeouts \in 0 .. MaxTimeouts
  BY BoundTypes DEF Init
<1> QED
  BY <1>1, <1>2, <1>3, <1>4, <1>5 DEF IInv

-----------------------------------------------------------------------------
(* The parts that a step leaves alone.                                     *)

LEMMA SameAttempts == AttemptTypes /\ UNCHANGED connector => AttemptTypes'
BY DEF AttemptTypes

LEMMA SameStream == StreamInv(stream) /\ UNCHANGED stream => StreamInv(stream')
OBVIOUS

LEMMA GoesTypes ==
  ASSUME AttemptTypes, NEW c \in Connectors, NEW next \in Attempts,
         next.pc = "replaying" => next.todo # <<>>, Goes(c, next)
  PROVE  AttemptTypes'
<1>1. connector' = [connector EXCEPT ![c] = next]
  BY DEF Goes
<1>2. connector' \in [Connectors -> Attempts]
  BY <1>1 DEF AttemptTypes
<1>3. ASSUME NEW o \in Connectors, connector'[o].pc = "replaying" PROVE connector'[o].todo # <<>>
  <2>1. CASE o = c
    BY <1>1, <1>3, <2>1 DEF AttemptTypes
  <2>2. CASE o # c
    BY <1>1, <1>3, <2>2 DEF AttemptTypes
  <2> QED
    BY <2>1, <2>2
<1> QED
  BY <1>2, <1>3 DEF AttemptTypes

\* Those that wait are told that the socket is gone.
LEMMA FailedTypes ==
  ASSUME AttemptTypes,
         connector' = [c \in Connectors |-> IF connector[c].answered THEN connector[c] ELSE Idle]
  PROVE  AttemptTypes'
<1>1. \A c \in Connectors : connector'[c] = connector[c] \/ connector'[c] = Idle
  OBVIOUS
<1>2. connector' \in [Connectors -> Attempts]
  BY StartTypes DEF AttemptTypes
<1>3. \A c \in Connectors : connector'[c].pc = "replaying" => connector'[c].todo # <<>>
  BY <1>1, StartTypes DEF AttemptTypes
<1> QED
  BY <1>2, <1>3 DEF AttemptTypes

LEMMA ClosedTypes ==
  ASSUME SocketTypes, LinkTypes, state' = "closed", asked' = {}, wire' = <<>>,
         UNCHANGED <<epoch, newEpoch, connections>>
  PROVE  SocketTypes' /\ LinkTypes'
BY DEF SocketTypes, LinkTypes

LEMMA SeveredInv == ASSUME IInv, Severed, UNCHANGED timeouts PROVE IInv'
<1>1. /\ state' = "closed" /\ asked' = {} /\ wire' = <<>>
      /\ connector' = [c \in Connectors |-> IF connector[c].answered THEN connector[c] ELSE Idle]
      /\ UNCHANGED <<gwEpoch, emitted, epoch, newEpoch, connections, stream>>
      /\ degraded' \in BOOLEAN
      /\ hold' = hold \/ hold' = NoHold
  BY DEF Severed, gateway
<1>2. SocketTypes' /\ LinkTypes'
  BY <1>1, ClosedTypes DEF IInv
<1>3. AttemptTypes'
  BY <1>1, FailedTypes DEF IInv
<1>4. GatewayTypes' /\ StreamInv(stream')
  BY <1>1 DEF IInv, GatewayTypes
<1>5. hold' \in Holds /\ timeouts' \in 0 .. MaxTimeouts
  BY <1>1, StartTypes DEF IInv
<1> QED
  BY <1>1, <1>2, <1>3, <1>4, <1>5 DEF IInv

LEMMA GiveUpInv == ASSUME IInv, NEW c \in Connectors, GiveUp(c) PROVE IInv'
<1>1. /\ state' = "closed" /\ asked' = {} /\ wire' = <<>>
      /\ connector' = [o \in Connectors |-> IF connector[o].answered THEN connector[o] ELSE Idle]
      /\ UNCHANGED <<gwEpoch, emitted, epoch, newEpoch, connections, stream, timeouts>>
      /\ hold' = NoHold
  BY DEF GiveUp, gateway
<1>2. degraded' \in BOOLEAN
  BY DEF GiveUp
<1>3. SocketTypes' /\ LinkTypes'
  BY <1>1, ClosedTypes DEF IInv
<1>4. AttemptTypes'
  BY <1>1, FailedTypes DEF IInv
<1>5. GatewayTypes' /\ StreamInv(stream')
  BY <1>1 DEF IInv, GatewayTypes
<1>6. hold' \in Holds /\ timeouts' \in 0 .. MaxTimeouts
  BY <1>1, StartTypes DEF IInv
<1> QED
  BY <1>2, <1>3, <1>4, <1>5, <1>6 DEF IInv

-----------------------------------------------------------------------------
(* Connecting.                                                             *)

LEMMA ConnectInv == ASSUME IInv, NEW c \in Connectors, Connect(c) PROVE IInv'
<1>1. /\ state' = "connecting"
      /\ Goes(c, [Idle EXCEPT !.pc = "joining"])
      /\ UNCHANGED <<gwEpoch, emitted, asked, wire, epoch, connections, stream, hold, degraded,
                     timeouts>>
  BY DEF Connect, gateway, socket
<1>2. newEpoch' \in BOOLEAN
  BY DEF Connect, IInv, LinkTypes
<1>3. LinkTypes'
  BY <1>1, <1>2 DEF IInv, LinkTypes
<1> DEFINE next == [Idle EXCEPT !.pc = "joining"]
<1>4. next \in Attempts /\ next.pc = "joining"
  BY StartTypes DEF Attempts
<1>5. AttemptTypes'
  BY <1>1, <1>4, GoesTypes DEF IInv
<1>6. GatewayTypes' /\ SocketTypes'
  BY <1>1 DEF IInv, GatewayTypes, SocketTypes
<1> QED
  BY <1>1, <1>3, <1>5, <1>6 DEF IInv

LEMMA HandshakeInv == ASSUME IInv, Handshake PROVE IInv'
<1>1. /\ state' = "open"
      /\ connections < MaxConnections /\ connections' = connections + 1
      /\ epoch' = gwEpoch
      /\ stream' = stream \/ stream' = NoStream
      /\ UNCHANGED <<gwEpoch, emitted, asked, wire, hold, degraded, connector, timeouts>>
  BY DEF Handshake, gateway, socket
<1>2. newEpoch' \in BOOLEAN
  BY DEF Handshake, IInv, LinkTypes
<1>3. epoch' \in 0 .. MaxEpochs
  BY <1>1, BoundTypes DEF IInv, GatewayTypes
<1>4. connections' \in 0 .. MaxConnections
  BY <1>1, BoundTypes DEF IInv, LinkTypes
<1>5. LinkTypes'
  BY <1>1, <1>2, <1>3, <1>4 DEF LinkTypes
<1>6. GatewayTypes' /\ SocketTypes' /\ AttemptTypes'
  BY <1>1 DEF IInv, GatewayTypes, SocketTypes, AttemptTypes
<1>7. StreamInv(stream')
  BY <1>1, NoStreamInv DEF IInv
<1> QED
  BY <1>1, <1>5, <1>6, <1>7 DEF IInv

LEMMA AnnounceInv == ASSUME IInv, NEW c \in Connectors, Announce(c) PROVE IInv'
<1> DEFINE d == [connector[c] EXCEPT !.pc = "capabilities"]
           call == [by |-> c, id |-> d.id, sid |-> NoHold.sid, last |-> 0, at |-> 0, since |-> FALSE]
<1>1. /\ Goes(c, d) /\ asked' = asked \cup {call}
      /\ UNCHANGED <<gwEpoch, emitted, wire, state, epoch, newEpoch, connections, stream, hold,
                     degraded, timeouts>>
  BY DEF Announce, gateway, link
<1>2. d \in Attempts /\ d.pc = "capabilities"
  BY DEF IInv, AttemptTypes, Attempts
<1>3. AttemptTypes'
  BY <1>1, <1>2, GoesTypes DEF IInv
<1>4. d.id \in Nat
  BY <1>2 DEF Attempts
<1>5. call \in Calls
  BY <1>4, StartTypes, MaxEventsType DEF Calls
<1>6. SocketTypes'
  BY <1>1, <1>5 DEF IInv, SocketTypes
<1>7. GatewayTypes' /\ LinkTypes' /\ StreamInv(stream')
  BY <1>1 DEF IInv, GatewayTypes, LinkTypes
<1> QED
  BY <1>1, <1>3, <1>6, <1>7 DEF IInv

-----------------------------------------------------------------------------
(* The replay.                                                             *)

LEMMA ReplayNextTypes ==
  ASSUME IInv, NEW c \in Connectors, NEW st, st \in Streams, NEW todo \in Seq(Entries),
         NEW bad \in BOOLEAN, NEW id \in Nat, ReplayNext(c, st, todo, bad, id)
  PROVE  asked' \subseteq Calls /\ hold' \in Holds /\ degraded' \in BOOLEAN /\ AttemptTypes'
<1>1. CASE todo = <<>> \/ state # "open"
  <2>1. /\ degraded' = Degraded(bad, todo)
        /\ hold' = hold \/ hold' = NoHold
        /\ Goes(c, Idle) /\ asked' = asked
    BY <1>1 DEF ReplayNext
  <2>2. degraded' \in BOOLEAN
    BY <2>1 DEF Degraded
  <2>3. hold' \in Holds /\ asked' \subseteq Calls
    BY <2>1, StartTypes DEF IInv, SocketTypes
  <2>4. AttemptTypes'
    BY <2>1, StartTypes, GoesTypes DEF IInv
  <2> QED
    BY <2>2, <2>3, <2>4
<1>2. CASE ~(todo = <<>> \/ state # "open")
  <2> DEFINE sid == Head(todo).sid
             last == IF HasSlot(st, sid) THEN st.watermark[sid] ELSE Head(todo).seen
             call == [by |-> c, id |-> id, sid |-> sid, last |-> last, at |-> emitted[sid],
                      since |-> TRUE]
             next == [Idle EXCEPT !.pc = "replaying", !.id = id, !.todo = todo, !.last = last,
                                  !.bad = bad]
  <2>1. /\ hold' = [on |-> TRUE, sid |-> sid, parked |-> <<>>]
        /\ asked' = asked \cup {call}
        /\ Goes(c, next) /\ degraded' = degraded
    BY <1>2 DEF ReplayNext
  <2>2. Head(todo) \in Entries
    BY <1>2
  <2>3. sid \in Sessions /\ Head(todo).seen \in 0 .. MaxEvents
    BY <2>2, MaxEventsType DEF Entries, Seqs
  <2>4. last \in 0 .. MaxEvents
    <3>1. st.watermark \in [Sessions -> 0 .. MaxEvents]
      BY StreamFields
    <3> QED
      BY <2>3, <3>1
  <2>5. emitted[sid] \in 0 .. MaxEvents
    BY <2>3 DEF IInv, GatewayTypes
  <2> HIDE DEF sid, last
  <2>6. call \in Calls
    BY <2>3, <2>4, <2>5 DEF Calls
  <2>7. next \in Attempts /\ next.todo = todo
    BY <2>4, StartTypes DEF Attempts
  <2>8. asked' \subseteq Calls
    BY <2>1, <2>6 DEF IInv, SocketTypes
  <2>9. <<>> \in Seq(Seqs)
    OBVIOUS
  <2>10. hold' \in Holds
    BY <2>1, <2>3, <2>9 DEF Holds
  <2>11. AttemptTypes'
    <3> HIDE DEF next
    <3> QED
      BY <1>2, <2>1, <2>7, GoesTypes DEF IInv
  <2>12. degraded' \in BOOLEAN
    BY <2>1 DEF IInv
  <2> QED
    BY <2>8, <2>10, <2>11, <2>12
<1> QED
  BY <1>1, <1>2

LEMMA ReplayRest ==
  ASSUME IInv, asked' \subseteq Calls, hold' \in Holds, degraded' \in BOOLEAN, AttemptTypes',
         StreamInv(stream'), timeouts' \in 0 .. MaxTimeouts, UNCHANGED <<gateway, wire, link>>
  PROVE  IInv'
<1>1. GatewayTypes'
  BY DEF IInv, GatewayTypes, gateway
<1>2. SocketTypes'
  BY DEF IInv, SocketTypes
<1>3. LinkTypes'
  BY DEF IInv, LinkTypes, link
<1> QED
  BY <1>1, <1>2, <1>3 DEF IInv

LEMMA EntriesOfSlots ==
  ASSUME NEW st, StreamInv(st)
  PROVE  [i \in DOMAIN st.slots |->
            [sid |-> st.slots[i], seen |-> st.watermark[st.slots[i]]]] \in Seq(Entries)
<1>1. /\ st.slots \in Seq(Sessions)
      /\ st.watermark \in [Sessions -> 0 .. MaxEvents]
      /\ SlotsMarked(st)
  BY StreamParts DEF StreamInv, Consistent
<1> DEFINE entry(i) == [sid |-> st.slots[i], seen |-> st.watermark[st.slots[i]]]
<1>2. DOMAIN st.slots = 1 .. Len(st.slots) /\ Len(st.slots) \in Nat
  BY <1>1
<1>3. ASSUME NEW i \in DOMAIN st.slots PROVE entry(i) \in Entries
  <2>1. st.slots[i] \in Sessions /\ st.slots[i] \in ToSet(st.slots)
    BY <1>1, <1>3 DEF ToSet
  <2>2. st.watermark[st.slots[i]] \in Seqs
    BY <1>1, <2>1, MaxEventsType DEF SlotsMarked, HasSlot, Seqs
  <2> QED
    BY <2>1, <2>2 DEF Entries
<1> HIDE DEF entry
<1>4. [i \in 1 .. Len(st.slots) |-> entry(i)] \in Seq(Entries)
  BY <1>2, <1>3
<1> QED
  BY <1>2, <1>4 DEF entry

LEMMA ReplayStartInv == ASSUME IInv, NEW c \in Connectors, ReplayStart(c) PROVE IInv'
<1>1. UNCHANGED <<gateway, wire, link, stream, timeouts>>
  BY DEF ReplayStart
<1>2. asked' \subseteq Calls /\ hold' \in Holds /\ degraded' \in BOOLEAN /\ AttemptTypes'
  <2>1. CASE newEpoch
    <3>1. degraded' = TRUE /\ Goes(c, Idle) /\ asked' = asked /\ hold' = hold
      BY <2>1 DEF ReplayStart
    <3>2. AttemptTypes'
      BY <3>1, StartTypes, GoesTypes DEF IInv
    <3> QED
      BY <3>1, <3>2 DEF IInv, SocketTypes
  <2>2. CASE ~newEpoch
    <3> DEFINE todo == [i \in DOMAIN stream.slots |->
                          [sid |-> stream.slots[i], seen |-> stream.watermark[stream.slots[i]]]]
    <3>1. ReplayNext(c, stream, todo, FALSE, connector[c].id)
      BY <2>2 DEF ReplayStart
    <3>2. todo \in Seq(Entries)
      BY EntriesOfSlots DEF IInv
    <3>3. stream \in Streams
      BY DEF IInv, StreamInv, Consistent, Shaped
    <3>4. connector[c].id \in Nat
      BY DEF IInv, AttemptTypes, Attempts
    <3> HIDE DEF todo
    <3> QED
      BY <3>1, <3>2, <3>3, <3>4, ReplayNextTypes
  <2> QED
    BY <2>1, <2>2
<1> QED
  BY <1>1, <1>2, ReplayRest DEF IInv

LEMMA ReplyEvents ==
  ASSUME NEW reply \in Replies
  PROVE  [i \in 1 .. reply.hi - reply.lo |-> reply.lo + i] \in Seq(Seqs)
<1>1. reply.lo \in 0 .. MaxEvents /\ reply.hi \in 0 .. MaxEvents /\ MaxEvents \in Nat
  BY MaxEventsType DEF Replies
<1> DEFINE events == [i \in 1 .. reply.hi - reply.lo |-> reply.lo + i]
<1> SUFFICES events \in Seq(Seqs)
  OBVIOUS
<1>2. \A i \in 1 .. reply.hi - reply.lo : reply.lo + i \in Seqs
  BY <1>1 DEF Seqs
<1>3. CASE reply.hi - reply.lo \in Nat
  <2> DEFINE n == reply.hi - reply.lo
  <2>1. n \in Nat /\ events \in [1 .. n -> Seqs]
    BY <1>2, <1>3
  <2> HIDE DEF n, events
  <2> QED
    BY <2>1
<1>4. CASE reply.hi - reply.lo \notin Nat
  <2>1. 1 .. reply.hi - reply.lo = {} /\ 1 .. 0 = {}
    BY <1>1, <1>4
  <2>2. events \in [1 .. 0 -> Seqs]
    BY <2>1
  <2>3. 0 \in Nat
    OBVIOUS
  <2> HIDE DEF events
  <2> QED
    BY <2>2, <2>3
<1> QED
  BY <1>3, <1>4

LEMMA CombinedType ==
  ASSUME NEW reply \in Replies, NEW parked \in Seq(Seqs)
  PROVE  Combined(reply, parked) \in Seq(Seqs)
<1> DEFINE events == [i \in 1 .. reply.hi - reply.lo |-> reply.lo + i]
<1>1. events \in Seq(Seqs)
  BY ReplyEvents
<1>2. Fresh(reply, parked) \in Seq(Seqs)
  BY DEF Fresh
<1> HIDE DEF events
<1>3. events \o Fresh(reply, parked) \in Seq(Seqs)
  BY <1>1, <1>2
<1> QED
  BY <1>3 DEF Combined, events

\* The outcome of a replay: the events of a valid reply are accepted, and a
\* truncated one starts the stream anew at what it still had.
LEMMA ReplayedKeeps ==
  ASSUME NEW st, StreamInv(st), NEW sid \in Sessions, NEW seqs \in Seq(Seqs),
         NEW truncated \in BOOLEAN, NEW lo \in 0 .. MaxEvents, NEW valid,
         NEW allowed, allowed = IF truncated THEN [st EXCEPT !.gaps = @ \cup {sid}] ELSE st,
         NEW result, result = AcceptedAll(allowed, sid, seqs, truncated),
         NEW q, q = IF ~valid THEN st
                    ELSE IF truncated THEN [result.st EXCEPT !.base[sid] = Later(@, lo)]
                                      ELSE result.st
  PROVE  StreamInv(q) /\ result.ok \in BOOLEAN
<1>1. StreamInv(allowed) /\ (truncated => sid \in allowed.gaps)
  <2>1. CASE truncated
    BY <2>1, GapAllowedKeeps
  <2>2. CASE ~truncated
    BY <2>2
  <2> QED
    BY <2>1, <2>2
<1>2. ReplayEnds(allowed, sid, seqs, result)
  BY <1>1, AcceptedAllKeeps
<1>3. /\ result.ok \in BOOLEAN
      /\ result.st \in Streams /\ StreamInv(result.st)
      /\ sid \in allowed.gaps => sid \in result.st.gaps
  BY <1>2 DEF ReplayEnds, Accepting
<1>4. CASE valid /\ truncated
  <2> DEFINE b == Later(result.st.base[sid], lo)
  <2>1. result.st.base \in [Sessions -> 0 .. MaxEvents]
    BY <1>3, StreamFields
  <2>2. b \in 0 .. MaxEvents
    BY <2>1, LaterType
  <2>3. q = [result.st EXCEPT !.base[sid] = b]
    BY <1>4
  <2>4. sid \in result.st.gaps
    BY <1>1, <1>3, <1>4
  <2> HIDE DEF b
  <2>5. PICK r : r = result.st
    OBVIOUS
  <2>6. StreamInv(r) /\ sid \in r.gaps /\ q = [r EXCEPT !.base[sid] = b]
    BY <1>3, <2>3, <2>4, <2>5
  <2>7. StreamInv(q)
    BY <2>2, <2>6, BaseMovedKeeps
  <2> QED
    BY <1>3, <2>7
<1>5. CASE ~(valid /\ truncated)
  BY <1>3, <1>5
<1> QED
  BY <1>4, <1>5

LEMMA ReplayFinishInv == ASSUME IInv, NEW c \in Connectors, ReplayFinish(c) PROVE IInv'
<1> DEFINE d == connector[c]
           sid == Head(d.todo).sid
           parked == IF hold.on /\ hold.sid = sid THEN hold.parked ELSE <<>>
           valid == ValidReplay(d.reply, d.last, parked)
           allowed == IF d.reply.truncated THEN [stream EXCEPT !.gaps = @ \cup {sid}] ELSE stream
           seqs == Combined(d.reply, parked)
           result == AcceptedAll(allowed, sid, seqs, d.reply.truncated)
           st == IF ~valid THEN stream
                 ELSE IF d.reply.truncated
                        THEN [result.st EXCEPT !.base[sid] = Later(@, d.reply.lo)]
                        ELSE result.st
           bad == d.bad \/ ~valid \/ d.reply.truncated \/ ~result.ok
<1>1. /\ At(c, "replaying")
      /\ stream' = st
      /\ ReplayNext(c, st, Tail(d.todo), bad, d.id)
      /\ UNCHANGED <<gateway, wire, link, timeouts>>
  BY DEF ReplayFinish
<1>2. d \in Attempts /\ d.todo # <<>>
  BY <1>1 DEF IInv, AttemptTypes, At
<1> HIDE DEF d
<1>3. d.id \in Nat /\ d.todo \in Seq(Entries) /\ d.reply \in Replies
  BY <1>2 DEF Attempts
<1>4. d.reply.truncated \in BOOLEAN /\ d.reply.lo \in 0 .. MaxEvents
  BY <1>3 DEF Replies
<1>5. Tail(d.todo) \in Seq(Entries) /\ Head(d.todo) \in Entries
  BY <1>2, <1>3
<1>6. sid \in Sessions
  BY <1>5 DEF Entries
<1>7. parked \in Seq(Seqs)
  BY DEF IInv, Holds
<1> HIDE DEF sid, parked
<1>8. seqs \in Seq(Seqs)
  BY <1>3, <1>7, CombinedType
<1> HIDE DEF valid, seqs
<1>9. StreamInv(st)
  BY <1>4, <1>6, <1>8, ReplayedKeeps DEF IInv
<1>10. bad \in BOOLEAN
  OBVIOUS
<1> HIDE DEF st, bad
<1>11. st \in Streams
  BY <1>9 DEF StreamInv, Consistent, Shaped
<1>12. asked' \subseteq Calls /\ hold' \in Holds /\ degraded' \in BOOLEAN /\ AttemptTypes'
  BY <1>1, <1>3, <1>5, <1>10, <1>11, ReplayNextTypes
<1>13. StreamInv(stream') /\ timeouts' \in 0 .. MaxTimeouts
  BY <1>1, <1>9 DEF IInv
<1> QED
  BY <1>1, <1>12, <1>13, ReplayRest

LEMMA ReplayTimesOutInv == ASSUME IInv, NEW c \in Connectors, ReplayTimesOut(c) PROVE IInv'
<1> DEFINE d == connector[c]
<1>1. /\ At(c, "replaying")
      /\ timeouts < MaxTimeouts /\ timeouts' = timeouts + 1
      /\ ReplayNext(c, stream, Tail(d.todo), TRUE, d.id + 1)
      /\ UNCHANGED <<gateway, wire, link, stream>>
  BY DEF ReplayTimesOut
<1>2. d \in Attempts /\ d.todo # <<>>
  BY <1>1 DEF IInv, AttemptTypes, At
<1> HIDE DEF d
<1>3. d.id + 1 \in Nat /\ Tail(d.todo) \in Seq(Entries)
  BY <1>2 DEF Attempts
<1>4. stream \in Streams
  BY DEF IInv, StreamInv, Consistent, Shaped
<1>5. asked' \subseteq Calls /\ hold' \in Holds /\ degraded' \in BOOLEAN /\ AttemptTypes'
  BY <1>1, <1>3, <1>4, ReplayNextTypes
<1>6. timeouts' \in 0 .. MaxTimeouts
  BY <1>1, BoundTypes DEF IInv
<1> QED
  BY <1>1, <1>5, <1>6, ReplayRest DEF IInv

-----------------------------------------------------------------------------
(* Frames from the gateway.                                                *)

LEMMA FrontOfWire ==
  ASSUME NEW frames \in Seq(Frames), frames # <<>>
  PROVE  /\ Tail(frames) \in Seq(Frames)
         /\ Head(frames).type = "event" => Head(frames).sid \in Sessions /\ Head(frames).seq \in Seqs
         /\ Head(frames).type = "reply" => Head(frames).by \in Connectors
                                             /\ Head(frames).reply \in Replies
<1>1. Head(frames) \in Frames /\ Tail(frames) \in Seq(Frames)
  OBVIOUS
<1>2. PICK f \in Frames : f = Head(frames)
  BY <1>1
<1>3. /\ f.type = "event" => f.sid \in Sessions /\ f.seq \in Seqs
      /\ f.type = "reply" => f.by \in Connectors /\ f.reply \in Replies
  BY <1>2 DEF Frames
<1> QED
  BY <1>1, <1>2, <1>3

LEMMA TakeReplyInv == ASSUME IInv, TakeReply PROVE IInv'
<1> DEFINE f == Head(wire)
           d == connector[f.by]
           next == [d EXCEPT !.answered = TRUE, !.reply = f.reply]
<1>1. wire # <<>> /\ f.type = "reply" /\ UNCHANGED timeouts
  BY DEF TakeReply
<1>2. wire \in Seq(Frames)
  BY DEF IInv, SocketTypes
<1>3. Tail(wire) \in Seq(Frames) /\ f.by \in Connectors /\ f.reply \in Replies
  BY <1>1, <1>2, FrontOfWire
<1>4. CASE Severed
  BY <1>1, <1>4, SeveredInv
<1>5. CASE ~Severed
  <2>1. /\ Goes(f.by, next) /\ wire' = Tail(wire)
        /\ UNCHANGED <<gwEpoch, emitted, asked, state, epoch, newEpoch, connections, stream, hold,
                       degraded>>
    BY <1>5 DEF TakeReply, gateway, link
  <2>2. d \in Attempts /\ (d.pc = "replaying" => d.todo # <<>>)
    BY <1>3 DEF IInv, AttemptTypes
  <2> HIDE DEF f, d
  <2>3. next \in Attempts /\ next.pc = d.pc /\ next.todo = d.todo
    BY <1>3, <2>2 DEF Attempts
  <2> HIDE DEF next
  <2>4. AttemptTypes'
    BY <1>3, <2>1, <2>2, <2>3, GoesTypes DEF IInv
  <2>5. GatewayTypes' /\ SocketTypes' /\ LinkTypes' /\ StreamInv(stream')
    BY <1>3, <2>1 DEF IInv, GatewayTypes, SocketTypes, LinkTypes
  <2> QED
    BY <1>1, <2>1, <2>4, <2>5 DEF IInv
<1> QED
  BY <1>4, <1>5

LEMMA TakeEventInv == ASSUME IInv, TakeEvent PROVE IInv'
<1> DEFINE s == Head(wire).sid
           n == Head(wire).seq
           held == hold.on /\ hold.sid = s
<1>1. wire # <<>> /\ Head(wire).type = "event" /\ UNCHANGED timeouts
  BY DEF TakeEvent
<1>2. wire \in Seq(Frames)
  BY DEF IInv, SocketTypes
<1>3. Tail(wire) \in Seq(Frames) /\ s \in Sessions /\ n \in Seqs
  BY <1>1, <1>2, FrontOfWire
<1>4. CASE Severed
  BY <1>1, <1>4, SeveredInv
<1>5. CASE ~Severed
  <2>1. /\ wire' = Tail(wire)
        /\ hold' = IF held THEN [hold EXCEPT !.parked = Append(@, n)] ELSE hold
        /\ stream' = IF ~held /\ Acceptable(stream, s, n, FALSE) THEN Accepted(stream, s, n)
                                                                 ELSE stream
        /\ UNCHANGED <<gwEpoch, emitted, asked, state, epoch, newEpoch, connections, degraded,
                       connector>>
    BY <1>5 DEF TakeEvent, gateway, link
  <2> HIDE DEF s, n, held
  <2>2. hold' \in Holds
    <3>1. hold.parked \in Seq(Seqs) /\ hold \in Holds
      BY DEF IInv, Holds
    <3>2. Append(hold.parked, n) \in Seq(Seqs)
      BY <1>3, <3>1
    <3>3. [hold EXCEPT !.parked = Append(@, n)] \in Holds
      BY <3>1, <3>2 DEF Holds
    <3> QED
      BY <2>1, <3>1, <3>3
  <2>3. StreamInv(stream')
    <3>1. CASE ~held /\ Acceptable(stream, s, n, FALSE)
      <4>1. stream' = Accepted(stream, s, n)
        BY <2>1, <3>1
      <4> QED
        BY <1>3, <3>1, <4>1, AcceptedKeeps DEF IInv
    <3>2. CASE ~(~held /\ Acceptable(stream, s, n, FALSE))
      BY <2>1, <3>2 DEF IInv
    <3> QED
      BY <3>1, <3>2
  <2>4. GatewayTypes' /\ SocketTypes' /\ LinkTypes' /\ AttemptTypes'
    BY <1>3, <2>1 DEF IInv, GatewayTypes, SocketTypes, LinkTypes, AttemptTypes
  <2> QED
    BY <1>1, <2>1, <2>2, <2>3, <2>4 DEF IInv
<1> QED
  BY <1>4, <1>5

-----------------------------------------------------------------------------
(* The gateway.                                                            *)

LEMMA EmitInv == ASSUME IInv, NEW s \in Sessions, Emit(s) PROVE IInv'
<1>1. /\ emitted[s] < MaxEvents
      /\ emitted' = [emitted EXCEPT ![s] = emitted[s] + 1]
      /\ wire' = wire \/ wire' = Append(wire, [type |-> "event", sid |-> s, seq |-> emitted'[s]])
      /\ UNCHANGED <<gwEpoch, asked, state, epoch, newEpoch, connections, stream, hold, degraded,
                     connector, timeouts>>
  BY DEF Emit, link
<1>2. emitted[s] + 1 \in Seqs
  BY <1>1, MaxEventsType DEF IInv, GatewayTypes, Seqs
<1>3. emitted' \in [Sessions -> 0 .. MaxEvents] /\ emitted'[s] \in Seqs
  BY <1>1, <1>2, MaxEventsType DEF IInv, GatewayTypes, Seqs
<1>4. [type |-> "event", sid |-> s, seq |-> emitted'[s]] \in Frames
  BY <1>3 DEF Frames
<1>5. wire' \in Seq(Frames)
  BY <1>1, <1>4 DEF IInv, SocketTypes
<1>6. GatewayTypes' /\ SocketTypes'
  BY <1>1, <1>3, <1>5 DEF IInv, GatewayTypes, SocketTypes
<1>7. LinkTypes' /\ AttemptTypes' /\ StreamInv(stream')
  BY <1>1 DEF IInv, LinkTypes, AttemptTypes
<1> QED
  BY <1>1, <1>6, <1>7 DEF IInv

LEMMA SinceType ==
  ASSUME NEW call \in Calls, NEW read \in Nat, read <= emitted[call.sid],
         emitted \in [Sessions -> 0 .. MaxEvents]
  PROVE  Since(call, read) \in Replies
<1>1. /\ call.last \in 0 .. MaxEvents /\ call.sid \in Sessions
      /\ MaxEvents \in Nat /\ GatewayRing \in Nat
  BY MaxEventsType, BoundTypes DEF Calls
<1>2. emitted[call.sid] \in 0 .. MaxEvents /\ read \in 0 .. MaxEvents
  BY <1>1
<1> DEFINE oldest == Later(0, read - GatewayRing)
<1>3. oldest \in 0 .. MaxEvents
  BY <1>1, <1>2 DEF Later
<1> HIDE DEF oldest
<1>4. Later(call.last, oldest) \in 0 .. MaxEvents /\ Later(call.last, read) \in 0 .. MaxEvents
  BY <1>1, <1>2, <1>3, LaterType
<1>5. (call.last < oldest) \in BOOLEAN
  OBVIOUS
<1>6. Since(call, read) =
        [lo |-> Later(call.last, oldest), hi |-> Later(call.last, read), latest |-> emitted[call.sid],
         truncated |-> call.last < oldest]
  BY DEF Since, oldest
<1> QED
  BY <1>2, <1>4, <1>5, <1>6 DEF Replies

LEMMA AnswerInv == ASSUME IInv, NEW call \in asked, Answer(call) PROVE IInv'
<1> DEFINE replies == IF call.since THEN {Since(call, read) : read \in call.at .. emitted[call.sid]}
                                    ELSE {NoReply}
<1>1. /\ asked' = asked \ {call}
      /\ \E reply \in replies :
           wire' = Append(wire, [type |-> "reply", by |-> call.by, id |-> call.id, reply |-> reply])
      /\ UNCHANGED <<gwEpoch, emitted, state, epoch, newEpoch, connections, stream, hold, degraded,
                     connector, timeouts>>
  BY DEF Answer, gateway, link
<1>2. call \in Calls
  BY DEF IInv, SocketTypes
<1>3. ASSUME NEW reply \in replies PROVE reply \in Replies
  <2>1. CASE call.since
    <3>1. PICK read \in call.at .. emitted[call.sid] : reply = Since(call, read)
      BY <1>3, <2>1
    <3>2. call.at \in Nat /\ emitted[call.sid] \in Nat /\ emitted \in [Sessions -> 0 .. MaxEvents]
      BY <1>2, MaxEventsType DEF Calls, IInv, GatewayTypes
    <3>3. read \in Nat /\ read <= emitted[call.sid]
      BY <3>2
    <3> QED
      BY <1>2, <3>1, <3>2, <3>3, SinceType
  <2>2. CASE ~call.since
    BY <1>3, <2>2, StartTypes
  <2> QED
    BY <2>1, <2>2
<1>4. PICK reply \in replies :
        wire' = Append(wire, [type |-> "reply", by |-> call.by, id |-> call.id, reply |-> reply])
  BY <1>1
<1>5. reply \in Replies
  BY <1>3
<1> HIDE DEF replies
<1>6. [type |-> "reply", by |-> call.by, id |-> call.id, reply |-> reply] \in Frames
  BY <1>2, <1>5 DEF Calls, Frames
<1>7. wire' \in Seq(Frames)
  BY <1>4, <1>6 DEF IInv, SocketTypes
<1>8. SocketTypes'
  BY <1>1, <1>7 DEF IInv, SocketTypes
<1>9. GatewayTypes' /\ LinkTypes' /\ AttemptTypes' /\ StreamInv(stream')
  BY <1>1 DEF IInv, GatewayTypes, LinkTypes, AttemptTypes
<1> QED
  BY <1>1, <1>8, <1>9 DEF IInv

LEMMA GatewayRestartsInv == ASSUME IInv, GatewayRestarts PROVE IInv'
<1>1. /\ gwEpoch < MaxEpochs /\ gwEpoch' = gwEpoch + 1
      /\ emitted' = [s \in Sessions |-> 0]
      /\ UNCHANGED <<asked, wire, state, epoch, newEpoch, connections, stream, hold, degraded,
                     connector, timeouts>>
  BY DEF GatewayRestarts, socket, link
<1>2. gwEpoch' \in 1 .. MaxEpochs
  BY <1>1, BoundTypes DEF IInv, GatewayTypes
<1>3. emitted' \in [Sessions -> 0 .. MaxEvents]
  BY <1>1, MaxEventsType
<1>4. GatewayTypes'
  BY <1>2, <1>3 DEF GatewayTypes
<1>5. SocketTypes' /\ LinkTypes' /\ AttemptTypes' /\ StreamInv(stream')
  BY <1>1 DEF IInv, SocketTypes, LinkTypes, AttemptTypes
<1> QED
  BY <1>1, <1>4, <1>5 DEF IInv

-----------------------------------------------------------------------------
(* The theorems.                                                           *)

LEMMA StutterInv == IInv /\ UNCHANGED vars => IInv'
<1> SUFFICES ASSUME IInv, UNCHANGED vars PROVE IInv'
  OBVIOUS
<1>1. UNCHANGED <<gwEpoch, emitted, asked, wire, state, epoch, newEpoch, connections, stream, hold,
                  degraded, connector, timeouts>>
  BY DEF vars, gateway, socket, link
<1> QED
  BY <1>1 DEF IInv, GatewayTypes, SocketTypes, LinkTypes, AttemptTypes

LEMMA NextInv == IInv /\ [Next]_vars => IInv'
<1> SUFFICES ASSUME IInv, [Next]_vars PROVE IInv'
  OBVIOUS
<1>1. CASE LoseSocket
  BY <1>1, SeveredInv DEF LoseSocket
<1>2. ASSUME NEW c \in Connectors, GiveUp(c) PROVE IInv'
  BY <1>2, GiveUpInv
<1>3. ASSUME NEW c \in Connectors, Connect(c) PROVE IInv'
  BY <1>3, ConnectInv
<1>4. CASE Handshake
  BY <1>4, HandshakeInv
<1>5. ASSUME NEW c \in Connectors, ConnectStep(c) PROVE IInv'
  BY <1>5, AnnounceInv, ReplayStartInv, ReplayFinishInv DEF ConnectStep
<1>6. ASSUME NEW c \in Connectors, ReplayTimesOut(c) PROVE IInv'
  BY <1>6, ReplayTimesOutInv
<1>7. CASE TakeReply
  BY <1>7, TakeReplyInv
<1>8. CASE TakeEvent
  BY <1>8, TakeEventInv
<1>9. ASSUME NEW s \in Sessions, Emit(s) PROVE IInv'
  BY <1>9, EmitInv
<1>10. ASSUME NEW call \in asked, Answer(call) PROVE IInv'
  BY <1>10, AnswerInv
<1>11. CASE GatewayRestarts
  BY <1>11, GatewayRestartsInv
<1>12. CASE UNCHANGED vars
  BY <1>12, StutterInv
<1> QED
  BY <1>1, <1>2, <1>3, <1>4, <1>5, <1>6, <1>7, <1>8, <1>9, <1>10, <1>11, <1>12 DEF Next

\* The invariant holds in every state that connects, frames, time-outs, lost
\* sockets and gateway restarts lead to.
THEOREM InvariantHolds == Spec => []IInv
<1>1. Init => IInv
  BY InitInv
<1>2. IInv /\ [Next]_vars => IInv'
  BY NextInv
<1> QED
  BY <1>1, <1>2, PTL DEF Spec

\* Watermarks, byte counts, held events, pending calls and what is left of a
\* replay stay what they are meant to be: no count goes below zero when rings
\* are cut and slots dropped, and what a reply combines with the held events
\* is a sequence of the session's events.
THEOREM TypeCorrect == Spec => []TypeOK
BY InvariantHolds, IInvTypes, PTL

LEMMA BudgetsFollow == ASSUME NEW st, StreamInv(st) PROVE WithinBudgets(st)
<1>1. /\ KeysOnce(st) /\ Counted(st) /\ RingsFit(st) /\ st.total <= TotalBytes
      /\ st.bytes \in [Sessions -> Nat]
  BY StreamParts DEF StreamInv, Consistent
<1>2. [s \in Sessions |-> Bytes(st.ring[s])] = st.bytes
  BY <1>1 DEF Counted
<1>3. st.total = SumOf([s \in Sessions |-> Bytes(st.ring[s])], st.order)
  BY <1>1, <1>2 DEF Counted
<1>4. \A s \in Sessions : st.bytes[s] = Bytes(st.ring[s])
  BY <1>1 DEF Counted
<1>5. Len(st.slots) <= MaxSlots
  BY <1>1 DEF KeysOnce
<1> QED
  BY <1>1, <1>3, <1>4, <1>5 DEF WithinBudgets, RingsFit

\* The byte counts never drift from the rings and no budget is exceeded,
\* whatever is accepted, cut, evicted for the sake of another session, dropped
\* with its slot or discarded with an epoch (_accept_event, _drop_session_state).
THEOREM BudgetsAlwaysHold == Spec => []BudgetsHold
<1>1. IInv => BudgetsHold
  BY BudgetsFollow DEF IInv, BudgetsHold
<1> QED
  BY <1>1, InvariantHolds, PTL

\* An event up to the watermark that is not in the ring is covered by
\* events_truncated, for every session without an allowed gap: there is no
\* silent hole, however replays, held frames and evictions interleave.
THEOREM LossIsAlwaysKnown == Spec => []LossIsKnown
<1>1. IInv => LossIsKnown
  BY DEF IInv, StreamInv, Consistent, Accounted, LossIsKnown
<1> QED
  BY <1>1, InvariantHolds, PTL

-----------------------------------------------------------------------------
(* LossIsDegraded, while one thread connects at a time (connect_race shows *)
(* what two may do to each other).  The socket owes the client, for every  *)
(* session, the events from some number on, in order; what a replay has    *)
(* still to answer for is between its reply and the events it holds.       *)

EventOf(f, s) == f.type = "event" /\ f.sid = s

\* The frames of w bring the events of s after n up to m.
Owed(w, s, n, m) ==
  /\ n <= m
  /\ \A i \in 1 .. Len(w) : EventOf(w[i], s) => w[i].seq \in n + 1 .. m
  /\ \A k \in n + 1 .. m : \E i \in 1 .. Len(w) : EventOf(w[i], s) /\ w[i].seq = k

\* Each session's events are in order.
InTurn(w) ==
  \A s \in Sessions : \A i, j \in 1 .. Len(w) :
    i < j /\ EventOf(w[i], s) /\ EventOf(w[j], s) => w[i].seq < w[j].seq

\* v is w without its first frame; v is w and f after it.
Shifted(w, v) == Len(w) \in Nat \ {0} /\ Len(v) = Len(w) - 1 /\ \A i \in 1 .. Len(v) : v[i] = w[i + 1]

Extended(w, f, v) ==
  /\ Len(w) \in Nat /\ Len(v) = Len(w) + 1
  /\ v[Len(v)] = f /\ \A i \in 1 .. Len(w) : v[i] = w[i]

LEMMA TailNext ==
  ASSUME NEW w \in Seq(Frames), w # <<>>
  PROVE  Shifted(w, Tail(w)) /\ Head(w) = w[1]
BY DEF Shifted

LEMMA AppendThen ==
  ASSUME NEW w \in Seq(Frames), NEW f PROVE Extended(w, f, Append(w, f))
BY DEF Extended

LEMMA InTurnNext ==
  ASSUME NEW w, NEW v, Shifted(w, v), InTurn(w) PROVE InTurn(v)
<1> SUFFICES ASSUME NEW s \in Sessions, NEW i \in 1 .. Len(v), NEW j \in 1 .. Len(v),
                    i < j, EventOf(v[i], s), EventOf(v[j], s)
             PROVE  v[i].seq < v[j].seq
  BY DEF InTurn
<1>1. i + 1 \in 1 .. Len(w) /\ j + 1 \in 1 .. Len(w) /\ i + 1 < j + 1
        /\ v[i] = w[i + 1] /\ v[j] = w[j + 1]
  BY DEF Shifted
<1> QED
  BY <1>1 DEF InTurn

LEMMA OwedNext ==
  ASSUME NEW w, NEW v, Shifted(w, v), NEW s, ~EventOf(w[1], s), NEW n \in Nat, NEW m \in Nat,
         Owed(w, s, n, m)
  PROVE  Owed(v, s, n, m)
<1>1. ASSUME NEW i \in 1 .. Len(v), EventOf(v[i], s) PROVE v[i].seq \in n + 1 .. m
  <2>1. i + 1 \in 1 .. Len(w) /\ v[i] = w[i + 1]
    BY DEF Shifted
  <2> QED
    BY <1>1, <2>1 DEF Owed
<1>2. ASSUME NEW k \in n + 1 .. m PROVE \E i \in 1 .. Len(v) : EventOf(v[i], s) /\ v[i].seq = k
  <2>1. PICK i \in 1 .. Len(w) : EventOf(w[i], s) /\ w[i].seq = k
    BY DEF Owed
  <2>2. i # 1
    BY <2>1
  <2>3. i - 1 \in 1 .. Len(v) /\ v[i - 1] = w[i]
    BY <2>2 DEF Shifted
  <2> QED
    BY <2>1, <2>3
<1> QED
  BY <1>1, <1>2 DEF Owed

LEMMA OwedTaken ==
  ASSUME NEW w, NEW v, Shifted(w, v), InTurn(w), NEW s \in Sessions, EventOf(w[1], s),
         NEW n \in Nat, NEW m \in Nat, Owed(w, s, n, m)
  PROVE  w[1].seq = n + 1 /\ Owed(v, s, n + 1, m)
<1>1. 1 \in 1 .. Len(w)
  BY DEF Shifted
<1>2. w[1].seq \in n + 1 .. m
  BY <1>1 DEF Owed
<1>3. ASSUME NEW i \in 1 .. Len(w), EventOf(w[i], s), i # 1 PROVE w[i].seq > w[1].seq /\ w[i].seq \in n + 1 .. m
  <2>1. w[i].seq \in n + 1 .. m /\ 1 < i
    BY <1>3 DEF Owed
  <2>2. w[1].seq < w[i].seq
    BY <1>1, <1>3, <2>1 DEF InTurn
  <2> QED
    BY <1>2, <2>1, <2>2
<1>4. w[1].seq = n + 1
  <2>1. n + 1 \in n + 1 .. m
    BY <1>2
  <2>2. PICK i \in 1 .. Len(w) : EventOf(w[i], s) /\ w[i].seq = n + 1
    BY <2>1 DEF Owed
  <2> QED
    BY <1>2, <1>3, <2>2
<1>5. ASSUME NEW i \in 1 .. Len(v), EventOf(v[i], s) PROVE v[i].seq \in n + 2 .. m
  <2>1. i + 1 \in 1 .. Len(w) /\ i + 1 # 1 /\ v[i] = w[i + 1]
    BY DEF Shifted
  <2>2. w[i + 1].seq > n + 1 /\ w[i + 1].seq \in n + 1 .. m
    BY <1>3, <1>4, <1>5, <2>1
  <2> QED
    BY <2>1, <2>2
<1>6. ASSUME NEW k \in n + 2 .. m PROVE \E i \in 1 .. Len(v) : EventOf(v[i], s) /\ v[i].seq = k
  <2>1. k \in n + 1 .. m
    OBVIOUS
  <2>2. PICK i \in 1 .. Len(w) : EventOf(w[i], s) /\ w[i].seq = k
    BY <2>1 DEF Owed
  <2>3. i # 1
    BY <1>4, <2>2
  <2>4. i - 1 \in 1 .. Len(v) /\ v[i - 1] = w[i]
    BY <2>3 DEF Shifted
  <2> QED
    BY <2>2, <2>4
<1> QED
  BY <1>2, <1>4, <1>5, <1>6 DEF Owed

LEMMA InTurnThen ==
  ASSUME NEW w, NEW f, NEW v, Extended(w, f, v), InTurn(w),
         \A s \in Sessions : EventOf(f, s) =>
           \A i \in 1 .. Len(w) : EventOf(w[i], s) => w[i].seq < f.seq
  PROVE  InTurn(v)
<1> SUFFICES ASSUME NEW s \in Sessions, NEW i \in 1 .. Len(v), NEW j \in 1 .. Len(v),
                    i < j, EventOf(v[i], s), EventOf(v[j], s)
             PROVE  v[i].seq < v[j].seq
  BY DEF InTurn
<1>1. i \in 1 .. Len(w) /\ v[i] = w[i]
  BY DEF Extended
<1>2. CASE j \in 1 .. Len(w)
  <2>1. v[j] = w[j]
    BY <1>2 DEF Extended
  <2> QED
    BY <1>1, <1>2, <2>1 DEF InTurn
<1>3. CASE j \notin 1 .. Len(w)
  <2>1. v[j] = f
    BY <1>3 DEF Extended
  <2> QED
    BY <1>1, <2>1
<1> QED
  BY <1>2, <1>3

LEMMA OwedThen ==
  ASSUME NEW w, NEW f, NEW v, Extended(w, f, v), NEW s, ~EventOf(f, s), NEW n \in Nat, NEW m \in Nat,
         Owed(w, s, n, m)
  PROVE  Owed(v, s, n, m)
<1>1. ASSUME NEW i \in 1 .. Len(v), EventOf(v[i], s) PROVE v[i].seq \in n + 1 .. m
  <2>1. i \in 1 .. Len(w) /\ v[i] = w[i]
    BY <1>1 DEF Extended
  <2> QED
    BY <1>1, <2>1 DEF Owed
<1>2. ASSUME NEW k \in n + 1 .. m PROVE \E i \in 1 .. Len(v) : EventOf(v[i], s) /\ v[i].seq = k
  <2>1. PICK i \in 1 .. Len(w) : EventOf(w[i], s) /\ w[i].seq = k
    BY DEF Owed
  <2>2. i \in 1 .. Len(v) /\ v[i] = w[i]
    BY DEF Extended
  <2> QED
    BY <2>1, <2>2
<1> QED
  BY <1>1, <1>2 DEF Owed

LEMMA OwedMore ==
  ASSUME NEW w, NEW f, NEW v, Extended(w, f, v), NEW s, NEW n \in Nat, NEW m \in Nat,
         EventOf(f, s), f.seq = m + 1, Owed(w, s, n, m)
  PROVE  Owed(v, s, n, m + 1)
<1>1. n <= m
  BY DEF Owed
<1>2. ASSUME NEW i \in 1 .. Len(v), EventOf(v[i], s) PROVE v[i].seq \in n + 1 .. m + 1
  <2>1. CASE i \in 1 .. Len(w)
    <3>1. v[i] = w[i]
      BY <2>1 DEF Extended
    <3>2. w[i].seq \in n + 1 .. m
      BY <1>2, <2>1, <3>1 DEF Owed
    <3> QED
      BY <3>1, <3>2
  <2>2. CASE i \notin 1 .. Len(w)
    <3>1. v[i] = f
      BY <2>2 DEF Extended
    <3> QED
      BY <1>1, <3>1
  <2> QED
    BY <2>1, <2>2
<1>3. ASSUME NEW k \in n + 1 .. m + 1 PROVE \E i \in 1 .. Len(v) : EventOf(v[i], s) /\ v[i].seq = k
  <2>1. CASE k = m + 1
    <3>1. Len(v) \in 1 .. Len(v) /\ v[Len(v)] = f
      BY DEF Extended
    <3> QED
      BY <2>1, <3>1
  <2>2. CASE k # m + 1
    <3>1. k \in n + 1 .. m
      BY <2>2
    <3>2. PICK i \in 1 .. Len(w) : EventOf(w[i], s) /\ w[i].seq = k
      BY <3>1 DEF Owed
    <3>3. i \in 1 .. Len(v) /\ v[i] = w[i]
      BY DEF Extended
    <3> QED
      BY <3>2, <3>3
  <2> QED
    BY <2>1, <2>2
<1> QED
  BY <1>1, <1>2, <1>3 DEF Owed

LEMMA OwedNothing ==
  ASSUME NEW s, NEW n \in Nat, NEW m \in Nat
  PROVE  Owed(<<>>, s, n, m) <=> n = m
<1>1. 1 .. Len(<<>>) = {}
  OBVIOUS
<1>2. ASSUME Owed(<<>>, s, n, m) PROVE n = m
  <2>1. n <= m /\ (n + 1 \in n + 1 .. m => FALSE)
    BY <1>1, <1>2 DEF Owed
  <2> QED
    BY <2>1
<1>3. ASSUME n = m PROVE Owed(<<>>, s, n, m)
  <2>1. n <= m /\ n + 1 .. m = {}
    BY <1>3
  <2> QED
    BY <1>1, <2>1 DEF Owed
<1> QED
  BY <1>2, <1>3

-----------------------------------------------------------------------------
(* Calls and their replies.                                                *)

ReplyTo(f, id) == f.type = "reply" /\ f.id = id

\* The call of attempt d is under way once: asked, answered or taken.
CallOnce(d, ask, w) ==
  /\ \A k \in ask : k.id <= d.id
  /\ \A i \in 1 .. Len(w) : w[i].type = "reply" => w[i].id <= d.id
  /\ \A k \in ask : k.id = d.id => ~d.answered /\ \A o \in ask : o.id = d.id => o = k
  /\ \A i \in 1 .. Len(w) : ReplyTo(w[i], d.id) =>
       /\ ~d.answered
       /\ \A k \in ask : k.id # d.id
       /\ \A j \in 1 .. Len(w) : ReplyTo(w[j], d.id) => j = i

\* The replies to call id were complete when they were sent, and at least up to a.
RepliesFrom(w, id, s, a, m) ==
  \A i \in 1 .. Len(w) : ReplyTo(w[i], id) =>
    /\ w[i].reply.latest \in a .. m
    /\ \A j \in 1 .. Len(w) : i < j /\ EventOf(w[j], s) => w[j].seq > w[i].reply.latest

LEMMA RepliesNext ==
  ASSUME NEW w, NEW v, Shifted(w, v), NEW id, NEW s, NEW a, NEW m, RepliesFrom(w, id, s, a, m)
  PROVE  RepliesFrom(v, id, s, a, m)
<1> SUFFICES ASSUME NEW i \in 1 .. Len(v), ReplyTo(v[i], id)
             PROVE  /\ v[i].reply.latest \in a .. m
                    /\ \A j \in 1 .. Len(v) : i < j /\ EventOf(v[j], s) => v[j].seq > v[i].reply.latest
  BY DEF RepliesFrom
<1>1. i + 1 \in 1 .. Len(w) /\ v[i] = w[i + 1]
  BY DEF Shifted
<1>2. /\ w[i + 1].reply.latest \in a .. m
      /\ \A j \in 1 .. Len(w) : i + 1 < j /\ EventOf(w[j], s) => w[j].seq > w[i + 1].reply.latest
  BY <1>1 DEF RepliesFrom
<1>3. ASSUME NEW j \in 1 .. Len(v), i < j, EventOf(v[j], s) PROVE v[j].seq > v[i].reply.latest
  <2>1. j + 1 \in 1 .. Len(w) /\ i + 1 < j + 1 /\ v[j] = w[j + 1]
    BY <1>3 DEF Shifted
  <2> QED
    BY <1>1, <1>2, <1>3, <2>1
<1> QED
  BY <1>1, <1>2, <1>3

\* The reply that is taken reaches no further than the events that came before it.
LEMMA ReplyTaken ==
  ASSUME NEW w, NEW v, Shifted(w, v), NEW id, NEW s, NEW a \in Nat, NEW m \in Nat,
         RepliesFrom(w, id, s, a, m), ReplyTo(w[1], id), NEW n \in Nat, Owed(w, s, n, m)
  PROVE  w[1].reply.latest \in a .. n
<1>1. 1 \in 1 .. Len(w)
  BY DEF Shifted
<1>2. /\ w[1].reply.latest \in a .. m
      /\ \A j \in 1 .. Len(w) : 1 < j /\ EventOf(w[j], s) => w[j].seq > w[1].reply.latest
  BY <1>1 DEF RepliesFrom
<1>3. ASSUME w[1].reply.latest > n PROVE FALSE
  <2>1. w[1].reply.latest \in n + 1 .. m
    BY <1>2, <1>3
  <2>2. PICK j \in 1 .. Len(w) : EventOf(w[j], s) /\ w[j].seq = w[1].reply.latest
    BY <2>1 DEF Owed
  <2>3. j # 1
    BY <2>2 DEF EventOf, ReplyTo
  <2>4. 1 < j
    BY <2>3
  <2> QED
    BY <1>2, <2>2, <2>4
<1> QED
  BY <1>2, <1>3

LEMMA RepliesThen ==
  ASSUME NEW w, NEW f, NEW v, Extended(w, f, v), NEW id, NEW s, NEW a \in Nat, NEW m \in Nat,
         NEW more \in Nat, more >= m, RepliesFrom(w, id, s, a, m),
         EventOf(f, s) => f.seq \in Nat /\ f.seq > m,
         ReplyTo(f, id) => f.reply.latest \in a .. more
  PROVE  RepliesFrom(v, id, s, a, more)
<1> SUFFICES ASSUME NEW i \in 1 .. Len(v), ReplyTo(v[i], id)
             PROVE  /\ v[i].reply.latest \in a .. more
                    /\ \A j \in 1 .. Len(v) : i < j /\ EventOf(v[j], s) => v[j].seq > v[i].reply.latest
  BY DEF RepliesFrom
<1>1. CASE i \in 1 .. Len(w)
  <2>1. v[i] = w[i]
    BY <1>1 DEF Extended
  <2>2. /\ w[i].reply.latest \in a .. m
        /\ \A j \in 1 .. Len(w) : i < j /\ EventOf(w[j], s) => w[j].seq > w[i].reply.latest
    BY <1>1, <2>1 DEF RepliesFrom
  <2>3. ASSUME NEW j \in 1 .. Len(v), i < j, EventOf(v[j], s) PROVE v[j].seq > v[i].reply.latest
    <3>1. CASE j \in 1 .. Len(w)
      <4>1. v[j] = w[j]
        BY <3>1 DEF Extended
      <4> QED
        BY <2>1, <2>2, <2>3, <3>1, <4>1
    <3>2. CASE j \notin 1 .. Len(w)
      <4>1. v[j] = f
        BY <3>2 DEF Extended
      <4>2. f.seq \in Nat /\ f.seq > m
        BY <2>3, <4>1
      <4> QED
        BY <2>1, <2>2, <4>1, <4>2
    <3> QED
      BY <3>1, <3>2
  <2> QED
    BY <2>1, <2>2, <2>3
<1>2. CASE i \notin 1 .. Len(w)
  <2>1. v[i] = f /\ \A j \in 1 .. Len(v) : ~(i < j)
    BY <1>2 DEF Extended
  <2> QED
    BY <2>1
<1> QED
  BY <1>1, <1>2

-----------------------------------------------------------------------------
(* The invariant: d is the only connect call.                              *)

CaughtUp(st, s, w, m) == HasSlot(st, s) /\ s \notin st.gaps => Owed(w, s, st.watermark[s], m)

\* The session's events up to a went ahead of the call, those held go on from a.
ReplayFrom(d, a, parked, ask, w, m) ==
  LET s == Head(d.todo).sid
      n == a + Len(parked)
  IN
  /\ \A i \in 1 .. Len(parked) : parked[i] = a + i
  /\ Owed(w, s, n, m)
  /\ \A k \in ask : k.id = d.id => k.since /\ k.sid = s /\ a <= k.at
  /\ RepliesFrom(w, d.id, s, a, m)
  /\ d.answered => d.reply.latest \in a .. n

\* A session that is not to be replayed any more lags only if the call knows.
ReplayLags(d, st, w, em) ==
  d.bad \/ \A s \in Sessions :
             (\A i \in 1 .. Len(d.todo) : d.todo[i].sid # s) => CaughtUp(st, s, w, em[s])

Replaying(d, st, h, ask, w, em) ==
  LET s == Head(d.todo).sid IN
  /\ h.on /\ h.sid = s
  /\ HasSlot(st, s) => st.watermark[s] = d.last
  /\ \E a \in 0 .. MaxEvents : ReplayFrom(d, a, h.parked, ask, w, em[s])
  /\ ReplayLags(d, st, w, em)

Flowing(d, st, h, deg, ask, w, em) ==
  /\ InTurn(w)
  /\ \A s \in Sessions : \E n \in 0 .. MaxEvents : Owed(w, s, n, em[s])
  /\ d.pc = "joining" => ask = {} /\ \A i \in 1 .. Len(w) : w[i].type # "reply"
  /\ d.pc \in {"capabilities", "replaying"} => CallOnce(d, ask, w)
  /\ d.pc = "replaying" => Replaying(d, st, h, ask, w, em)
  /\ d.pc = "idle" => deg \/ \A s \in Sessions : CaughtUp(st, s, w, em[s])

Placed(d, socketState, h, ask, w) ==
  /\ d.answered => d.pc \in {"capabilities", "replaying"}
  /\ socketState = "connecting" => d.pc = "joining"
  /\ socketState = "closed" => d.pc = "idle" \/ d.answered
  /\ socketState # "open" => ask = {} /\ w = <<>>
  /\ h.on => d.pc = "replaying"

LagInv(c) ==
  /\ Placed(connector[c], state, hold, asked, wire)
  /\ state = "open" => Flowing(connector[c], stream, hold, degraded, asked, wire, emitted)

\* What one more frame does not change.
LEMMA StillOwed ==
  ASSUME NEW w \in Seq(Frames), NEW f, NEW v, Extended(w, f, v), NEW s, NEW n \in Nat,
         NEW m \in Nat, NEW more \in Nat,
         IF EventOf(f, s) THEN more = m + 1 /\ f.seq = m + 1 ELSE more = m,
         Owed(w, s, n, m)
  PROVE  Owed(v, s, n, more)
<1>1. CASE EventOf(f, s)
  BY <1>1, OwedMore
<1>2. CASE ~EventOf(f, s)
  BY <1>2, OwedThen
<1> QED
  BY <1>1, <1>2

\* f is the next event of its session, or no event, and more says what is emitted then.
FrameOfOne(f, em, more) ==
  /\ \A s \in Sessions : IF EventOf(f, s) THEN more[s] = em[s] + 1 /\ f.seq = em[s] + 1
                                          ELSE more[s] = em[s]
  /\ more \in [Sessions -> 0 .. MaxEvents]

LEMMA StillCaughtUp ==
  ASSUME NEW w \in Seq(Frames), NEW f, NEW v, Extended(w, f, v),
         NEW em \in [Sessions -> 0 .. MaxEvents], NEW more, FrameOfOne(f, em, more),
         NEW st \in Streams, NEW s \in Sessions, CaughtUp(st, s, w, em[s])
  PROVE  CaughtUp(st, s, v, more[s])
<1> SUFFICES ASSUME HasSlot(st, s), s \notin st.gaps PROVE Owed(v, s, st.watermark[s], more[s])
  BY DEF CaughtUp
<1>1. Owed(w, s, st.watermark[s], em[s])
  BY DEF CaughtUp
<1>2. st.watermark[s] \in Nat /\ em[s] \in Nat /\ more[s] \in Nat
  BY StreamFields, MaxEventsType DEF FrameOfOne
<1>3. IF EventOf(f, s) THEN more[s] = em[s] + 1 /\ f.seq = em[s] + 1 ELSE more[s] = em[s]
  BY DEF FrameOfOne
<1> QED
  BY <1>1, <1>2, <1>3, StillOwed

LEMMA StillInTurn ==
  ASSUME NEW w \in Seq(Frames), NEW f, NEW v, Extended(w, f, v),
         NEW em \in [Sessions -> 0 .. MaxEvents], NEW more, FrameOfOne(f, em, more),
         InTurn(w), \A s \in Sessions : \E n \in 0 .. MaxEvents : Owed(w, s, n, em[s])
  PROVE  /\ InTurn(v)
         /\ \A s \in Sessions : \E n \in 0 .. MaxEvents : Owed(v, s, n, more[s])
<1>1. ASSUME NEW s \in Sessions, EventOf(f, s), NEW i \in 1 .. Len(w), EventOf(w[i], s)
      PROVE  w[i].seq < f.seq
  <2>1. PICK n \in 0 .. MaxEvents : Owed(w, s, n, em[s])
    OBVIOUS
  <2>2. w[i].seq \in n + 1 .. em[s]
    BY <1>1, <2>1 DEF Owed
  <2>3. em[s] \in Nat /\ f.seq = em[s] + 1 /\ n \in Nat
    BY <1>1, MaxEventsType DEF FrameOfOne
  <2> QED
    BY <2>2, <2>3
<1>2. InTurn(v)
  BY <1>1, InTurnThen
<1>3. ASSUME NEW s \in Sessions PROVE \E n \in 0 .. MaxEvents : Owed(v, s, n, more[s])
  <2>1. PICK n \in 0 .. MaxEvents : Owed(w, s, n, em[s])
    OBVIOUS
  <2>2. n \in Nat /\ em[s] \in Nat /\ more[s] \in Nat
    BY MaxEventsType DEF FrameOfOne
  <2>3. IF EventOf(f, s) THEN more[s] = em[s] + 1 /\ f.seq = em[s] + 1 ELSE more[s] = em[s]
    BY DEF FrameOfOne
  <2> QED
    BY <2>1, <2>2, <2>3, StillOwed
<1> QED
  BY <1>2, <1>3

\* A replay under way, after f: if f answers its call, it does so completely.
LEMMA StillReplaying ==
  ASSUME NEW w \in Seq(Frames), NEW f, NEW v, Extended(w, f, v),
         NEW em \in [Sessions -> 0 .. MaxEvents], NEW more, FrameOfOne(f, em, more),
         NEW st \in Streams, NEW h \in Holds, NEW d \in Attempts, d.todo # <<>>,
         NEW ask, NEW less, less \subseteq ask, Replaying(d, st, h, ask, w, em),
         NEW s, s = Head(d.todo).sid,
         ReplyTo(f, d.id) => \E k \in ask : k.id = d.id /\ k.at \in Nat /\ f.reply.latest \in k.at .. more[s]
  PROVE  Replaying(d, st, h, less, v, more)
<1>1. s \in Sessions /\ Len(h.parked) \in Nat
  <2>1. d.todo \in Seq(Entries) /\ h.parked \in Seq(Seqs)
    BY DEF Attempts, Holds
  <2>2. Head(d.todo) \in Entries
    BY <2>1
  <2> QED
    BY <2>1, <2>2 DEF Entries
<1>2. em[s] \in Nat /\ more[s] \in Nat
        /\ IF EventOf(f, s) THEN more[s] = em[s] + 1 /\ f.seq = em[s] + 1 ELSE more[s] = em[s]
  BY <1>1, MaxEventsType DEF FrameOfOne
<1>3. /\ h.on /\ h.sid = s
      /\ HasSlot(st, s) => st.watermark[s] = d.last
      /\ ReplayLags(d, st, w, em)
  BY DEF Replaying
<1>4. PICK a \in 0 .. MaxEvents : ReplayFrom(d, a, h.parked, ask, w, em[s])
  BY DEF Replaying
<1> DEFINE n == a + Len(h.parked)
<1>5. /\ \A i \in 1 .. Len(h.parked) : h.parked[i] = a + i
      /\ Owed(w, s, n, em[s])
      /\ \A k \in ask : k.id = d.id => k.since /\ k.sid = s /\ a <= k.at
      /\ RepliesFrom(w, d.id, s, a, em[s])
      /\ d.answered => d.reply.latest \in a .. n
  BY <1>4 DEF ReplayFrom
<1>6. a \in Nat /\ n \in Nat
  BY <1>1, MaxEventsType
<1> HIDE DEF n
<1>7. Owed(v, s, n, more[s])
  BY <1>2, <1>5, <1>6, StillOwed
<1>8. RepliesFrom(v, d.id, s, a, more[s])
  <2>1. EventOf(f, s) => f.seq \in Nat /\ f.seq > em[s]
    BY <1>2
  <2>2. ReplyTo(f, d.id) => f.reply.latest \in a .. more[s]
    <3>1. SUFFICES ASSUME ReplyTo(f, d.id) PROVE f.reply.latest \in a .. more[s]
      OBVIOUS
    <3>2. PICK k \in ask : k.id = d.id /\ k.at \in Nat /\ f.reply.latest \in k.at .. more[s]
      BY <3>1
    <3>3. a <= k.at
      BY <1>5, <3>2
    <3> QED
      BY <1>2, <1>6, <3>2, <3>3
  <2>3. more[s] >= em[s]
    BY <1>2
  <2> QED
    BY <1>2, <1>5, <1>6, <2>1, <2>2, <2>3, RepliesThen
<1>9. ReplayFrom(d, a, h.parked, less, v, more[s])
  BY <1>5, <1>7, <1>8 DEF ReplayFrom, n
<1>10. ReplayLags(d, st, v, more)
  BY <1>3, StillCaughtUp DEF ReplayLags
<1> QED
  BY <1>3, <1>9, <1>10 DEF Replaying

LEMMA EventFlows ==
  ASSUME NEW w \in Seq(Frames), NEW f, NEW v, Extended(w, f, v), f.type = "event",
         NEW em \in [Sessions -> 0 .. MaxEvents], NEW more, FrameOfOne(f, em, more),
         NEW st \in Streams, NEW h \in Holds, NEW d \in Attempts, d.pc = "replaying" => d.todo # <<>>,
         NEW deg, NEW ask, Flowing(d, st, h, deg, ask, w, em)
  PROVE  Flowing(d, st, h, deg, ask, v, more)
<1>1. InTurn(v) /\ \A s \in Sessions : \E n \in 0 .. MaxEvents : Owed(v, s, n, more[s])
  BY StillInTurn DEF Flowing
<1>2. ASSUME NEW i \in 1 .. Len(v), v[i].type = "reply" PROVE i \in 1 .. Len(w) /\ v[i] = w[i]
  BY <1>2 DEF Extended
<1>3. d.pc = "joining" => ask = {} /\ \A i \in 1 .. Len(v) : v[i].type # "reply"
  BY <1>2 DEF Flowing
<1>4. ASSUME CallOnce(d, ask, w) PROVE CallOnce(d, ask, v)
  <2>1. /\ \A k \in ask : k.id <= d.id
        /\ \A k \in ask : k.id = d.id => ~d.answered /\ \A o \in ask : o.id = d.id => o = k
    BY <1>4 DEF CallOnce
  <2>2. ASSUME NEW i \in 1 .. Len(v), v[i].type = "reply" PROVE v[i].id <= d.id
    BY <1>2, <1>4, <2>2 DEF CallOnce
  <2>3. ASSUME NEW i \in 1 .. Len(v), ReplyTo(v[i], d.id)
        PROVE  ~d.answered /\ (\A k \in ask : k.id # d.id)
    BY <1>2, <1>4, <2>3 DEF CallOnce, ReplyTo
  <2>4. ASSUME NEW i \in 1 .. Len(v), NEW j \in 1 .. Len(v), ReplyTo(v[i], d.id), ReplyTo(v[j], d.id)
        PROVE  j = i
    BY <1>2, <1>4, <2>4 DEF CallOnce, ReplyTo
  <2> QED
    BY <2>1, <2>2, <2>3, <2>4 DEF CallOnce
<1>5. d.pc \in {"capabilities", "replaying"} => CallOnce(d, ask, v)
  BY <1>4 DEF Flowing
<1>6. ASSUME d.pc = "replaying" PROVE Replaying(d, st, h, ask, v, more)
  <2>1. PICK s : s = Head(d.todo).sid
    OBVIOUS
  <2>2. ~ReplyTo(f, d.id)
    BY DEF ReplyTo
  <2>3. Replaying(d, st, h, ask, w, em)
    BY <1>6 DEF Flowing
  <2> QED
    BY <1>6, <2>1, <2>2, <2>3, StillReplaying
<1>7. d.pc = "idle" => deg \/ \A s \in Sessions : CaughtUp(st, s, v, more[s])
  BY StillCaughtUp DEF Flowing
<1> QED
  BY <1>1, <1>3, <1>5, <1>6, <1>7 DEF Flowing

\* The reply to call k is sent.
LEMMA ReplyFlows ==
  ASSUME NEW w \in Seq(Frames), NEW ask \in SUBSET Calls, NEW k \in ask, NEW f, NEW v,
         Extended(w, f, v), f.type = "reply", f.id = k.id,
         NEW em \in [Sessions -> 0 .. MaxEvents],
         k.since => f.reply.latest = em[k.sid] /\ k.at <= em[k.sid],
         NEW st \in Streams, NEW h \in Holds, NEW d \in Attempts, d.pc = "replaying" => d.todo # <<>>,
         NEW deg, Flowing(d, st, h, deg, ask, w, em)
  PROVE  Flowing(d, st, h, deg, ask \ {k}, v, em)
<1> DEFINE less == ask \ {k}
<1>1. FrameOfOne(f, em, em)
  BY DEF FrameOfOne, EventOf
<1>2. InTurn(v) /\ \A s \in Sessions : \E n \in 0 .. MaxEvents : Owed(v, s, n, em[s])
  BY <1>1, StillInTurn DEF Flowing
<1>3. d.pc # "joining"
  BY DEF Flowing
<1>4. ASSUME CallOnce(d, ask, w) PROVE CallOnce(d, less, v)
  <2>1. /\ \A o \in less : o.id <= d.id
        /\ \A o \in less : o.id = d.id => ~d.answered /\ \A p \in less : p.id = d.id => p = o
    BY <1>4 DEF CallOnce
  <2>2. ASSUME NEW i \in 1 .. Len(v) PROVE (i \in 1 .. Len(w) /\ v[i] = w[i]) \/ (i = Len(v) /\ v[i] = f)
    BY DEF Extended
  <2>3. ASSUME NEW i \in 1 .. Len(v), v[i].type = "reply" PROVE v[i].id <= d.id
    BY <1>4, <2>2, <2>3 DEF CallOnce
  <2>4. CASE k.id = d.id
    <3>1. ~d.answered /\ \A o \in less : o.id # d.id
      BY <1>4, <2>4 DEF CallOnce
    <3>2. ASSUME NEW i \in 1 .. Len(v), ReplyTo(v[i], d.id) PROVE i = Len(v)
      <4>1. ASSUME i \in 1 .. Len(w), v[i] = w[i] PROVE FALSE
        BY <1>4, <2>4, <3>2, <4>1 DEF CallOnce
      <4> QED
        BY <2>2, <4>1
    <3> QED
      BY <2>1, <2>3, <3>1, <3>2 DEF CallOnce
  <2>5. CASE k.id # d.id
    <3>1. ASSUME NEW i \in 1 .. Len(v), ReplyTo(v[i], d.id) PROVE i \in 1 .. Len(w) /\ v[i] = w[i]
      BY <2>2, <2>5, <3>1 DEF ReplyTo
    <3>2. ASSUME NEW i \in 1 .. Len(v), ReplyTo(v[i], d.id)
          PROVE  ~d.answered /\ (\A o \in less : o.id # d.id)
      BY <1>4, <3>1, <3>2 DEF CallOnce
    <3>3. ASSUME NEW i \in 1 .. Len(v), NEW j \in 1 .. Len(v), ReplyTo(v[i], d.id), ReplyTo(v[j], d.id)
          PROVE  j = i
      BY <1>4, <3>1, <3>3 DEF CallOnce
    <3> QED
      BY <2>1, <2>3, <3>2, <3>3 DEF CallOnce
  <2> QED
    BY <2>4, <2>5
<1>5. d.pc \in {"capabilities", "replaying"} => CallOnce(d, less, v)
  BY <1>4 DEF Flowing
<1>6. ASSUME d.pc = "replaying" PROVE Replaying(d, st, h, less, v, em)
  <2>1. PICK s : s = Head(d.todo).sid
    OBVIOUS
  <2>2. Replaying(d, st, h, ask, w, em)
    BY <1>6 DEF Flowing
  <2>3. ReplyTo(f, d.id) => \E o \in ask : o.id = d.id /\ o.at \in Nat /\ f.reply.latest \in o.at .. em[s]
    <3>1. SUFFICES ASSUME k.id = d.id PROVE k.at \in Nat /\ f.reply.latest \in k.at .. em[s]
      BY DEF ReplyTo
    <3>2. k.since /\ k.sid = s
      BY <2>1, <2>2, <3>1 DEF Replaying, ReplayFrom
    <3>3. k.sid \in Sessions /\ k.at \in Nat
      BY MaxEventsType DEF Calls
    <3>4. em[s] \in Nat /\ f.reply.latest = em[s] /\ k.at <= em[s]
      BY <3>2, <3>3, MaxEventsType
    <3> QED
      BY <3>3, <3>4
  <2> QED
    BY <1>1, <1>6, <2>1, <2>2, <2>3, StillReplaying
<1>7. d.pc = "idle" => deg \/ \A s \in Sessions : CaughtUp(st, s, v, em[s])
  BY <1>1, StillCaughtUp DEF Flowing
<1> QED
  BY <1>2, <1>3, <1>5, <1>6, <1>7 DEF Flowing

-----------------------------------------------------------------------------
(* The first frame is taken.                                               *)

LEMMA CallOnceNext ==
  ASSUME NEW w, NEW v, Shifted(w, v), NEW d, NEW ask, CallOnce(d, ask, w)
  PROVE  CallOnce(d, ask, v)
<1>1. ASSUME NEW i \in 1 .. Len(v) PROVE i + 1 \in 1 .. Len(w) /\ v[i] = w[i + 1]
  BY DEF Shifted
<1>2. /\ \A k \in ask : k.id <= d.id
      /\ \A k \in ask : k.id = d.id => ~d.answered /\ \A o \in ask : o.id = d.id => o = k
  BY DEF CallOnce
<1>3. ASSUME NEW i \in 1 .. Len(v), v[i].type = "reply" PROVE v[i].id <= d.id
  BY <1>1, <1>3 DEF CallOnce
<1>4. ASSUME NEW i \in 1 .. Len(v), ReplyTo(v[i], d.id)
      PROVE  /\ ~d.answered /\ \A k \in ask : k.id # d.id
             /\ \A j \in 1 .. Len(v) : ReplyTo(v[j], d.id) => j = i
  <2>1. i + 1 \in 1 .. Len(w) /\ ReplyTo(w[i + 1], d.id)
    BY <1>1, <1>4
  <2>2. /\ ~d.answered /\ \A k \in ask : k.id # d.id
        /\ \A j \in 1 .. Len(w) : ReplyTo(w[j], d.id) => j = i + 1
    BY <2>1 DEF CallOnce
  <2>3. ASSUME NEW j \in 1 .. Len(v), ReplyTo(v[j], d.id) PROVE j = i
    <3>1. j + 1 \in 1 .. Len(w) /\ ReplyTo(w[j + 1], d.id)
      BY <1>1, <2>3
    <3>2. j + 1 = i + 1
      BY <2>2, <3>1
    <3> QED
      BY <3>2
  <2> QED
    BY <2>2, <2>3
<1> QED
  BY <1>2, <1>3, <1>4 DEF CallOnce

\* Something is owed to each session after the first frame as well.
LEMMA OwedOn ==
  ASSUME NEW w, NEW v, Shifted(w, v), InTurn(w), NEW em \in [Sessions -> 0 .. MaxEvents],
         \A s \in Sessions : \E n \in 0 .. MaxEvents : Owed(w, s, n, em[s])
  PROVE  \A s \in Sessions : \E n \in 0 .. MaxEvents : Owed(v, s, n, em[s])
<1> SUFFICES ASSUME NEW s \in Sessions PROVE \E n \in 0 .. MaxEvents : Owed(v, s, n, em[s])
  OBVIOUS
<1>1. PICK n \in 0 .. MaxEvents : Owed(w, s, n, em[s])
  OBVIOUS
<1>2. n \in Nat /\ em[s] \in Nat /\ em[s] \in 0 .. MaxEvents
  BY MaxEventsType
<1>3. CASE EventOf(w[1], s)
  <2>1. Owed(v, s, n + 1, em[s])
    BY <1>1, <1>2, <1>3, OwedTaken
  <2>2. n + 1 \in 0 .. MaxEvents
    BY <1>2, <2>1, MaxEventsType DEF Owed
  <2> QED
    BY <2>1, <2>2
<1>4. CASE ~EventOf(w[1], s)
  BY <1>1, <1>2, <1>4, OwedNext
<1> QED
  BY <1>3, <1>4

LEMMA CaughtUpNext ==
  ASSUME NEW w, NEW v, Shifted(w, v), NEW em \in [Sessions -> 0 .. MaxEvents],
         NEW st \in Streams, NEW s \in Sessions, ~EventOf(w[1], s), CaughtUp(st, s, w, em[s])
  PROVE  CaughtUp(st, s, v, em[s])
<1> SUFFICES ASSUME HasSlot(st, s), s \notin st.gaps PROVE Owed(v, s, st.watermark[s], em[s])
  BY DEF CaughtUp
<1>1. Owed(w, s, st.watermark[s], em[s])
  BY DEF CaughtUp
<1>2. st.watermark[s] \in Nat /\ em[s] \in Nat
  BY StreamFields, MaxEventsType
<1> QED
  BY <1>1, <1>2, OwedNext

\* e is attempt d with the reply in f.
Answers(f, d, e) == e = [d EXCEPT !.answered = TRUE, !.reply = f.reply]

LEMMA TakenReplyFlows ==
  ASSUME NEW w, NEW v, Shifted(w, v), NEW d \in Attempts, d.pc \in {"capabilities", "replaying"},
         d.pc = "replaying" => d.todo # <<>>, ReplyTo(w[1], d.id),
         NEW e, Answers(w[1], d, e),
         NEW em \in [Sessions -> 0 .. MaxEvents], NEW st \in Streams, NEW h \in Holds,
         NEW deg, NEW ask, Flowing(d, st, h, deg, ask, w, em)
  PROVE  Flowing(e, st, h, deg, ask, v, em)
<1>1. /\ e.pc = d.pc /\ e.id = d.id /\ e.todo = d.todo /\ e.last = d.last /\ e.bad = d.bad
      /\ e.answered /\ e.reply = w[1].reply
  BY DEF Answers, Attempts
<1>2. ASSUME NEW s \in Sessions PROVE ~EventOf(w[1], s)
  BY DEF ReplyTo, EventOf
<1>3. InTurn(v) /\ \A s \in Sessions : \E n \in 0 .. MaxEvents : Owed(v, s, n, em[s])
  BY InTurnNext, OwedOn DEF Flowing
<1>4. CallOnce(d, ask, w)
  BY DEF Flowing
<1>5. /\ \A k \in ask : k.id # d.id
      /\ \A i \in 1 .. Len(v) : ~ReplyTo(v[i], d.id)
  <2>1. 1 \in 1 .. Len(w)
    BY DEF Shifted
  <2>2. /\ \A k \in ask : k.id # d.id
        /\ \A j \in 1 .. Len(w) : ReplyTo(w[j], d.id) => j = 1
    BY <1>4, <2>1 DEF CallOnce
  <2>3. ASSUME NEW i \in 1 .. Len(v), ReplyTo(v[i], d.id) PROVE FALSE
    <3>1. i + 1 \in 1 .. Len(w) /\ v[i] = w[i + 1]
      BY DEF Shifted
    <3>2. i + 1 = 1
      BY <2>2, <2>3, <3>1
    <3> QED
      BY <3>2
  <2> QED
    BY <2>2, <2>3
<1>6. CallOnce(e, ask, v)
  <2>1. CallOnce(d, ask, v)
    BY <1>4, CallOnceNext
  <2> QED
    BY <1>1, <1>5, <2>1 DEF CallOnce
<1>7. ASSUME d.pc = "replaying" PROVE Replaying(e, st, h, ask, v, em)
  <2>1. Replaying(d, st, h, ask, w, em)
    BY <1>7 DEF Flowing
  <2>2. PICK s : s = Head(d.todo).sid
    OBVIOUS
  <2>3. s \in Sessions /\ Len(h.parked) \in Nat
    <3>1. d.todo \in Seq(Entries) /\ h.parked \in Seq(Seqs)
      BY DEF Attempts, Holds
    <3>2. Head(d.todo) \in Entries
      BY <1>7, <3>1
    <3> QED
      BY <2>2, <3>1, <3>2 DEF Entries
  <2>4. PICK a \in 0 .. MaxEvents : ReplayFrom(d, a, h.parked, ask, w, em[s])
    BY <2>1, <2>2 DEF Replaying
  <2> DEFINE n == a + Len(h.parked)
  <2>5. /\ \A i \in 1 .. Len(h.parked) : h.parked[i] = a + i
        /\ Owed(w, s, n, em[s])
        /\ RepliesFrom(w, d.id, s, a, em[s])
    BY <2>2, <2>4 DEF ReplayFrom
  <2>6. a \in Nat /\ n \in Nat /\ em[s] \in Nat
    BY <2>3, MaxEventsType
  <2> HIDE DEF n
  <2>7. Owed(v, s, n, em[s]) /\ RepliesFrom(v, d.id, s, a, em[s])
    BY <1>2, <2>3, <2>5, <2>6, OwedNext, RepliesNext
  <2>8. w[1].reply.latest \in a .. n
    BY <2>5, <2>6, ReplyTaken
  <2>9. ReplayFrom(e, a, h.parked, ask, v, em[s])
    BY <1>1, <1>5, <2>2, <2>5, <2>7, <2>8 DEF ReplayFrom, n
  <2>10. ReplayLags(e, st, v, em)
    <3>1. ReplayLags(d, st, w, em)
      BY <2>1 DEF Replaying
    <3> QED
      BY <1>1, <1>2, <3>1, CaughtUpNext DEF ReplayLags
  <2> QED
    BY <1>1, <2>1, <2>2, <2>9, <2>10 DEF Replaying
<1> QED
  BY <1>1, <1>3, <1>6, <1>7 DEF Flowing

\* g is the hold h with event n.
Holding(h, n, g) == g = [h EXCEPT !.parked = Append(@, n)]

\* An event of the session that is being replayed is held.
LEMMA HeldEventFlows ==
  ASSUME NEW w, NEW v, Shifted(w, v), NEW d \in Attempts, d.pc = "replaying", d.todo # <<>>,
         NEW h \in Holds, NEW s \in Sessions, h.sid = s, EventOf(w[1], s), w[1].seq \in Seqs,
         NEW g, Holding(h, w[1].seq, g),
         NEW em \in [Sessions -> 0 .. MaxEvents], NEW st \in Streams,
         NEW deg, NEW ask, Flowing(d, st, h, deg, ask, w, em)
  PROVE  Flowing(d, st, g, deg, ask, v, em)
<1>1. InTurn(w) /\ CallOnce(d, ask, w) /\ Replaying(d, st, h, ask, w, em)
  BY DEF Flowing
<1>2. InTurn(v) /\ \A x \in Sessions : \E n \in 0 .. MaxEvents : Owed(v, x, n, em[x])
  BY InTurnNext, OwedOn DEF Flowing
<1>3. CallOnce(d, ask, v)
  BY <1>1, CallOnceNext
<1>4. Head(d.todo).sid = s /\ h.on
  BY <1>1 DEF Replaying
<1>5. h.parked \in Seq(Seqs) /\ g.on = h.on /\ g.sid = h.sid /\ g.parked = Append(h.parked, w[1].seq)
  BY DEF Holds, Holding
<1>6. PICK a \in 0 .. MaxEvents : ReplayFrom(d, a, h.parked, ask, w, em[s])
  BY <1>1, <1>4 DEF Replaying
<1> DEFINE n == a + Len(h.parked)
<1>7. /\ \A i \in 1 .. Len(h.parked) : h.parked[i] = a + i
      /\ Owed(w, s, n, em[s])
      /\ \A k \in ask : k.id = d.id => k.since /\ k.sid = s /\ a <= k.at
      /\ RepliesFrom(w, d.id, s, a, em[s])
      /\ d.answered => d.reply.latest \in a .. n
  BY <1>4, <1>6 DEF ReplayFrom
<1>8. a \in Nat /\ Len(h.parked) \in Nat /\ n \in Nat /\ em[s] \in Nat
  BY <1>5, MaxEventsType
<1>9. w[1].seq = n + 1 /\ Owed(v, s, n + 1, em[s])
  <2> HIDE DEF n
  <2> QED
    BY <1>1, <1>7, <1>8, OwedTaken
<1>10. RepliesFrom(v, d.id, s, a, em[s])
  BY <1>7, RepliesNext
<1>11. Len(g.parked) = Len(h.parked) + 1 /\ \A i \in 1 .. Len(g.parked) : g.parked[i] = a + i
  <2>1. Len(g.parked) = Len(h.parked) + 1
    BY <1>5
  <2>2. ASSUME NEW i \in 1 .. Len(g.parked) PROVE g.parked[i] = a + i
    <3>1. CASE i \in 1 .. Len(h.parked)
      BY <1>5, <1>7, <3>1
    <3>2. CASE i \notin 1 .. Len(h.parked)
      <4>1. i = Len(h.parked) + 1
        BY <1>8, <2>1, <3>2
      <4>2. a + i = n + 1
        BY <1>8, <4>1
      <4>3. g.parked[i] = n + 1
        BY <1>5, <1>9, <4>1
      <4> HIDE DEF n
      <4> QED
        BY <4>2, <4>3
    <3> QED
      BY <3>1, <3>2
  <2> QED
    BY <2>1, <2>2
<1>12. ReplayFrom(d, a, g.parked, ask, v, em[s])
  <2>1. a + Len(g.parked) = n + 1
    BY <1>8, <1>11
  <2>2. d.answered => d.reply.latest \in a .. n + 1
    BY <1>7, <1>8
  <2> HIDE DEF n
  <2> QED
    BY <1>4, <1>7, <1>9, <1>10, <1>11, <2>1, <2>2 DEF ReplayFrom
<1>13. ReplayLags(d, st, v, em)
  <2>1. ReplayLags(d, st, w, em)
    BY <1>1 DEF Replaying
  <2>2. ASSUME NEW x \in Sessions, \A i \in 1 .. Len(d.todo) : d.todo[i].sid # x PROVE ~EventOf(w[1], x)
    <3>1. d.todo \in Seq(Entries)
      BY DEF Attempts
    <3>2. 1 \in 1 .. Len(d.todo) /\ Head(d.todo) = d.todo[1]
      BY <3>1
    <3>3. x # s
      BY <1>4, <2>2, <3>2
    <3> QED
      BY <3>3 DEF EventOf
  <2> QED
    BY <2>1, <2>2, CaughtUpNext DEF ReplayLags
<1>14. Replaying(d, st, g, ask, v, em)
  BY <1>1, <1>4, <1>5, <1>12, <1>13 DEF Replaying
<1> QED
  BY <1>2, <1>3, <1>14 DEF Flowing

\* q is st after _accept_event has looked at event n of s.
Looked(st, s, n, q) == q = IF Acceptable(st, s, n, FALSE) THEN Accepted(st, s, n) ELSE st

\* q lags in no session that st does not lag in, and has at most the event of s more.
KeepsUp(st, q, s, w, v, em) ==
  /\ \A x \in Sessions : x # s => SlotKept(st, q, x)
  /\ \A x \in Sessions : CaughtUp(st, x, w, em[x]) => CaughtUp(q, x, v, em[x])

\* Otherwise it is accepted, or dropped by a session that lags already.
LEMMA SeenEventCatchesUp ==
  ASSUME NEW w, NEW v, Shifted(w, v), InTurn(w), NEW s \in Sessions, EventOf(w[1], s),
         NEW n \in Seqs, n = w[1].seq, NEW em \in [Sessions -> 0 .. MaxEvents],
         NEW from \in 0 .. MaxEvents, Owed(w, s, from, em[s]),
         NEW st, StreamInv(st),
         NEW q, Looked(st, s, n, q)
  PROVE  KeepsUp(st, q, s, w, v, em)
<1> SUFFICES /\ \A x \in Sessions : x # s => SlotKept(st, q, x)
             /\ \A x \in Sessions : CaughtUp(st, x, w, em[x]) => CaughtUp(q, x, v, em[x])
  BY DEF KeepsUp
<1>1. CASE Acceptable(st, s, n, FALSE)
  <2>1. q = Accepted(st, s, n)
    BY <1>1 DEF Looked
  <2>2. StreamInv(q) /\ Marked(st, s, n, q)
    BY <1>1, <2>1, AcceptedKeeps
  <2>3. ASSUME NEW x \in Sessions, x # s, CaughtUp(st, x, w, em[x]) PROVE CaughtUp(q, x, v, em[x])
    <3>1. SlotKept(st, q, x)
      BY <2>2, <2>3 DEF Marked
    <3>2. ~EventOf(w[1], x) /\ st \in Streams
      BY <2>3 DEF EventOf, StreamInv, Consistent, Shaped
    <3>3. CaughtUp(st, x, v, em[x])
      BY <2>3, <3>2, CaughtUpNext
    <3> QED
      BY <3>1, <3>3 DEF CaughtUp, SlotKept
  <2>4. from \in Nat /\ em[s] \in Nat
    BY MaxEventsType
  <2>5. n = from + 1 /\ Owed(v, s, from + 1, em[s])
    BY <2>4, OwedTaken
  <2>6. CaughtUp(q, s, v, em[s])
    BY <2>2, <2>5 DEF CaughtUp, Marked
  <2> QED
    BY <2>2, <2>3, <2>6 DEF Marked
<1>2. CASE ~Acceptable(st, s, n, FALSE)
  <2>1. q = st /\ st \in Streams /\ st.watermark \in [Sessions -> 0 .. MaxEvents]
    BY <1>2, StreamFields DEF Looked, StreamInv, Consistent, Shaped
  <2>2. ASSUME NEW x \in Sessions, CaughtUp(st, x, w, em[x]) PROVE CaughtUp(q, x, v, em[x])
    <3>1. CASE x # s
      <4>1. ~EventOf(w[1], x)
        BY <3>1 DEF EventOf
      <4> QED
        BY <2>1, <2>2, <4>1, CaughtUpNext
    <3>2. CASE x = s
      <4>1. SUFFICES ASSUME HasSlot(st, s), s \notin st.gaps PROVE FALSE
        BY <2>1, <3>2 DEF CaughtUp
      <4>2. st.watermark[s] \in Nat /\ em[s] \in Nat
        BY <2>1, MaxEventsType
      <4>3. Owed(w, s, st.watermark[s], em[s])
        BY <2>2, <3>2, <4>1 DEF CaughtUp
      <4>4. n = st.watermark[s] + 1
        BY <4>2, <4>3, OwedTaken
      <4> QED
        BY <1>2, <4>2, <4>4 DEF Acceptable
    <3> QED
      BY <3>1, <3>2
  <2>3. \A x \in Sessions : SlotKept(st, q, x)
    BY <2>1 DEF SlotKept
  <2> QED
    BY <2>1, <2>2, <2>3
<1> QED
  BY <1>1, <1>2

LEMMA SeenEventFlows ==
  ASSUME NEW w, NEW v, Shifted(w, v), NEW d \in Attempts, d.pc = "replaying" => d.todo # <<>>,
         NEW h \in Holds, NEW s \in Sessions, EventOf(w[1], s), ~(h.on /\ h.sid = s),
         NEW n \in Seqs, n = w[1].seq, NEW em \in [Sessions -> 0 .. MaxEvents],
         NEW st, StreamInv(st),
         NEW q, Looked(st, s, n, q),
         NEW deg, NEW ask, Flowing(d, st, h, deg, ask, w, em)
  PROVE  Flowing(d, q, h, deg, ask, v, em)
<1>1. InTurn(w) /\ \A x \in Sessions : \E k \in 0 .. MaxEvents : Owed(w, x, k, em[x])
  BY DEF Flowing
<1>2. InTurn(v) /\ \A x \in Sessions : \E k \in 0 .. MaxEvents : Owed(v, x, k, em[x])
  BY <1>1, InTurnNext, OwedOn
<1>3. PICK from \in 0 .. MaxEvents : Owed(w, s, from, em[s])
  BY <1>1
<1>4. /\ \A x \in Sessions : x # s => SlotKept(st, q, x)
      /\ \A x \in Sessions : CaughtUp(st, x, w, em[x]) => CaughtUp(q, x, v, em[x])
  <2>1. KeepsUp(st, q, s, w, v, em)
    BY <1>1, <1>3, SeenEventCatchesUp
  <2> QED
    BY <2>1 DEF KeepsUp
<1>5. ASSUME NEW i \in 1 .. Len(v) PROVE i + 1 \in 1 .. Len(w) /\ v[i] = w[i + 1]
  BY DEF Shifted
<1>6. d.pc = "joining" => ask = {} /\ \A i \in 1 .. Len(v) : v[i].type # "reply"
  BY <1>5 DEF Flowing
<1>7. d.pc \in {"capabilities", "replaying"} => CallOnce(d, ask, v)
  BY CallOnceNext DEF Flowing
<1>8. ASSUME d.pc = "replaying" PROVE Replaying(d, q, h, ask, v, em)
  <2>1. Replaying(d, st, h, ask, w, em)
    BY <1>8 DEF Flowing
  <2>2. PICK z : z = Head(d.todo).sid
    OBVIOUS
  <2>3. z \in Sessions /\ Len(h.parked) \in Nat
    <3>1. d.todo \in Seq(Entries) /\ h.parked \in Seq(Seqs)
      BY DEF Attempts, Holds
    <3>2. Head(d.todo) \in Entries
      BY <1>8, <3>1
    <3> QED
      BY <2>2, <3>1, <3>2 DEF Entries
  <2>4. /\ h.on /\ h.sid = z /\ z # s
        /\ HasSlot(st, z) => st.watermark[z] = d.last
        /\ ReplayLags(d, st, w, em)
    BY <2>1, <2>2 DEF Replaying
  <2>5. HasSlot(q, z) => q.watermark[z] = d.last
    BY <1>4, <2>3, <2>4 DEF SlotKept
  <2>6. PICK a \in 0 .. MaxEvents : ReplayFrom(d, a, h.parked, ask, w, em[z])
    BY <2>1, <2>2 DEF Replaying
  <2> DEFINE k == a + Len(h.parked)
  <2>7. Owed(w, z, k, em[z]) /\ RepliesFrom(w, d.id, z, a, em[z])
    BY <2>2, <2>6 DEF ReplayFrom
  <2>8. k \in Nat /\ em[z] \in Nat /\ ~EventOf(w[1], z)
    BY <2>3, <2>4, MaxEventsType DEF EventOf
  <2> HIDE DEF k
  <2>9. Owed(v, z, k, em[z]) /\ RepliesFrom(v, d.id, z, a, em[z])
    BY <2>7, <2>8, OwedNext, RepliesNext
  <2>10. ReplayFrom(d, a, h.parked, ask, v, em[z])
    BY <2>2, <2>6, <2>9 DEF ReplayFrom, k
  <2>11. ReplayLags(d, q, v, em)
    BY <1>4, <2>4 DEF ReplayLags
  <2> QED
    BY <2>2, <2>4, <2>5, <2>10, <2>11 DEF Replaying
<1>9. d.pc = "idle" => deg \/ \A x \in Sessions : CaughtUp(q, x, v, em[x])
  BY <1>4 DEF Flowing
<1> QED
  BY <1>2, <1>6, <1>7, <1>8, <1>9 DEF Flowing

-----------------------------------------------------------------------------
(* The replay goes on to the next session.                                 *)

\* No call with this id has been made on this socket, nor with a later one.
FreshId(id, ask, w) ==
  /\ \A k \in ask : k.id <= id /\ k.id # id
  /\ \A i \in 1 .. Len(w) : w[i].type = "reply" => w[i].id <= id /\ w[i].id # id

LEMMA NextReplayFlows ==
  ASSUME NEW w, NEW id \in Nat, NEW ask, FreshId(id, ask, w),
         NEW em \in [Sessions -> 0 .. MaxEvents], NEW s \in Sessions, NEW k, NEW d, NEW h,
         k.id = id, k.sid = s, k.since, k.at = em[s],
         d.pc = "replaying", d.id = id, d.todo # <<>>, Head(d.todo).sid = s, ~d.answered,
         h.on, h.sid = s, h.parked = <<>>, NEW st, HasSlot(st, s) => st.watermark[s] = d.last,
         InTurn(w), \A x \in Sessions : \E n \in 0 .. MaxEvents : Owed(w, x, n, em[x]),
         ReplayLags(d, st, w, em), NEW deg
  PROVE  Flowing(d, st, h, deg, ask \cup {k}, w, em)
<1> DEFINE more == ask \cup {k}
<1>1. CallOnce(d, more, w)
  <2>1. /\ \A o \in more : o.id <= d.id
        /\ \A i \in 1 .. Len(w) : w[i].type = "reply" => w[i].id <= d.id
    <3>1. id <= id
      BY DEF FreshId
    <3> QED
      BY <3>1 DEF FreshId
  <2>2. \A o \in more : o.id = d.id => o = k
    BY DEF FreshId
  <2>3. \A i \in 1 .. Len(w) : ~ReplyTo(w[i], d.id)
    BY DEF FreshId, ReplyTo
  <2> QED
    BY <2>1, <2>2, <2>3 DEF CallOnce
<1>2. PICK a \in 0 .. MaxEvents : Owed(w, s, a, em[s])
  OBVIOUS
<1>3. ReplayFrom(d, a, h.parked, more, w, em[s])
  <2>1. Len(h.parked) = 0 /\ a + 0 = a /\ a <= em[s] /\ em[s] \in Nat
    BY <1>2, MaxEventsType DEF Owed
  <2>2. 1 .. Len(h.parked) = {}
    BY <2>1
  <2>3. Owed(w, s, a + Len(h.parked), em[s])
    BY <1>2, <2>1
  <2>4. \A o \in more : o.id = d.id => o.since /\ o.sid = s /\ a <= o.at
    BY <2>1 DEF FreshId
  <2>5. RepliesFrom(w, d.id, s, a, em[s])
    BY DEF RepliesFrom, FreshId, ReplyTo
  <2> QED
    BY <2>2, <2>3, <2>4, <2>5 DEF ReplayFrom
<1>4. Replaying(d, st, h, more, w, em)
  BY <1>3 DEF Replaying
<1> QED
  BY <1>1, <1>4 DEF Flowing

LEMMA ReplayNextLag ==
  ASSUME IInv, NEW c \in Connectors, At(c, "capabilities") \/ At(c, "replaying"), LagInv(c),
         NEW st, StreamInv(st), NEW todo \in Seq(Entries), NEW bad \in BOOLEAN, NEW id \in Nat,
         ReplayNext(c, st, todo, bad, id), stream' = st, UNCHANGED <<gateway, wire, link>>,
         state = "open" =>
           /\ FreshId(id, asked, wire)
           /\ bad \/ \A s \in Sessions :
                       (\A i \in 1 .. Len(todo) : todo[i].sid # s) => CaughtUp(st, s, wire, emitted[s])
  PROVE  LagInv(c)'
<1>1. state' = state /\ wire' = wire /\ emitted' = emitted
  BY DEF gateway, link
<1>2. /\ Placed(connector[c], state, hold, asked, wire)
      /\ state = "open" => Flowing(connector[c], stream, hold, degraded, asked, wire, emitted)
  BY DEF LagInv
<1>3. state = "open" =>
        InTurn(wire) /\ \A s \in Sessions : \E n \in 0 .. MaxEvents : Owed(wire, s, n, emitted[s])
  BY <1>2 DEF Flowing
<1>4. state # "connecting" /\ (state # "open" => asked = {} /\ wire = <<>>)
        /\ (hold.on => At(c, "replaying"))
  BY <1>2 DEF Placed, At
<1>5. emitted \in [Sessions -> 0 .. MaxEvents] /\ connector \in [Connectors -> Attempts]
  BY DEF IInv, GatewayTypes, AttemptTypes
<1>6. CASE todo = <<>> \/ state # "open"
  <2>1. /\ degraded' = Degraded(bad, todo)
        /\ hold' = IF At(c, "replaying") \/ todo # <<>> THEN NoHold ELSE hold
        /\ Goes(c, Idle) /\ asked' = asked
    BY <1>6 DEF ReplayNext
  <2>2. ~hold'.on
    BY <1>4, <2>1 DEF NoHold
  <2>3. connector'[c] = Idle
    BY <1>5, <2>1 DEF Goes
  <2>4. Idle.pc = "idle" /\ ~Idle.answered
    BY DEF Idle
  <2>5. Placed(Idle, state, hold', asked, wire)
    BY <1>4, <2>2, <2>4 DEF Placed
  <2>6. ASSUME state = "open" PROVE Flowing(Idle, st, hold', degraded', asked, wire, emitted)
    <3>1. todo = <<>> /\ degraded' = bad
      BY <1>6, <2>1, <2>6 DEF Degraded
    <3>2. \A i \in 1 .. Len(todo) : FALSE
      BY <3>1
    <3>3. degraded' \/ \A s \in Sessions : CaughtUp(st, s, wire, emitted[s])
      BY <2>6, <3>1, <3>2
    <3> QED
      BY <1>3, <2>4, <2>6, <3>3 DEF Flowing
  <2> QED
    BY <1>1, <2>1, <2>3, <2>5, <2>6 DEF LagInv
<1>7. CASE ~(todo = <<>> \/ state # "open")
  <2> DEFINE sid == Head(todo).sid
             last == IF HasSlot(st, sid) THEN st.watermark[sid] ELSE Head(todo).seen
             k == [by |-> c, id |-> id, sid |-> sid, last |-> last, at |-> emitted[sid],
                   since |-> TRUE]
             d == [Idle EXCEPT !.pc = "replaying", !.id = id, !.todo = todo, !.last = last,
                               !.bad = bad]
  <2>1. /\ hold' = [on |-> TRUE, sid |-> sid, parked |-> <<>>]
        /\ asked' = asked \cup {k}
        /\ Goes(c, d)
    BY <1>7 DEF ReplayNext
  <2>2. sid \in Sessions
    <3>1. Head(todo) \in Entries
      BY <1>7
    <3> QED
      BY <3>1 DEF Entries
  <2>3. connector'[c] = d
    BY <1>5, <2>1 DEF Goes
  <2>4. /\ d.pc = "replaying" /\ d.id = id /\ d.todo = todo /\ d.last = last /\ d.bad = bad
        /\ ~d.answered
    BY DEF Idle
  <2>5. k.id = id /\ k.sid = sid /\ k.since /\ k.at = emitted[sid]
    OBVIOUS
  <2>6. HasSlot(st, sid) => st.watermark[sid] = last
    OBVIOUS
  <2>7. hold'.on /\ hold'.sid = sid /\ hold'.parked = <<>>
    BY <2>1
  <2> HIDE DEF d, k, last
  <2>8. ReplayLags(d, st, wire, emitted)
    BY <1>7, <2>4 DEF ReplayLags
  <2>9. Head(d.todo).sid = sid /\ d.todo # <<>>
    BY <1>7, <2>4
  <2>10. FreshId(id, asked, wire) /\ state = "open"
    BY <1>7
  <2> HIDE DEF sid
  <2>11. Flowing(d, st, hold', degraded', asked \cup {k}, wire, emitted)
    BY <1>3, <1>5, <2>2, <2>4, <2>5, <2>6, <2>7, <2>8, <2>9, <2>10, NextReplayFlows
  <2>12. Placed(d, state, hold', asked', wire)
    BY <2>4, <2>10 DEF Placed
  <2> QED
    BY <1>1, <2>1, <2>3, <2>11, <2>12 DEF LagInv
<1> QED
  BY <1>6, <1>7

\* What a reply and the held events come to, the last of them counting.
LEMMA EndOf ==
  ASSUME NEW last \in 0 .. MaxEvents, NEW seqs \in Seq(Seqs)
  PROVE  Last(<<last>> \o seqs) = IF seqs = <<>> THEN last ELSE seqs[Len(seqs)]
<1> DEFINE all == <<last>> \o seqs
<1>1. <<last>> \in Seq(0 .. MaxEvents) /\ Len(<<last>>) = 1 /\ <<last>>[1] = last
  OBVIOUS
<1>2. Len(all) = 1 + Len(seqs) /\ Len(seqs) \in Nat
  BY <1>1
<1>3. Last(all) = all[1 + Len(seqs)]
  BY <1>2 DEF Last
<1>4. CASE seqs = <<>>
  <2>1. all[1] = last /\ Len(seqs) = 0
    BY <1>4
  <2> QED
    BY <1>3, <1>4, <2>1
<1>5. CASE seqs # <<>>
  <2>1. Len(seqs) \in 1 .. Len(seqs)
    BY <1>5
  <2>2. all[1 + Len(seqs)] = seqs[Len(seqs)]
    BY <1>1, <2>1
  <2> QED
    BY <1>3, <1>5, <2>2
<1> QED
  BY <1>4, <1>5

LEMMA CombinedEnd ==
  ASSUME NEW reply \in Replies, NEW parked \in Seq(Seqs), NEW last \in 0 .. MaxEvents,
         NEW a \in Nat, \A i \in 1 .. Len(parked) : parked[i] = a + i,
         reply.latest \in a .. a + Len(parked),
         Last(<<last>> \o Combined(reply, parked)) = reply.latest
  PROVE  reply.latest = a + Len(parked)
<1>1. /\ reply.lo \in 0 .. MaxEvents /\ reply.hi \in 0 .. MaxEvents
      /\ reply.lo \in Nat /\ reply.hi \in Nat
  BY MaxEventsType DEF Replies
<1>2. Len(parked) \in Nat
  OBVIOUS
<1> DEFINE events == [i \in 1 .. reply.hi - reply.lo |-> reply.lo + i]
           fresh == Fresh(reply, parked)
           seqs == Combined(reply, parked)
<1>3. seqs = events \o fresh /\ seqs \in Seq(Seqs)
  BY CombinedType DEF Combined
<1>4. fresh \in Seq(Seqs) /\ (fresh = parked \/ fresh = Tail(parked))
  BY DEF Fresh
<1>5. CASE parked = <<>>
  <2>1. Len(parked) = 0
    BY <1>5
  <2> QED
    BY <2>1
<1>6. CASE parked # <<>> /\ fresh = <<>>
  <2>1. reply.lo < reply.hi /\ Head(parked) = reply.hi /\ fresh = Tail(parked)
    BY <1>6 DEF Fresh
  <2>2. Len(parked) = 1 /\ parked[1] = a + 1 /\ reply.hi = a + 1
    <3>1. Len(Tail(parked)) = Len(parked) - 1 /\ Len(parked) >= 1 /\ Head(parked) = parked[1]
      BY <1>6
    <3>2. Len(fresh) = 0
      BY <1>6
    <3> HIDE DEF fresh
    <3> QED
      BY <2>1, <3>1, <3>2
  <2>3. PICK k \in Nat : k = reply.hi - reply.lo /\ k >= 1
    BY <1>1, <2>1
  <2>4. events \in Seq(Seqs) /\ Len(events) = k /\ events[k] = reply.hi
    <3>1. events = [i \in 1 .. k |-> reply.lo + i] /\ events \in Seq(Seqs)
      BY <2>3, ReplyEvents
    <3>2. DOMAIN events = 1 .. k
      BY <3>1
    <3>3. events \in Seq(Seqs) /\ Len(events) = k
      <4> HIDE DEF events
      <4> QED
        BY <2>3, <3>1, <3>2
    <3>4. events[k] = reply.lo + k
      BY <2>3, <3>1
    <3> QED
      BY <1>1, <2>3, <3>3, <3>4
  <2> HIDE DEF events, fresh, seqs
  <2>5. seqs = events
    BY <1>3, <1>6, <2>4
  <2>6. seqs # <<>> /\ seqs[Len(seqs)] = reply.hi
    BY <2>3, <2>4, <2>5
  <2>7. reply.latest = reply.hi
    BY <1>3, <2>6, EndOf DEF seqs
  <2> QED
    BY <2>2, <2>7
<1>7. CASE fresh # <<>>
  <2>1. PICK n \in Nat : n = Len(fresh) /\ n >= 1
    BY <1>4, <1>7
  <2>2. fresh[n] = a + Len(parked)
    <3>1. CASE fresh = parked
      BY <2>1, <3>1
    <3>2. CASE fresh = Tail(parked)
      <4>1. parked # <<>>
        BY <1>7 DEF Fresh
      <4>2. Len(parked) = n + 1 /\ Tail(parked)[n] = parked[n + 1]
        BY <2>1, <3>2, <4>1
      <4>3. parked[n + 1] = a + (n + 1)
        BY <2>1, <4>2
      <4> HIDE DEF fresh
      <4> QED
        BY <3>2, <4>2, <4>3
    <3> QED
      BY <1>4, <3>1, <3>2
  <2>3. events \in Seq(Seqs)
    BY ReplyEvents
  <2> HIDE DEF events, fresh
  <2>4. Len(seqs) = Len(events) + n /\ seqs[Len(events) + n] = fresh[n] /\ Len(events) \in Nat
    BY <1>3, <1>4, <2>1, <2>3
  <2>5. seqs # <<>> /\ seqs[Len(seqs)] = a + Len(parked)
    BY <1>3, <2>1, <2>2, <2>4
  <2> HIDE DEF seqs
  <2>6. reply.latest = seqs[Len(seqs)]
    BY <1>3, <2>5, EndOf DEF seqs
  <2> QED
    BY <2>5, <2>6
<1> QED
  BY <1>5, <1>6, <1>7

\* From st to q, s has caught up and at most other slots were lost.
BroughtUp(st, s, q, w, m) ==
  /\ CaughtUp(q, s, w, m)
  /\ \A x \in Sessions : x # s => SlotKept(st, q, x)

\* A complete reply whose events are all accepted leaves its session caught up.
LEMMA ReplayCatchesUp ==
  ASSUME NEW st, StreamInv(st), NEW d \in Attempts, NEW s \in Sessions, s = Head(d.todo).sid,
         NEW parked \in Seq(Seqs), NEW a \in 0 .. MaxEvents, NEW ask, NEW w, NEW m,
         ReplayFrom(d, a, parked, ask, w, m), HasSlot(st, s) => st.watermark[s] = d.last, d.answered,
         ValidReplay(d.reply, d.last, parked), ~d.reply.truncated,
         NEW result, result = AcceptedAll(st, s, Combined(d.reply, parked), FALSE), result.ok
  PROVE  BroughtUp(st, s, result.st, w, m)
<1> DEFINE seqs == Combined(d.reply, parked)
           n == a + Len(parked)
<1>1. d.reply \in Replies /\ d.last \in 0 .. MaxEvents
  BY DEF Attempts
<1>2. seqs \in Seq(Seqs)
  BY <1>1, CombinedType
<1>3. /\ \A i \in 1 .. Len(parked) : parked[i] = a + i
      /\ Owed(w, s, n, m)
      /\ d.reply.latest \in a .. n
  BY DEF ReplayFrom
<1>4. Last(<<d.last>> \o seqs) = d.reply.latest
  BY DEF ValidReplay
<1>5. a \in Nat
  BY MaxEventsType
<1>6. d.reply.latest = n
  BY <1>1, <1>3, <1>4, <1>5, CombinedEnd
<1> HIDE DEF seqs, n
<1>7. IF seqs = <<>> THEN n = d.last ELSE n = seqs[Len(seqs)]
  BY <1>1, <1>2, <1>4, <1>6, EndOf
<1>8. ReplayEnds(st, s, seqs, result)
  <2>1. result = AcceptedAll(st, s, seqs, FALSE)
    BY DEF seqs
  <2> QED
    BY <1>2, <2>1, AcceptedAllKeeps
<1>9. \A x \in Sessions : x # s => SlotKept(st, result.st, x)
  BY <1>8 DEF ReplayEnds, Accepting
<1>10. HasSlot(result.st, s) => result.st.watermark[s] = n
  <2>1. CASE seqs = <<>>
    BY <1>7, <1>8, <2>1 DEF ReplayEnds
  <2>2. CASE seqs # <<>>
    BY <1>7, <1>8, <2>2 DEF ReplayEnds
  <2> QED
    BY <2>1, <2>2
<1> QED
  BY <1>3, <1>9, <1>10 DEF BroughtUp, CaughtUp

-----------------------------------------------------------------------------
(* One lemma per action.                                                   *)

\* The id of an answered call is free again.
LEMMA AnsweredId ==
  ASSUME NEW d, NEW ask, NEW w, CallOnce(d, ask, w), d.answered
  PROVE  FreshId(d.id, ask, w)
BY DEF CallOnce, FreshId, ReplyTo

LEMMA ReplayStartLag ==
  ASSUME IInv, NEW c \in Connectors, LagInv(c), ReplayStart(c) PROVE LagInv(c)'
<1> DEFINE d == connector[c]
           todo == [i \in DOMAIN stream.slots |->
                      [sid |-> stream.slots[i], seen |-> stream.watermark[stream.slots[i]]]]
<1>1. At(c, "capabilities") /\ d.answered /\ UNCHANGED <<gateway, wire, link, stream>>
  BY DEF ReplayStart
<1>2. /\ Placed(d, state, hold, asked, wire)
      /\ state = "open" => Flowing(d, stream, hold, degraded, asked, wire, emitted)
  BY DEF LagInv
<1>3. d.pc = "capabilities" /\ connector \in [Connectors -> Attempts]
  BY <1>1 DEF At, IInv, AttemptTypes
<1>4. CASE newEpoch
  <2>1. degraded' = TRUE /\ Goes(c, Idle) /\ asked' = asked /\ hold' = hold
    BY <1>4 DEF ReplayStart
  <2>2. connector'[c] = Idle /\ Idle.pc = "idle" /\ ~Idle.answered
    BY <1>3, <2>1 DEF Goes, Idle
  <2>3. UNCHANGED <<state, wire, emitted, stream>>
    BY <1>1 DEF gateway, link
  <2>4. Placed(Idle, state, hold, asked, wire)
    BY <1>2, <1>3, <2>2 DEF Placed
  <2>5. state = "open" => Flowing(Idle, stream, hold, TRUE, asked, wire, emitted)
    BY <1>2, <2>2 DEF Flowing
  <2> QED
    BY <2>1, <2>2, <2>3, <2>4, <2>5 DEF LagInv
<1>5. CASE ~newEpoch
  <2>1. ReplayNext(c, stream, todo, FALSE, d.id)
    BY <1>5 DEF ReplayStart
  <2>2. todo \in Seq(Entries)
    BY EntriesOfSlots DEF IInv
  <2>3. d.id \in Nat
    BY <1>3 DEF Attempts
  <2>4. ASSUME state = "open" PROVE FreshId(d.id, asked, wire)
    <3>1. CallOnce(d, asked, wire)
      BY <1>2, <1>3, <2>4 DEF Flowing
    <3> QED
      BY <1>1, <3>1, AnsweredId
  <2>5. ASSUME NEW s \in Sessions, \A i \in 1 .. Len(todo) : todo[i].sid # s
        PROVE  CaughtUp(stream, s, wire, emitted[s])
    <3>1. DOMAIN todo = DOMAIN stream.slots /\ \A i \in DOMAIN stream.slots : todo[i].sid = stream.slots[i]
      OBVIOUS
    <3>2. DOMAIN todo = 1 .. Len(todo)
      BY <2>2
    <3> HIDE DEF todo
    <3>3. ~HasSlot(stream, s)
      BY <2>5, <3>1, <3>2 DEF HasSlot, ToSet
    <3> QED
      BY <3>3 DEF CaughtUp
  <2>6. StreamInv(stream) /\ stream' = stream
    BY <1>1 DEF IInv
  <2>7. UNCHANGED <<gateway, wire, link>>
    BY <1>1
  <2> HIDE DEF todo
  <2> QED
    BY <1>1, <2>1, <2>2, <2>3, <2>4, <2>5, <2>6, <2>7, ReplayNextLag
<1> QED
  BY <1>4, <1>5

LEMMA ReplayTimesOutLag ==
  ASSUME IInv, NEW c \in Connectors, LagInv(c), ReplayTimesOut(c) PROVE LagInv(c)'
<1> DEFINE d == connector[c]
<1>1. /\ At(c, "replaying")
      /\ ReplayNext(c, stream, Tail(d.todo), TRUE, d.id + 1)
      /\ UNCHANGED <<gateway, wire, link>> /\ stream' = stream
  BY DEF ReplayTimesOut
<1>2. d \in Attempts /\ d.todo # <<>> /\ d.pc = "replaying"
  BY <1>1 DEF IInv, AttemptTypes, At
<1>3. d.id \in Nat /\ d.id + 1 \in Nat /\ Tail(d.todo) \in Seq(Entries)
  BY <1>2 DEF Attempts
<1>4. ASSUME state = "open" PROVE FreshId(d.id + 1, asked, wire)
  <2>1. CallOnce(d, asked, wire)
    BY <1>2, <1>4 DEF LagInv, Flowing
  <2>2. asked \subseteq Calls /\ wire \in Seq(Frames)
    BY DEF IInv, SocketTypes
  <2>3. ASSUME NEW k \in asked PROVE k.id <= d.id + 1 /\ k.id # d.id + 1
    <3>1. k.id \in Nat /\ k.id <= d.id
      BY <2>1, <2>2 DEF Calls, CallOnce
    <3> QED
      BY <1>3, <3>1
  <2>4. ASSUME NEW i \in 1 .. Len(wire), wire[i].type = "reply"
        PROVE  wire[i].id <= d.id + 1 /\ wire[i].id # d.id + 1
    <3>1. PICK f \in Frames : f = wire[i]
      BY <2>2
    <3>2. f.id \in Nat
      BY <2>4, <3>1 DEF Frames
    <3>3. f.id <= d.id
      BY <2>1, <2>4, <3>1 DEF CallOnce
    <3> QED
      BY <1>3, <3>1, <3>2, <3>3
  <2> QED
    BY <2>3, <2>4 DEF FreshId
<1>5. StreamInv(stream)
  BY DEF IInv
<1> HIDE DEF d
<1> QED
  BY <1>1, <1>3, <1>4, <1>5, ReplayNextLag

LEMMA ReplayFinishLag ==
  ASSUME IInv, NEW c \in Connectors, LagInv(c), ReplayFinish(c) PROVE LagInv(c)'
<1> DEFINE d == connector[c]
           sid == Head(d.todo).sid
           parked == IF hold.on /\ hold.sid = sid THEN hold.parked ELSE <<>>
           valid == ValidReplay(d.reply, d.last, parked)
           allowed == IF d.reply.truncated THEN [stream EXCEPT !.gaps = @ \cup {sid}] ELSE stream
           seqs == Combined(d.reply, parked)
           result == AcceptedAll(allowed, sid, seqs, d.reply.truncated)
           st == IF ~valid THEN stream
                 ELSE IF d.reply.truncated
                        THEN [result.st EXCEPT !.base[sid] = Later(@, d.reply.lo)]
                        ELSE result.st
           bad == d.bad \/ ~valid \/ d.reply.truncated \/ ~result.ok
<1>1. /\ At(c, "replaying") /\ d.answered
      /\ stream' = st
      /\ ReplayNext(c, st, Tail(d.todo), bad, d.id)
      /\ UNCHANGED <<gateway, wire, link>>
  BY DEF ReplayFinish
<1>2. d \in Attempts /\ d.todo # <<>> /\ d.pc = "replaying"
  BY <1>1 DEF IInv, AttemptTypes, At
<1>3. state = "open" => Flowing(d, stream, hold, degraded, asked, wire, emitted)
  BY DEF LagInv
<1> HIDE DEF d
<1>4. /\ d.id \in Nat /\ d.todo \in Seq(Entries) /\ d.reply \in Replies
      /\ d.reply.truncated \in BOOLEAN /\ d.reply.lo \in 0 .. MaxEvents
  <2>1. d.id \in Nat /\ d.todo \in Seq(Entries) /\ d.reply \in Replies
    BY <1>2 DEF Attempts
  <2> QED
    BY <2>1 DEF Replies
<1>5. Tail(d.todo) \in Seq(Entries) /\ sid \in Sessions
  <2>1. Tail(d.todo) \in Seq(Entries) /\ Head(d.todo) \in Entries
    BY <1>2, <1>4
  <2> QED
    BY <2>1 DEF Entries
<1> HIDE DEF sid
<1>6. parked \in Seq(Seqs)
  BY DEF IInv, Holds
<1> HIDE DEF parked
<1>7. StreamInv(st)
  <2>1. seqs \in Seq(Seqs)
    BY <1>4, <1>6, CombinedType
  <2> HIDE DEF valid, seqs
  <2> QED
    BY <1>4, <1>5, <2>1, ReplayedKeeps DEF IInv
<1>8. ASSUME state = "open" PROVE FreshId(d.id, asked, wire)
  <2>1. CallOnce(d, asked, wire)
    BY <1>2, <1>3, <1>8 DEF Flowing
  <2> QED
    BY <1>1, <2>1, AnsweredId
<1>9. ASSUME state = "open", ~bad, NEW s \in Sessions,
             \A i \in 1 .. Len(Tail(d.todo)) : Tail(d.todo)[i].sid # s
      PROVE  CaughtUp(st, s, wire, emitted[s])
  <2>1. Replaying(d, stream, hold, asked, wire, emitted)
    BY <1>2, <1>3, <1>9 DEF Flowing
  <2>2. ~d.bad /\ valid /\ ~d.reply.truncated /\ result.ok
    BY <1>4, <1>9
  <2>3. allowed = stream /\ st = result.st
    BY <2>2
  <2>4. result = AcceptedAll(stream, sid, Combined(d.reply, parked), FALSE)
    BY <1>4, <2>2, <2>3
  <2> DEFINE r == result
  <2>5. r.ok /\ st = r.st /\ r = AcceptedAll(stream, sid, Combined(d.reply, parked), FALSE)
    BY <2>2, <2>3, <2>4
  <2>6. ValidReplay(d.reply, d.last, parked)
    BY <2>2
  <2> HIDE DEF result, st, valid, allowed, seqs, bad, r
  <2>7. parked = hold.parked /\ (HasSlot(stream, sid) => stream.watermark[sid] = d.last)
    BY <2>1 DEF Replaying, parked, sid
  <2>8. PICK a \in 0 .. MaxEvents : ReplayFrom(d, a, parked, asked, wire, emitted[sid])
    BY <2>1, <2>7 DEF Replaying, sid
  <2>9. StreamInv(stream) /\ sid = Head(d.todo).sid
    BY DEF IInv, sid
  <2>10. BroughtUp(stream, sid, r.st, wire, emitted[sid])
    BY <1>1, <1>2, <1>5, <1>6, <2>2, <2>5, <2>6, <2>7, <2>8, <2>9, ReplayCatchesUp
  <2>11. CASE s = sid
    BY <2>5, <2>10, <2>11 DEF BroughtUp
  <2>12. CASE s # sid
    <3>1. ASSUME NEW i \in 1 .. Len(d.todo) PROVE d.todo[i].sid # s
      <4>1. CASE i = 1
        <5>1. d.todo[1] = Head(d.todo)
          BY <1>2, <1>4
        <5> QED
          BY <2>12, <4>1, <5>1 DEF sid
      <4>2. CASE i # 1
        <5>1. i - 1 \in 1 .. Len(Tail(d.todo)) /\ Tail(d.todo)[i - 1] = d.todo[i]
          BY <1>2, <1>4, <4>2
        <5> QED
          BY <1>9, <5>1
      <4> QED
        BY <4>1, <4>2
    <3>2. CaughtUp(stream, s, wire, emitted[s])
      BY <2>1, <2>2, <3>1 DEF Replaying, ReplayLags
    <3>3. SlotKept(stream, st, s)
      BY <2>5, <2>10, <2>12 DEF BroughtUp
    <3> QED
      BY <3>2, <3>3 DEF CaughtUp, SlotKept
  <2> QED
    BY <2>11, <2>12
<1>10. bad \in BOOLEAN
  OBVIOUS
<1> DEFINE rest == Tail(d.todo)
<1> HIDE DEF st, bad, rest
<1>11. state = "open" =>
         /\ FreshId(d.id, asked, wire)
         /\ bad \/ \A s \in Sessions :
                     (\A i \in 1 .. Len(rest) : rest[i].sid # s) => CaughtUp(st, s, wire, emitted[s])
  BY <1>8, <1>9 DEF rest
<1>12. rest \in Seq(Entries) /\ ReplayNext(c, st, rest, bad, d.id)
  BY <1>1, <1>5 DEF rest
<1> QED
  BY <1>1, <1>4, <1>7, <1>10, <1>11, <1>12, ReplayNextLag

\* With the socket gone only what the connect call is at matters.
LEMMA ClosedLag ==
  ASSUME NEW c \in Connectors, LagInv(c), AttemptTypes,
         state' = "closed", asked' = {}, wire' = <<>>,
         connector' = [o \in Connectors |-> IF connector[o].answered THEN connector[o] ELSE Idle],
         hold'.on => hold.on /\ connector[c].answered
  PROVE  LagInv(c)'
<1>1. Placed(connector[c], state, hold, asked, wire)
  BY DEF LagInv
<1>2. connector'[c] = IF connector[c].answered THEN connector[c] ELSE Idle
  OBVIOUS
<1>3. ~Idle.answered /\ Idle.pc = "idle"
  BY DEF Idle
<1>4. Placed(connector'[c], "closed", hold', {}, <<>>)
  BY <1>1, <1>2, <1>3 DEF Placed
<1> QED
  BY <1>4 DEF LagInv

LEMMA SeveredLag == ASSUME IInv, NEW c \in Connectors, LagInv(c), Severed PROVE LagInv(c)'
<1>1. /\ state' = "closed" /\ asked' = {} /\ wire' = <<>>
      /\ connector' = [o \in Connectors |-> IF connector[o].answered THEN connector[o] ELSE Idle]
  BY DEF Severed
<1>2. hold'.on => hold.on /\ connector[c].answered
  <2>1. SUFFICES ASSUME hold'.on PROVE hold.on /\ connector[c].answered
    OBVIOUS
  <2> DEFINE replaying == {o \in Connectors : At(o, "replaying") /\ Waiting(o)}
  <2>2. hold' = IF replaying = {} THEN hold ELSE NoHold
    BY DEF Severed
  <2>3. replaying = {} /\ hold' = hold
    BY <2>1, <2>2 DEF NoHold
  <2>4. connector[c].pc = "replaying"
    BY <2>1, <2>3 DEF LagInv, Placed
  <2> QED
    BY <2>1, <2>3, <2>4 DEF At, Waiting
<1> QED
  BY <1>1, <1>2, ClosedLag DEF IInv

LEMMA GiveUpLag ==
  ASSUME IInv, NEW c \in Connectors, LagInv(c), NEW o \in Connectors, GiveUp(o) PROVE LagInv(c)'
<1>1. /\ state' = "closed" /\ asked' = {} /\ wire' = <<>>
      /\ connector' = [x \in Connectors |-> IF connector[x].answered THEN connector[x] ELSE Idle]
      /\ hold' = NoHold
  BY DEF GiveUp
<1>2. ~hold'.on
  BY <1>1 DEF NoHold
<1> QED
  BY <1>1, <1>2, ClosedLag DEF IInv

LEMMA ConnectLag == ASSUME IInv, NEW c \in Connectors, LagInv(c), Connect(c) PROVE LagInv(c)'
<1>1. /\ At(c, "idle") /\ state # "open" /\ state' = "connecting"
      /\ Goes(c, [Idle EXCEPT !.pc = "joining"])
      /\ UNCHANGED <<asked, wire, hold>>
  BY DEF Connect, socket
<1>2. connector \in [Connectors -> Attempts]
  BY DEF IInv, AttemptTypes
<1>3. PICK d : d = [Idle EXCEPT !.pc = "joining"]
  OBVIOUS
<1>4. d.pc = "joining" /\ ~d.answered
  BY <1>3 DEF Idle
<1>5. connector'[c] = d
  BY <1>1, <1>2, <1>3 DEF Goes
<1>6. Placed(d, "connecting", hold, asked, wire)
  BY <1>1, <1>4 DEF LagInv, Placed, At
<1> QED
  BY <1>1, <1>5, <1>6 DEF LagInv

LEMMA HandshakeLag == ASSUME IInv, NEW c \in Connectors, LagInv(c), Handshake PROVE LagInv(c)'
<1>1. /\ state = "connecting" /\ state' = "open"
      /\ UNCHANGED <<emitted, asked, wire, hold, degraded, connector>>
  BY DEF Handshake, gateway, socket
<1> DEFINE d == connector[c]
<1>2. d.pc = "joining" /\ ~d.answered /\ asked = {} /\ wire = <<>> /\ ~hold.on
  BY <1>1 DEF LagInv, Placed
<1>3. 1 .. Len(wire) = {}
  BY <1>2
<1>4. InTurn(wire)
  BY <1>3 DEF InTurn
<1>5. ASSUME NEW s \in Sessions PROVE \E n \in 0 .. MaxEvents : Owed(wire, s, n, emitted[s])
  <2>1. emitted[s] \in 0 .. MaxEvents /\ emitted[s] \in Nat
    BY MaxEventsType DEF IInv, GatewayTypes
  <2> QED
    BY <1>2, <2>1, OwedNothing
<1>6. Flowing(d, stream', hold, degraded, asked, wire, emitted)
  BY <1>2, <1>3, <1>4, <1>5 DEF Flowing
<1>7. Placed(d, "open", hold, asked, wire)
  BY <1>2 DEF Placed
<1> QED
  BY <1>1, <1>6, <1>7 DEF LagInv

LEMMA AnnounceLag == ASSUME IInv, NEW c \in Connectors, LagInv(c), Announce(c) PROVE LagInv(c)'
<1> DEFINE d == connector[c]
           e == [d EXCEPT !.pc = "capabilities"]
           k == [by |-> c, id |-> e.id, sid |-> NoHold.sid, last |-> 0, at |-> 0, since |-> FALSE]
<1>1. /\ At(c, "joining") /\ state = "open" /\ Goes(c, e) /\ asked' = asked \cup {k}
      /\ UNCHANGED <<emitted, wire, state, stream, hold, degraded>>
  BY DEF Announce, gateway, link
<1>2. d \in Attempts /\ connector'[c] = e
  BY <1>1 DEF IInv, AttemptTypes, Goes
<1>3. e.pc = "capabilities" /\ e.answered = d.answered /\ e.id \in Nat /\ k.id = e.id
  BY <1>2 DEF Attempts
<1>4. /\ Placed(d, state, hold, asked, wire) /\ d.pc = "joining"
      /\ Flowing(d, stream, hold, degraded, asked, wire, emitted)
  BY <1>1 DEF LagInv, At
<1> HIDE DEF d, e, k
<1>5. ~d.answered /\ asked = {} /\ \A i \in 1 .. Len(wire) : wire[i].type # "reply"
  BY <1>4 DEF Placed, Flowing
<1>6. CallOnce(e, {k}, wire)
  <2>1. k.id <= e.id
    BY <1>3
  <2>2. \A i \in 1 .. Len(wire) : ~ReplyTo(wire[i], e.id)
    BY <1>5 DEF ReplyTo
  <2> QED
    BY <1>3, <1>5, <2>1, <2>2 DEF CallOnce
<1>7. asked' = {k}
  BY <1>1, <1>5
<1>8. Flowing(e, stream, hold, degraded, {k}, wire, emitted)
  BY <1>3, <1>4, <1>6 DEF Flowing
<1>9. Placed(e, state, hold, {k}, wire)
  BY <1>1, <1>3, <1>4, <1>5 DEF Placed
<1> QED
  BY <1>1, <1>2, <1>7, <1>8, <1>9 DEF LagInv

LEMMA GatewayRestartsLag ==
  ASSUME NEW c \in Connectors, LagInv(c), GatewayRestarts PROVE LagInv(c)'
<1>1. state # "open" /\ UNCHANGED <<asked, wire, state, hold, connector>>
  BY DEF GatewayRestarts, socket, link
<1> QED
  BY <1>1 DEF LagInv

LEMMA TakeReplyLag ==
  ASSUME IInv, NEW c \in Connectors, \A o \in Connectors : o = c, LagInv(c), TakeReply
  PROVE  LagInv(c)'
<1> DEFINE f == Head(wire)
           d == connector[f.by]
           e == [d EXCEPT !.answered = TRUE, !.reply = f.reply]
<1>1. wire # <<>> /\ f.type = "reply" /\ wire \in Seq(Frames)
  BY DEF TakeReply, IInv, SocketTypes
<1>2. Tail(wire) \in Seq(Frames) /\ f.by \in Connectors /\ f.reply \in Replies
  BY <1>1, FrontOfWire
<1>3. f.by = c
  BY <1>2
<1>4. CASE Severed
  BY <1>4, SeveredLag
<1>5. CASE ~Severed
  <2>1. /\ Waiting(c) /\ d.id = f.id
        /\ Goes(f.by, e) /\ wire' = Tail(wire)
        /\ UNCHANGED <<emitted, asked, state, stream, hold, degraded>>
    BY <1>3, <1>5 DEF TakeReply, gateway, link
  <2>2. d = connector[c] /\ d \in Attempts /\ (d.pc = "replaying" => d.todo # <<>>)
    BY <1>3 DEF IInv, AttemptTypes
  <2>3. connector'[c] = e
    BY <1>3, <2>1, <2>2 DEF Goes, IInv, AttemptTypes
  <2>4. d.pc \in {"capabilities", "replaying"} /\ ~d.answered
    BY <2>1, <2>2 DEF Waiting
  <2>5. Placed(d, state, hold, asked, wire) /\ state = "open"
    BY <1>1, <2>2 DEF LagInv, Placed
  <2>6. Flowing(d, stream, hold, degraded, asked, wire, emitted)
    BY <2>2, <2>5 DEF LagInv
  <2>7. Shifted(wire, Tail(wire)) /\ f = wire[1]
    BY <1>1, TailNext
  <2>8. ReplyTo(wire[1], d.id)
    BY <1>1, <2>1, <2>7 DEF ReplyTo
  <2> DEFINE v == Tail(wire)
  <2>9. Answers(wire[1], d, e)
    BY <2>7 DEF Answers
  <2>10. e.pc = d.pc
    BY <2>2 DEF Attempts
  <2> HIDE DEF d, e, v
  <2>11. emitted \in [Sessions -> 0 .. MaxEvents] /\ stream \in Streams /\ hold \in Holds
    BY DEF IInv, GatewayTypes, StreamInv, Consistent, Shaped
  <2>12. Shifted(wire, v)
    BY <2>7 DEF v
  <2>13. Flowing(e, stream, hold, degraded, asked, v, emitted)
    BY <2>2, <2>4, <2>6, <2>8, <2>9, <2>11, <2>12, TakenReplyFlows
  <2>14. Placed(e, state, hold, asked, v)
    BY <2>4, <2>5, <2>10 DEF Placed
  <2>15. wire' = v
    BY <2>1 DEF v
  <2> QED
    BY <2>1, <2>3, <2>13, <2>14, <2>15 DEF LagInv
<1> QED
  BY <1>4, <1>5

LEMMA TakeEventLag ==
  ASSUME IInv, NEW c \in Connectors, LagInv(c), TakeEvent PROVE LagInv(c)'
<1> DEFINE s == Head(wire).sid
           n == Head(wire).seq
           held == hold.on /\ hold.sid = s
           v == Tail(wire)
           d == connector[c]
<1>1. wire # <<>> /\ Head(wire).type = "event" /\ wire \in Seq(Frames)
  BY DEF TakeEvent, IInv, SocketTypes
<1>2. s \in Sessions /\ n \in Seqs
  BY <1>1, FrontOfWire
<1>3. Shifted(wire, v) /\ EventOf(wire[1], s) /\ n = wire[1].seq
  BY <1>1, TailNext DEF EventOf
<1>4. CASE Severed
  BY <1>4, SeveredLag
<1>5. CASE ~Severed
  <2>1. /\ wire' = v
        /\ hold' = IF held THEN [hold EXCEPT !.parked = Append(@, n)] ELSE hold
        /\ stream' = IF ~held /\ Acceptable(stream, s, n, FALSE) THEN Accepted(stream, s, n)
                                                                 ELSE stream
        /\ UNCHANGED <<emitted, asked, state, degraded, connector>>
    BY <1>5 DEF TakeEvent, gateway, link
  <2>2. d \in Attempts /\ (d.pc = "replaying" => d.todo # <<>>)
    BY DEF IInv, AttemptTypes
  <2>3. Placed(d, state, hold, asked, wire) /\ state = "open"
    BY <1>1 DEF LagInv, Placed
  <2>4. Flowing(d, stream, hold, degraded, asked, wire, emitted)
    BY <2>3 DEF LagInv
  <2>5. emitted \in [Sessions -> 0 .. MaxEvents] /\ StreamInv(stream) /\ hold \in Holds
    BY DEF IInv, GatewayTypes
  <2> HIDE DEF s, n, v, d
  <2>6. CASE held
    <3>1. hold.sid = s /\ d.pc = "replaying" /\ d.todo # <<>>
      BY <2>2, <2>3, <2>6 DEF Placed
    <3>2. stream \in Streams /\ stream' = stream
      BY <2>1, <2>5, <2>6 DEF StreamInv, Consistent, Shaped
    <3>3. PICK g : g = [hold EXCEPT !.parked = Append(@, wire[1].seq)]
      OBVIOUS
    <3>4. wire[1].seq \in Seqs /\ hold' = g /\ Holding(hold, wire[1].seq, g)
      BY <1>2, <1>3, <2>1, <2>6, <3>3 DEF Holding
    <3>5. Flowing(d, stream, g, degraded, asked, v, emitted)
      BY <1>2, <1>3, <2>2, <2>4, <2>5, <3>1, <3>2, <3>4, HeldEventFlows
    <3>6. Placed(d, state, g, asked, v)
      BY <2>3, <3>1 DEF Placed
    <3> QED
      BY <2>1, <3>2, <3>4, <3>5, <3>6 DEF LagInv, d
  <2>7. CASE ~held
    <3>1. PICK q : Looked(stream, s, n, q)
      BY DEF Looked
    <3>2. stream' = q /\ hold' = hold
      BY <2>1, <2>7, <3>1 DEF Looked
    <3>3. Flowing(d, q, hold, degraded, asked, v, emitted)
      BY <1>2, <1>3, <2>2, <2>4, <2>5, <2>7, <3>1, SeenEventFlows
    <3>4. Placed(d, state, hold, asked, v)
      BY <2>3 DEF Placed
    <3> QED
      BY <2>1, <3>2, <3>3, <3>4 DEF LagInv, d
  <2> QED
    BY <2>6, <2>7
<1> QED
  BY <1>4, <1>5

LEMMA EmitLag ==
  ASSUME IInv, NEW c \in Connectors, LagInv(c), NEW s \in Sessions, Emit(s) PROVE LagInv(c)'
<1>1. /\ emitted[s] < MaxEvents
      /\ emitted' = [emitted EXCEPT ![s] = emitted[s] + 1]
      /\ UNCHANGED <<asked, state, stream, hold, degraded, connector>>
      /\ wire' = IF state = "open"
                   THEN Append(wire, [type |-> "event", sid |-> s, seq |-> emitted'[s]]) ELSE wire
  BY DEF Emit, link
<1>2. Placed(connector[c], state, hold, asked, wire)
  BY DEF LagInv
<1>3. CASE state # "open"
  BY <1>1, <1>2, <1>3 DEF LagInv
<1>4. CASE state = "open"
  <2> DEFINE f == [type |-> "event", sid |-> s, seq |-> emitted'[s]]
             d == connector[c]
  <2>1. /\ wire \in Seq(Frames) /\ emitted \in [Sessions -> 0 .. MaxEvents]
        /\ stream \in Streams /\ hold \in Holds
        /\ d \in Attempts /\ (d.pc = "replaying" => d.todo # <<>>)
    BY DEF IInv, SocketTypes, GatewayTypes, StreamInv, Consistent, Shaped, AttemptTypes
  <2>2. Flowing(d, stream, hold, degraded, asked, wire, emitted)
    BY <1>4 DEF LagInv
  <2>3. emitted'[s] = emitted[s] + 1 /\ emitted' \in [Sessions -> 0 .. MaxEvents]
    BY <1>1, <2>1, MaxEventsType
  <2>4. FrameOfOne(f, emitted, emitted')
    <3>1. ASSUME NEW x \in Sessions
          PROVE  IF EventOf(f, x) THEN emitted'[x] = emitted[x] + 1 /\ f.seq = emitted[x] + 1
                                  ELSE emitted'[x] = emitted[x]
      <4>1. EventOf(f, x) <=> x = s
        BY DEF EventOf
      <4>2. x # s => emitted'[x] = emitted[x]
        BY <1>1, <2>1
      <4> QED
        BY <2>3, <4>1, <4>2
    <3> HIDE DEF f
    <3> QED
      BY <2>3, <3>1 DEF FrameOfOne
  <2>5. f.type = "event"
    OBVIOUS
  <2> HIDE DEF f, d
  <2>6. Extended(wire, f, Append(wire, f)) /\ wire' = Append(wire, f)
    BY <1>1, <1>4, <2>1, AppendThen DEF f
  <2>7. Extended(wire, f, wire')
    BY <2>6
  <2>8. Flowing(d, stream, hold, degraded, asked, wire', emitted')
    BY <2>1, <2>2, <2>4, <2>5, <2>7, EventFlows
  <2>9. Placed(d, state, hold, asked, wire')
    BY <1>2, <1>4 DEF Placed, d
  <2> QED
    BY <1>1, <2>8, <2>9 DEF LagInv, d
<1> QED
  BY <1>3, <1>4

LEMMA AnswerLag ==
  ASSUME IInv, NEW c \in Connectors, LagInv(c), NEW call \in asked, Answer(call) PROVE LagInv(c)'
<1> DEFINE replies == IF call.since THEN {Since(call, read) : read \in call.at .. emitted[call.sid]}
                                    ELSE {NoReply}
           d == connector[c]
<1>1. /\ asked' = asked \ {call}
      /\ \E reply \in replies :
           wire' = Append(wire, [type |-> "reply", by |-> call.by, id |-> call.id, reply |-> reply])
      /\ UNCHANGED <<emitted, state, stream, hold, degraded, connector>>
  BY DEF Answer, gateway, link
<1>2. /\ wire \in Seq(Frames) /\ emitted \in [Sessions -> 0 .. MaxEvents]
      /\ stream \in Streams /\ hold \in Holds /\ asked \in SUBSET Calls
      /\ d \in Attempts /\ (d.pc = "replaying" => d.todo # <<>>)
  BY DEF IInv, SocketTypes, GatewayTypes, StreamInv, Consistent, Shaped, AttemptTypes
<1>3. Placed(d, state, hold, asked, wire) /\ state = "open"
  BY DEF LagInv, Placed
<1>4. Flowing(d, stream, hold, degraded, asked, wire, emitted)
  BY <1>3 DEF LagInv
<1>5. PICK reply \in replies :
        wire' = Append(wire, [type |-> "reply", by |-> call.by, id |-> call.id, reply |-> reply])
  BY <1>1
<1>6. call.since => reply.latest = emitted[call.sid] /\ call.at <= emitted[call.sid]
  <2>1. SUFFICES ASSUME call.since
                 PROVE  reply.latest = emitted[call.sid] /\ call.at <= emitted[call.sid]
    OBVIOUS
  <2>2. PICK read \in call.at .. emitted[call.sid] : reply = Since(call, read)
    BY <2>1
  <2>3. call.at \in Nat /\ emitted[call.sid] \in Nat
    BY <1>2, MaxEventsType DEF Calls
  <2>4. call.at <= emitted[call.sid]
    BY <2>3
  <2>5. reply.latest = emitted[call.sid]
    BY <2>2 DEF Since
  <2> QED
    BY <2>4, <2>5
<1> HIDE DEF replies, d
<1>7. PICK f : f = [type |-> "reply", by |-> call.by, id |-> call.id, reply |-> reply]
  OBVIOUS
<1>8. f.type = "reply" /\ f.id = call.id /\ f.reply = reply
  BY <1>7
<1>9. Extended(wire, f, wire')
  BY <1>2, <1>5, <1>7, AppendThen
<1>10. call.since => f.reply.latest = emitted[call.sid] /\ call.at <= emitted[call.sid]
  BY <1>6, <1>8
<1>11. Flowing(d, stream, hold, degraded, asked \ {call}, wire', emitted)
  BY <1>2, <1>4, <1>8, <1>9, <1>10, ReplyFlows
<1>12. Placed(d, state, hold, asked', wire')
  BY <1>3 DEF Placed
<1> QED
  BY <1>1, <1>11, <1>12 DEF LagInv, d

\* Threads connect one at a time.
OneConnector == \E c : Connectors = {c}

LagKnown == OneConnector => \A c \in Connectors : LagInv(c)

LEMMA InitLag == Init => LagKnown
<1> SUFFICES ASSUME Init, NEW c \in Connectors PROVE LagInv(c)
  BY DEF LagKnown
<1>1. connector[c] = Idle /\ state = "closed" /\ hold = NoHold /\ asked = {} /\ wire = <<>>
  BY DEF Init
<1> QED
  BY <1>1 DEF LagInv, Placed, Idle, NoHold

LEMMA StutterLag == ASSUME NEW c \in Connectors, LagInv(c), UNCHANGED vars PROVE LagInv(c)'
<1>1. UNCHANGED <<emitted, asked, wire, state, stream, hold, degraded, connector>>
  BY DEF vars, gateway, socket, link
<1> QED
  BY <1>1 DEF LagInv

LEMMA NextLag == IInv /\ LagKnown /\ [Next]_vars => LagKnown'
<1> SUFFICES ASSUME IInv, OneConnector, [Next]_vars, NEW c \in Connectors, LagInv(c) PROVE LagInv(c)'
  BY DEF LagKnown, OneConnector
<1>1. \A o \in Connectors : o = c
  BY DEF OneConnector
<1>2. CASE LoseSocket
  BY <1>2, SeveredLag DEF LoseSocket
<1>3. ASSUME NEW o \in Connectors, GiveUp(o) PROVE LagInv(c)'
  BY <1>3, GiveUpLag
<1>4. ASSUME NEW o \in Connectors, Connect(o) PROVE LagInv(c)'
  <2>1. Connect(c)
    BY <1>1, <1>4
  <2> QED
    BY <2>1, ConnectLag
<1>5. CASE Handshake
  BY <1>5, HandshakeLag
<1>6. ASSUME NEW o \in Connectors, ConnectStep(o) PROVE LagInv(c)'
  <2>1. ConnectStep(c)
    BY <1>1, <1>6
  <2> QED
    BY <2>1, AnnounceLag, ReplayStartLag, ReplayFinishLag DEF ConnectStep
<1>7. ASSUME NEW o \in Connectors, ReplayTimesOut(o) PROVE LagInv(c)'
  <2>1. ReplayTimesOut(c)
    BY <1>1, <1>7
  <2> QED
    BY <2>1, ReplayTimesOutLag
<1>8. CASE TakeReply
  BY <1>1, <1>8, TakeReplyLag
<1>9. CASE TakeEvent
  BY <1>9, TakeEventLag
<1>10. ASSUME NEW s \in Sessions, Emit(s) PROVE LagInv(c)'
  BY <1>10, EmitLag
<1>11. ASSUME NEW call \in asked, Answer(call) PROVE LagInv(c)'
  BY <1>11, AnswerLag
<1>12. CASE GatewayRestarts
  BY <1>12, GatewayRestartsLag
<1>13. CASE UNCHANGED vars
  BY <1>13, StutterLag
<1> QED
  BY <1>2, <1>3, <1>4, <1>5, <1>6, <1>7, <1>8, <1>9, <1>10, <1>11, <1>12, <1>13 DEF Next

\* At rest nothing is owed.
LEMMA LagShows == IInv /\ OneConnector /\ LagKnown => LossIsDegraded
<1> SUFFICES ASSUME IInv, OneConnector, LagKnown, Quiet, NEW s \in Sessions,
                    HasSlot(stream, s), s \notin stream.gaps, ~degraded
             PROVE  AccountsFor(stream, s, emitted[s])
  BY DEF LossIsDegraded
<1>1. PICK c : Connectors = {c}
  BY DEF OneConnector
<1>2. LagInv(c) /\ c \in Connectors
  BY <1>1 DEF LagKnown
<1>3. state = "open" /\ wire = <<>> /\ connector[c].pc = "idle"
  BY <1>2 DEF Quiet, At
<1>4. CaughtUp(stream, s, wire, emitted[s])
  BY <1>2, <1>3 DEF LagInv, Flowing
<1>5. Owed(<<>>, s, stream.watermark[s], emitted[s])
  BY <1>3, <1>4 DEF CaughtUp
<1>6. stream.watermark[s] \in Nat /\ emitted[s] \in Nat
  BY StreamFields, MaxEventsType DEF IInv, GatewayTypes, StreamInv, Consistent, Shaped
<1>7. emitted[s] = stream.watermark[s]
  BY <1>5, <1>6, OwedNothing
<1>8. AccountsFor(stream, s, stream.watermark[s])
  BY DEF IInv, StreamInv, Consistent, Accounted
<1> QED
  BY <1>7, <1>8

(***************************************************************************)
(* As long as threads connect one at a time, a connection that has come to *)
(* rest has every event up to the gateway's latest, or replay_degraded     *)
(* says that it has not (_replay_async, _validate_replay_result and the    *)
(* hold): whatever is lost, answered late, timed out, truncated, severed   *)
(* or restarted on the way.                                                *)
(***************************************************************************)
THEOREM OneConnectLosesNothing == OneConnector => (Spec => []LossIsDegraded)
<1> SUFFICES ASSUME OneConnector PROVE Spec => []LossIsDegraded
  OBVIOUS
<1>1. Init => IInv /\ LagKnown
  BY InitInv, InitLag
<1>2. (IInv /\ LagKnown) /\ [Next]_vars => (IInv /\ LagKnown)'
  BY NextInv, NextLag
<1>3. IInv /\ LagKnown => LossIsDegraded
  BY LagShows
<1> QED
  BY <1>1, <1>2, <1>3, PTL DEF Spec
=============================================================================
