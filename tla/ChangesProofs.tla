---------------------------- MODULE ChangesProofs ----------------------------
(***************************************************************************)
(* What the Changes page shows is the difference: for any texts on disk,   *)
(* any layout of the candidate and any context.                            *)
(*                                                                         *)
(* The edit script is a walk over both texts (Walk): from it come the      *)
(* patch, hunk by hunk, and that there is no hunk only where the lines     *)
(* agree; that it is as short as can be from the table of lengths (Best);  *)
(* the counts from how hunks and sections share the script out.            *)
(***************************************************************************)
EXTENDS Changes, ConfigProofs

-----------------------------------------------------------------------------
(* Sequences.                                                               *)

\* What a sequence is.
LEMMA SeqFacts ==
    ASSUME NEW s, IsSeq(s)
    PROVE  /\ Len(s) \in Nat /\ DOMAIN s = 1..Len(s) /\ s = [k \in 1..Len(s) |-> s[k]]
           /\ \A k \in 1..Len(s) : s[k] \in Elements(s)
BY LenProperties DEF IsSeq

\* A function on 1..n is a sequence.
LEMMA MakeIs ==
    ASSUME NEW n \in Nat, NEW f, f = [k \in 1..n |-> f[k]]
    PROVE  IsSeq(f) /\ Len(f) = n /\ DOMAIN f = 1..n
<1>1. DOMAIN f = 1..n
  OBVIOUS
<1>2. \A k \in 1..n : f[k] \in Elements(f)
  BY <1>1 DEF Elements
<1>3. f \in [1..n -> Elements(f)]
  BY <1>2
<1>4. f \in Seq(Elements(f))
  BY <1>3, IsASeq
<1>5. Len(f) = n
  BY <1>1, <1>4, LenProperties
<1>. QED BY <1>1, <1>4, <1>5 DEF IsSeq

\* Two sequences of the same length and the same elements are one.
LEMMA SameSeq ==
    ASSUME NEW s, NEW t, IsSeq(s), IsSeq(t), Len(s) = Len(t), \A k \in 1..Len(s) : s[k] = t[k]
    PROVE  s = t
BY SeqFacts

\* One element more.
LEMMA AppendIs ==
    ASSUME NEW s, IsSeq(s), NEW x
    PROVE  /\ IsSeq(Append(s, x)) /\ Len(Append(s, x)) = Len(s) + 1
           /\ Append(s, x)[Len(s) + 1] = x /\ \A k \in 1..Len(s) : Append(s, x)[k] = s[k]
<1>. DEFINE S == Elements(s) \cup {x}
<1>1. s \in Seq(S)
  BY SeqMonotonic DEF IsSeq
<1>2. x \in S
  OBVIOUS
<1>. HIDE DEF S
<1>3. /\ Append(s, x) \in Seq(S) /\ Len(Append(s, x)) = Len(s) + 1
      /\ \A k \in 1..Len(s) : Append(s, x)[k] = s[k]
      /\ Append(s, x)[Len(s) + 1] = x
  BY <1>1, <1>2, AppendProperties
<1>. QED BY <1>3, SeqIs

\* A piece of a sequence.
LEMMA PieceIs ==
    ASSUME NEW s, IsSeq(s), NEW p \in 0..Len(s), NEW q \in p..Len(s)
    PROVE  /\ IsSeq(SubSeq(s, p + 1, q)) /\ Len(SubSeq(s, p + 1, q)) = q - p
           /\ \A k \in 1..q - p : SubSeq(s, p + 1, q)[k] = s[p + k]
<1>1. Len(s) \in Nat /\ DOMAIN s = 1..Len(s)
  BY SeqFacts
<1>. DEFINE t == SubSeq(s, p + 1, q)
<1>2. \A k \in p + 1..q : s[k] \in Elements(s)
  BY <1>1 DEF Elements
<1>3. /\ t \in Seq(Elements(s)) /\ Len(t) = IF p + 1 <= q THEN q - (p + 1) + 1 ELSE 0
      /\ \A k \in 1..q - (p + 1) + 1 : t[k] = s[(p + 1) + k - 1]
  <2>1. p + 1 \in Int /\ q \in Int
    BY <1>1
  <2>. QED BY <1>2, <2>1, SubSeqProperties
<1>. HIDE DEF t
<1>4. Len(t) = q - p /\ q - (p + 1) + 1 = q - p
  BY <1>1, <1>3
<1>5. \A k \in 1..q - p : t[k] = s[p + k]
  <2>1. \A k \in 1..q - p : (p + 1) + k - 1 = p + k
    BY <1>1
  <2>. QED BY <1>3, <1>4, <2>1
<1>. QED BY <1>3, <1>4, <1>5, SeqIs DEF t

\* A function that goes on from its value before.
Follows(n, V, start, step, f) ==
    f \in [0..n -> V] /\ f[0] = start /\ \A k \in 1..n : f[k] = step[<<k, f[k - 1]>>]

\* There is one, whatever the step.
LEMMA StepsExist ==
    ASSUME NEW n \in Nat, NEW V, NEW start \in V, NEW step \in [(1..n) \X V -> V]
    PROVE  \E f : Follows(n, V, start, step, f)
<1>. DEFINE Good(m, f) == /\ f \in [0..m -> V] /\ f[0] = start
                          /\ \A k \in 1..m : f[k] = step[<<k, f[k - 1]>>]
            S == {m \in 0..n : \E f : Good(m, f)}
<1>1. 0 \in S
  <2>. DEFINE g == [k \in 0..0 |-> start]
  <2>1. g \in [0..0 -> V] /\ g[0] = start
    OBVIOUS
  <2>0. \A k \in 1..0 : FALSE
    OBVIOUS
  <2>2. Good(0, g)
    BY <2>0, <2>1
  <2>. HIDE DEF g
  <2>. QED BY <2>2
<1>2. ASSUME NEW m \in 0..n - 1, m \in S PROVE m + 1 \in S
  <2>1. PICK f : Good(m, f)
    BY <1>2
  <2>2. m \in Nat /\ m + 1 \in 1..n /\ m \in 0..m /\ f[m] \in V
    BY <2>1
  <2>3. step[<<m + 1, f[m]>>] \in V
    BY <2>2
  <2>. DEFINE g == [k \in 0..m + 1 |-> IF k = m + 1 THEN step[<<m + 1, f[m]>>] ELSE f[k]]
  <2>4. \A k \in 0..m : g[k] = f[k] /\ f[k] \in V
    BY <2>1, <2>2
  <2>5. g[m + 1] = step[<<m + 1, f[m]>>]
    BY <2>2
  <2>a. g = [k \in 0..m + 1 |-> g[k]]
    OBVIOUS
  <2>. HIDE DEF g
  <2>b. \A k \in 0..m + 1 : g[k] \in V
    BY <2>2, <2>3, <2>4, <2>5
  <2>6. g \in [0..m + 1 -> V]
    BY <2>a, <2>b
  <2>7. ASSUME NEW k \in 1..m + 1 PROVE g[k] = step[<<k, g[k - 1]>>]
    <3>1. CASE k = m + 1
      <4>1. k - 1 = m /\ g[m] = f[m]
        BY <3>1, <2>2, <2>4
      <4>. QED BY <4>1, <3>1, <2>5
    <3>2. CASE k # m + 1
      <4>1. k \in 1..m /\ k \in 0..m /\ k - 1 \in 0..m
        BY <3>2, <2>2
      <4>. QED BY <4>1, <2>1, <2>4
    <3>. QED BY <3>1, <3>2
  <2>8. g[0] = start
    BY <2>1, <2>2, <2>4
  <2>9. Good(m + 1, g)
    BY <2>6, <2>7, <2>8
  <2>. QED BY <2>2, <2>9
<1>3. n \in S
  <2>. HIDE DEF S
  <2>1. \A k \in 0..n : k \in S
    BY <1>1, <1>2, UpTo
  <2>. QED BY <2>1
<1>. QED BY <1>3 DEF Follows

-----------------------------------------------------------------------------
(* The elements at some places of a sequence.                               *)

\* How many of the places there are up to each, and what is collected there.
Collects(seq, places, f) ==
    /\ f[0] = <<>> /\ \A k \in 0..Len(seq) : IsSeq(f[k])
    /\ \A k \in 1..Len(seq) :
          f[k] = IF k \in places THEN Append(f[k - 1], seq[k]) ELSE f[k - 1]
    /\ Sifted(seq, places) = f[Len(seq)]

LEMMA AtCollects ==
    ASSUME NEW seq, IsSeq(seq), NEW places
    PROVE  \E f : Collects(seq, places, f)
<1>. DEFINE n == Len(seq)
            none == <<>>
            V == Seq(Elements(seq))
            Then(k, v) == IF k \in places THEN Append(v, seq[k]) ELSE v
            step == [x \in (1..n) \X V |-> Then(x[1], x[2])]
            Is(f) == f = [k \in 0..n |-> IF k = 0 THEN none ELSE Then(k, f[k - 1])]
            g == CHOOSE f : Is(f)
<1>1. n \in Nat /\ \A k \in 1..n : seq[k] \in Elements(seq) /\ k - 1 \in 0..n
  BY SeqFacts
<1>2. \A k \in 1..n, v \in V : Then(k, v) \in V
  BY <1>1, AppendProperties
<1>3. none \in V
  BY EmptySeq
<1>. HIDE DEF n, none, Then, V
<1>4. step \in [(1..n) \X V -> V] /\ \A k \in 1..n, v \in V : step[<<k, v>>] = Then(k, v)
  BY <1>2
<1>. HIDE DEF step
<1>5. PICK f : f \in [0..n -> V] /\ f[0] = none /\ \A k \in 1..n : f[k] = step[<<k, f[k - 1]>>]
  <2>1. n \in Nat /\ step \in [(1..n) \X V -> V]
    BY <1>1, <1>4
  <2>2. \E f : Follows(n, V, none, step, f)
    BY <1>3, <2>1, StepsExist, Zenon
  <2>. QED BY <2>2 DEF Follows
<1>6. \A k \in 1..n : f[k] = Then(k, f[k - 1])
  BY <1>1, <1>4, <1>5
<1>7. Is(f)
  <2>1. \A k \in 0..n : f[k] = IF k = 0 THEN none ELSE Then(k, f[k - 1])
    BY <1>1, <1>5, <1>6
  <2>. QED BY <1>5, <2>1
<1>8. Is(g)
  BY <1>7
<1>9. Sifted(seq, places) = g[n]
  BY Zenon DEF Sifted, n, none, Then
<1>. HIDE DEF g
<1>10. g[0] = none /\ \A k \in 1..n : g[k] = Then(k, g[k - 1])
  BY <1>1, <1>8
<1>11. /\ g[0] = <<>>
       /\ \A k \in 1..n : g[k] = IF k \in places THEN Append(g[k - 1], seq[k]) ELSE g[k - 1]
  BY <1>10, Zenon DEF none, Then
<1>12. \A k \in 0..n : IsSeq(g[k])
  <2>. DEFINE S == {k \in 0..n : IsSeq(g[k])}
  <2>1. 0 \in S
    BY <1>1, <1>11, EmptyIs
  <2>2. ASSUME NEW k \in 0..n - 1, k \in S PROVE k + 1 \in S
    <3>1. k + 1 \in 1..n /\ (k + 1) - 1 = k /\ k + 1 \in 0..n
      BY <1>1
    <3>2. IsSeq(Append(g[k], seq[k + 1])) /\ IsSeq(g[k])
      BY <2>2, AppendIs
    <3>. QED BY <1>11, <3>1, <3>2
  <2>. HIDE DEF S
  <2>3. \A k \in 0..n : k \in S
    BY <1>1, <2>1, <2>2, UpTo
  <2>. QED BY <2>3 DEF S
<1>. QED BY <1>9, <1>11, <1>12 DEF Collects, n

-----------------------------------------------------------------------------
(* Counting.                                                                *)

\* c[k]: how many numbers from 1 to k are in T.
Counts(n, T, c) ==
    /\ c \in [0..n -> Nat] /\ c[0] = 0
    /\ \A k \in 1..n : (k \in T => c[k] = c[k - 1] + 1) /\ (k \notin T => c[k] = c[k - 1])

Among(T, m) == {k \in 1..m : k \in T}

\* The count is the cardinality.
LEMMA CountIs ==
    ASSUME NEW n \in Nat, NEW T, NEW c, Counts(n, T, c)
    PROVE  \A m \in 0..n : IsFiniteSet(Among(T, m)) /\ Cardinality(Among(T, m)) = c[m]
<1>. DEFINE A(m) == Among(T, m)
            S == {m \in 0..n : IsFiniteSet(A(m)) /\ Cardinality(A(m)) = c[m]}
<1>1. 0 \in S
  <2>1. A(0) = {}
    BY DEF Among
  <2>2. IsFiniteSet(A(0)) /\ Cardinality(A(0)) = 0 /\ c[0] = 0
    BY <2>1, FS_EmptySet DEF Counts
  <2>. HIDE DEF A
  <2>. QED BY <2>2
<1>2. ASSUME NEW m \in 0..n - 1, m \in S PROVE m + 1 \in S
  <2>1. m + 1 \in 1..n /\ (m + 1) - 1 = m /\ m + 1 \in 0..n
    OBVIOUS
  <2>2. CASE m + 1 \in T
    <3>1. A(m + 1) = A(m) \cup {m + 1} /\ m + 1 \notin A(m)
      BY <2>2 DEF Among
    <3>. HIDE DEF A
    <3>2. IsFiniteSet(A(m + 1)) /\ Cardinality(A(m + 1)) = Cardinality(A(m)) + 1
      BY <1>2, <3>1, FS_AddElement
    <3>3. c[m + 1] = c[m] + 1
      BY <2>1, <2>2 DEF Counts
    <3>. QED BY <1>2, <2>1, <3>2, <3>3
  <2>3. CASE m + 1 \notin T
    <3>1. A(m + 1) = A(m)
      BY <2>3 DEF Among
    <3>. HIDE DEF A
    <3>2. c[m + 1] = c[m]
      BY <2>1, <2>3 DEF Counts
    <3>. QED BY <1>2, <2>1, <3>1, <3>2
  <2>. QED BY <2>2, <2>3
<1>. HIDE DEF S
<1>3. \A m \in 0..n : m \in S
  BY <1>1, <1>2, UpTo
<1>. QED BY <1>3 DEF S

\* Whatever there is to count can be counted.
LEMMA CountExists ==
    ASSUME NEW n \in Nat, NEW T
    PROVE  \E c : Counts(n, T, c)
<1>. DEFINE step == [x \in (1..n) \X Nat |-> IF x[1] \in T THEN x[2] + 1 ELSE x[2]]
<1>1. /\ step \in [(1..n) \X Nat -> Nat]
      /\ \A k \in 1..n, v \in Nat : step[<<k, v>>] = IF k \in T THEN v + 1 ELSE v
  OBVIOUS
<1>. HIDE DEF step
<1>2. 0 \in Nat
  OBVIOUS
<1>3. \E c : Follows(n, Nat, 0, step, c)
  BY <1>1, <1>2, StepsExist, Zenon
<1>4. PICK c : Follows(n, Nat, 0, step, c)
  BY <1>3
<1>5. ASSUME NEW k \in 1..n PROVE c[k] = IF k \in T THEN c[k - 1] + 1 ELSE c[k - 1]
  <2>1. k - 1 \in 0..n
    OBVIOUS
  <2>. QED BY <2>1, <1>1, <1>4 DEF Follows
<1>6. Counts(n, T, c)
  BY <1>4, <1>5 DEF Counts, Follows
<1>. QED BY <1>6

\* There is one count.
LEMMA CountSame ==
    ASSUME NEW n \in Nat, NEW T, NEW c, NEW d, Counts(n, T, c), Counts(n, T, d)
    PROVE  c = d
<1>1. \A m \in 0..n : Cardinality(Among(T, m)) = c[m]
  BY CountIs
<1>2. \A m \in 0..n : Cardinality(Among(T, m)) = d[m]
  BY CountIs
<1>3. \A m \in 0..n : c[m] = d[m]
  BY <1>1, <1>2, Zenon
<1>. QED BY <1>3 DEF Counts

\* It never falls.
LEMMA CountGrows ==
    ASSUME NEW n \in Nat, NEW T, NEW c, Counts(n, T, c), NEW j \in 0..n
    PROVE  \A k \in 0..n : j <= k => c[j] <= c[k]
<1>. DEFINE S == {k \in 0..n : j <= k => c[j] <= c[k]}
<1>1. 0 \in S
  BY DEF Counts
<1>2. ASSUME NEW k \in 0..n - 1, k \in S PROVE k + 1 \in S
  <2>1. k + 1 \in 1..n /\ (k + 1) - 1 = k /\ k + 1 \in 0..n /\ k \in 0..n
    OBVIOUS
  <2>2. c[j] \in Nat /\ c[k] \in Nat /\ c[k] <= c[k + 1] /\ c[k + 1] \in Nat
    BY <2>1 DEF Counts
  <2>. QED BY <1>2, <2>1, <2>2
<1>. HIDE DEF S
<1>3. \A k \in 0..n : k \in S
  BY <1>1, <1>2, UpTo
<1>. QED BY <1>3 DEF S

\* It takes every value on its way, at a number of the set.
LEMMA CountHits ==
    ASSUME NEW n \in Nat, NEW T, NEW c, Counts(n, T, c), NEW v \in Nat, v < c[n]
    PROVE  \E k \in 1..n : k \in T /\ c[k - 1] = v /\ c[k] = v + 1
<1>. SUFFICES ASSUME ~\E k \in 1..n : k \in T /\ c[k - 1] = v /\ c[k] = v + 1
              PROVE  FALSE
  OBVIOUS
<1>. DEFINE S == {k \in 0..n : c[k] <= v}
<1>1. 0 \in S
  BY DEF Counts
<1>2. ASSUME NEW k \in 0..n - 1, k \in S PROVE k + 1 \in S
  <2>1. k + 1 \in 1..n /\ (k + 1) - 1 = k /\ k + 1 \in 0..n /\ k \in 0..n
    OBVIOUS
  <2>2. c[k] \in Nat /\ c[k] <= v /\ c[k + 1] \in Nat
    BY <1>2, <2>1 DEF Counts
  <2>3. CASE k + 1 \in T
    <3>1. c[k + 1] = c[k] + 1
      BY <2>1, <2>3 DEF Counts
    <3>2. c[k] # v
      BY <2>1, <2>3, <3>1
    <3>. QED BY <2>1, <2>2, <3>1, <3>2
  <2>4. CASE k + 1 \notin T
    <3>1. c[k + 1] = c[k]
      BY <2>1, <2>4 DEF Counts
    <3>. QED BY <2>1, <2>2, <3>1
  <2>. QED BY <2>3, <2>4
<1>. HIDE DEF S
<1>3. \A k \in 0..n : k \in S
  BY <1>1, <1>2, UpTo
<1>4. n \in S /\ c[n] \in Nat
  BY <1>3 DEF Counts
<1>. QED BY <1>4 DEF S

-----------------------------------------------------------------------------
(* What is collected, and where from.                                       *)

\* rank[k]: how many of the places there are up to k, and where what stood at k is collected.
Ranked(seq, places, q, rank) ==
    /\ IsSeq(q) /\ Counts(Len(seq), places, rank) /\ rank[Len(seq)] = Len(q)
    /\ \A k \in 1..Len(seq) : k \in places => q[rank[k]] = seq[k]

LEMMA AtIsRanked ==
    ASSUME NEW seq, IsSeq(seq), NEW places
    PROVE  \E rank : Ranked(seq, places, Sifted(seq, places), rank)
<1>. DEFINE n == Len(seq)
<1>1. n \in Nat /\ n \in 0..n
  BY SeqFacts
<1>2. PICK f : Collects(seq, places, f)
  BY AtCollects
<1>. DEFINE rank == [k \in 0..n |-> Len(f[k])]
<1>3. \A k \in 0..n : IsSeq(f[k]) /\ Len(f[k]) \in Nat
  BY <1>2, SeqFacts DEF Collects
<1>4. rank \in [0..n -> Nat] /\ \A k \in 0..n : rank[k] = Len(f[k])
  BY <1>3
<1>. HIDE DEF rank
<1>5. rank[0] = 0
  BY <1>1, <1>2, <1>4, EmptyIs, EmptySeq DEF Collects
<1>6. ASSUME NEW k \in 1..n
      PROVE  /\ k \in places => rank[k] = rank[k - 1] + 1 /\ f[k][rank[k]] = seq[k]
             /\ k \notin places => rank[k] = rank[k - 1]
             /\ \A x \in 1..rank[k - 1] : f[k][x] = f[k - 1][x]
             /\ rank[k - 1] <= rank[k] /\ k - 1 \in 0..n /\ k \in 0..n
  <2>1. k - 1 \in 0..n /\ k \in 0..n
    BY <1>1
  <2>2. CASE k \in places
    <3>1. f[k] = Append(f[k - 1], seq[k]) /\ IsSeq(f[k - 1])
      BY <1>2, <2>2, <2>1 DEF Collects
    <3>2. /\ Len(f[k]) = Len(f[k - 1]) + 1 /\ f[k][Len(f[k - 1]) + 1] = seq[k]
          /\ \A x \in 1..Len(f[k - 1]) : f[k][x] = f[k - 1][x]
      BY <3>1, AppendIs
    <3>3. rank[k] = Len(f[k]) /\ rank[k - 1] = Len(f[k - 1]) /\ Len(f[k - 1]) \in Nat
      BY <2>1, <1>3, <1>4
    <3>. QED BY <2>1, <2>2, <3>2, <3>3
  <2>3. CASE k \notin places
    <3>1. f[k] = f[k - 1]
      BY <1>2, <2>3 DEF Collects
    <3>. QED BY <2>1, <2>3, <3>1, <1>3, <1>4
  <2>. QED BY <2>2, <2>3
\* What is collected stays.
<1>7. ASSUME NEW j \in 0..n
      PROVE  \A k \in 0..n : j <= k => /\ rank[j] <= rank[k]
                                       /\ \A x \in 1..rank[j] : f[k][x] = f[j][x]
  <2>. DEFINE Fits(k) == j <= k => /\ rank[j] <= rank[k]
                                   /\ \A x \in 1..rank[j] : f[k][x] = f[j][x]
              S == {k \in 0..n : Fits(k)}
  <2>1. 0 \in S
    BY <1>1, <1>4
  <2>2. ASSUME NEW k \in 0..n - 1, k \in S PROVE k + 1 \in S
    <3>1. k + 1 \in 1..n /\ (k + 1) - 1 = k /\ k \in 0..n /\ k + 1 \in 0..n
      BY <1>1
    <3>2. rank[j] \in Nat /\ rank[k] \in Nat /\ rank[k + 1] \in Nat
      BY <3>1, <1>4
    <3>3. CASE j = k + 1
      <4>1. Fits(k + 1)
        BY <3>2, <3>3
      <4>. QED BY <3>1, <4>1
    <3>4. CASE j # k + 1 /\ j <= k + 1
      <4>1. j <= k
        BY <3>4, <3>1
      <4>2. Fits(k)
        BY <2>2
      <4>3. /\ rank[k] <= rank[k + 1] /\ \A x \in 1..rank[k] : f[k + 1][x] = f[k][x]
        BY <3>1, <1>6
      <4>4. Fits(k + 1)
        BY <3>2, <4>1, <4>2, <4>3
      <4>. QED BY <3>1, <4>4
    <3>5. CASE ~(j <= k + 1)
      BY <3>1, <3>5
    <3>. QED BY <3>3, <3>4, <3>5
  <2>. HIDE DEF S
  <2>3. \A k \in 0..n : k \in S
    BY <1>1, <2>1, <2>2, UpTo
  <2>. QED BY <2>3 DEF S
<1>. DEFINE q == Sifted(seq, places)
<1>8. q = f[n] /\ IsSeq(q) /\ rank[n] = Len(q)
  BY <1>1, <1>2, <1>3, <1>4 DEF Collects
<1>9. ASSUME NEW k \in 1..n, k \in places PROVE q[rank[k]] = seq[k]
  <2>1. rank[k] = rank[k - 1] + 1 /\ f[k][rank[k]] = seq[k] /\ k \in 0..n /\ k - 1 \in 0..n
    BY <1>9, <1>6
  <2>2. rank[k] \in 1..rank[k]
    BY <2>1, <1>4
  <2>3. f[n][rank[k]] = f[k][rank[k]]
    BY <1>1, <1>7, <2>1, <2>2
  <2>. QED BY <2>1, <2>3, <1>8
<1>. HIDE DEF q
<1>10. Ranked(seq, places, q, rank)
  <2>1. Counts(n, places, rank)
    BY <1>4, <1>5, <1>6 DEF Counts
  <2>. QED BY <1>8, <1>9, <2>1 DEF Ranked
<1>. QED BY <1>10 DEF q

\* However the places are counted.
LEMMA AtIs ==
    ASSUME NEW seq, IsSeq(seq), NEW places, NEW rank, Counts(Len(seq), places, rank)
    PROVE  Ranked(seq, places, Sifted(seq, places), rank)
<1>1. Len(seq) \in Nat
  BY SeqFacts
<1>2. PICK d : Ranked(seq, places, Sifted(seq, places), d)
  BY AtIsRanked
<1>3. d = rank
  BY <1>1, <1>2, CountSame DEF Ranked
<1>. QED BY <1>2, <1>3

\* What stands at x in it comes from a place.
Stems(seq, places, q, rank, x) ==
    \E k \in 1..Len(seq) : /\ k \in places /\ rank[k - 1] = x - 1 /\ rank[k] = x
                           /\ q[x] = seq[k]

\* All of it does.
LEMMA Whence ==
    ASSUME NEW seq, IsSeq(seq), NEW places, NEW q, NEW rank, Ranked(seq, places, q, rank),
           NEW x \in 1..Len(q)
    PROVE  Stems(seq, places, q, rank, x)
<1>1. Len(seq) \in Nat /\ Len(q) \in Nat /\ Counts(Len(seq), places, rank)
  BY SeqFacts DEF Ranked
<1>2. x - 1 \in Nat /\ x - 1 < rank[Len(seq)] /\ (x - 1) + 1 = x
  BY <1>1 DEF Ranked
<1>3. PICK k \in 1..Len(seq) : k \in places /\ rank[k - 1] = x - 1 /\ rank[k] = (x - 1) + 1
  BY <1>1, <1>2, CountHits
<1>. QED BY <1>2, <1>3 DEF Ranked, Stems

-----------------------------------------------------------------------------
(* The edit script: a walk over both texts.                                 *)

Row(a) == 1..Len(a) + 1
Rest(a, b, p) == Len(a) + 1 - p[1] + (Len(b) + 1 - p[2])

\* What the loop puts at a place of the table.
Entry(a, b, L, p) ==
    IF p[1] > Len(a) \/ p[2] > Len(b) THEN 0
    ELSE IF a[p[1]] = b[p[2]] THEN L[<<p[1] + 1, p[2] + 1>>] + 1
    ELSE Larger(L[<<p[1] + 1, p[2]>>], L[<<p[1], p[2] + 1>>])
Table(a, b, L) ==
    L \in [Row(a) \X Row(b) -> Nat] /\ \A p \in Row(a) \X Row(b) : L[p] = Entry(a, b, L, p)

\* What is looked up lies nearer to the far corner.
LEMMA Nearer ==
    ASSUME NEW a, IsSeq(a), NEW b, IsSeq(b), NEW p \in Row(a) \X Row(b)
    PROVE  /\ Rest(a, b, p) \in 0..Len(a) + Len(b)
           /\ p[1] <= Len(a) /\ p[2] <= Len(b) =>
                 \A q \in {<<p[1] + 1, p[2] + 1>>, <<p[1] + 1, p[2]>>, <<p[1], p[2] + 1>>} :
                     q \in Row(a) \X Row(b) /\ Rest(a, b, q) < Rest(a, b, p)
<1>1. Len(a) \in Nat /\ Len(b) \in Nat
  BY SeqFacts
<1>2. p[1] \in 1..Len(a) + 1 /\ p[2] \in 1..Len(b) + 1
  BY DEF Row
<1>3. Rest(a, b, p) \in 0..Len(a) + Len(b)
  BY <1>1, <1>2 DEF Rest
<1>4. ASSUME p[1] <= Len(a), p[2] <= Len(b),
             NEW q \in {<<p[1] + 1, p[2] + 1>>, <<p[1] + 1, p[2]>>, <<p[1], p[2] + 1>>}
      PROVE  q \in Row(a) \X Row(b) /\ Rest(a, b, q) < Rest(a, b, p)
  <2>1. PICK i \in 1..Len(a) + 1, j \in 1..Len(b) + 1 :
            q = <<i, j>> /\ i >= p[1] /\ j >= p[2] /\ i + j > p[1] + p[2]
    <3>1. /\ p[1] \in 1..Len(a) + 1 /\ p[1] + 1 \in 1..Len(a) + 1
          /\ p[2] \in 1..Len(b) + 1 /\ p[2] + 1 \in 1..Len(b) + 1
      BY <1>1, <1>2, <1>4
    <3>2. /\ p[1] + 1 + (p[2] + 1) > p[1] + p[2] /\ p[1] + 1 + p[2] > p[1] + p[2]
          /\ p[1] + (p[2] + 1) > p[1] + p[2] /\ p[1] + 1 >= p[1] /\ p[2] + 1 >= p[2]
          /\ p[1] >= p[1] /\ p[2] >= p[2]
      BY <3>1
    <3>. QED BY <1>4, <3>1, <3>2, Zenon
  <2>2. Rest(a, b, q) = Len(a) + 1 - i + (Len(b) + 1 - j)
    BY <2>1 DEF Rest
  <2>3. Rest(a, b, q) < Rest(a, b, p)
    BY <1>1, <1>2, <2>1, <2>2 DEF Rest
  <2>. QED BY <2>1, <2>3 DEF Row
<1>. QED BY <1>3, <1>4

\* The table can be filled, from its far corner on.
LEMMA TableExists ==
    ASSUME NEW a, IsSeq(a), NEW b, IsSeq(b)
    PROVE  \E L : Table(a, b, L)
<1>. DEFINE n == Len(a)
            m == Len(b)
            D == Row(a) \X Row(b)
            Done(d, L) == /\ L \in [D -> Nat]
                          /\ \A p \in D : Rest(a, b, p) <= d => L[p] = Entry(a, b, L, p)
            S == {d \in 0..n + m : \E L : Done(d, L)}
<1>1. n \in Nat /\ m \in Nat
  BY SeqFacts
<1>2. \A p \in D : /\ p[1] \in 1..n + 1 /\ p[2] \in 1..m + 1 /\ p = <<p[1], p[2]>>
                   /\ Rest(a, b, p) \in 0..n + m
  BY <1>1 DEF Row, Rest
<1>3. 0 \in S
  <2>. DEFINE L == [p \in D |-> 0]
  <2>1. L \in [D -> Nat]
    OBVIOUS
  <2>2. ASSUME NEW p \in D, Rest(a, b, p) <= 0 PROVE L[p] = Entry(a, b, L, p)
    <3>1. p[1] > n
      BY <1>1, <1>2, <2>2 DEF Rest
    <3>. QED BY <3>1 DEF Entry
  <2>. HIDE DEF L, D
  <2>3. Done(0, L)
    BY <2>1, <2>2
  <2>. QED BY <1>1, <2>3
<1>4. ASSUME NEW d \in 0..(n + m) - 1, d \in S PROVE d + 1 \in S
  <2>1. PICK M : Done(d, M)
    BY <1>4
  <2>. DEFINE L == [p \in D |-> IF Rest(a, b, p) <= d THEN M[p] ELSE Entry(a, b, M, p)]
  <2>2. ASSUME NEW p \in D, Rest(a, b, p) <= d + 1, p[1] <= n, p[2] <= m
        PROVE  /\ <<p[1] + 1, p[2] + 1>> \in D /\ Rest(a, b, <<p[1] + 1, p[2] + 1>>) <= d
               /\ <<p[1] + 1, p[2]>> \in D /\ Rest(a, b, <<p[1] + 1, p[2]>>) <= d
               /\ <<p[1], p[2] + 1>> \in D /\ Rest(a, b, <<p[1], p[2] + 1>>) <= d
    <3>1. \A q \in {<<p[1] + 1, p[2] + 1>>, <<p[1] + 1, p[2]>>, <<p[1], p[2] + 1>>} :
              q \in D /\ Rest(a, b, q) < Rest(a, b, p)
      BY <2>2, Nearer
    <3>2. \A q \in D : Rest(a, b, q) \in Nat
      BY <1>1, <1>2
    <3>. QED BY <1>1, <1>2, <2>2, <3>1, <3>2
  <2>3. ASSUME NEW p \in D PROVE Entry(a, b, M, p) \in Nat
    <3>. HIDE DEF D
    <3>1. CASE p[1] > n \/ p[2] > m
      BY <3>1 DEF Entry
    <3>2. CASE ~(p[1] > n \/ p[2] > m)
      <4>1. p[1] <= n /\ p[2] <= m
        BY <1>1, <1>2, <3>2
      <4>2. /\ <<p[1] + 1, p[2] + 1>> \in D /\ <<p[1] + 1, p[2]>> \in D /\ <<p[1], p[2] + 1>> \in D
        BY <1>1, <1>2, <4>1 DEF Row, D
      <4>3. /\ M[<<p[1] + 1, p[2] + 1>>] \in Nat /\ M[<<p[1] + 1, p[2]>>] \in Nat
            /\ M[<<p[1], p[2] + 1>>] \in Nat
        BY <2>1, <4>2
      <4>. QED BY <3>2, <4>3 DEF Entry, Larger
    <3>. QED BY <3>1, <3>2
  <2>4. L \in [D -> Nat]
    <3>. HIDE DEF D
    <3>. QED BY <2>1, <2>3
  <2>5. \A p \in D : Rest(a, b, p) <= d => L[p] = M[p]
    OBVIOUS
  <2>6. \A p \in D : Rest(a, b, p) <= d + 1 => L[p] = Entry(a, b, M, p)
    <3>. HIDE DEF D
    <3>. QED BY <2>1
  <2>. HIDE DEF L
  <2>7. ASSUME NEW p \in D, Rest(a, b, p) <= d + 1 PROVE Entry(a, b, M, p) = Entry(a, b, L, p)
    <3>1. CASE p[1] > n \/ p[2] > m
      BY <3>1 DEF Entry
    <3>2. CASE ~(p[1] > n \/ p[2] > m)
      <4>0. p[1] <= n /\ p[2] <= m
        BY <1>1, <1>2, <3>2
      <4>1. /\ L[<<p[1] + 1, p[2] + 1>>] = M[<<p[1] + 1, p[2] + 1>>]
            /\ L[<<p[1] + 1, p[2]>>] = M[<<p[1] + 1, p[2]>>]
            /\ L[<<p[1], p[2] + 1>>] = M[<<p[1], p[2] + 1>>]
        <5>. HIDE DEF D
        <5>. QED BY <2>2, <2>5, <2>7, <4>0
      <4>. QED BY <4>1 DEF Entry
    <3>. QED BY <3>1, <3>2
  <2>. HIDE DEF D
  <2>8. Done(d + 1, L)
    BY <2>4, <2>6, <2>7
  <2>9. d + 1 \in 0..n + m
    BY <1>1
  <2>. QED BY <2>8, <2>9
<1>5. n + m \in S
  <2>. HIDE DEF S
  <2>1. n + m \in Nat /\ n + m \in 0..n + m
    BY <1>1
  <2>. QED BY <1>1, <1>3, <1>4, <2>1, UpTo
<1>6. PICK L : Done(n + m, L)
  BY <1>5
<1>7. Table(a, b, L)
  <2>1. \A p \in D : L[p] = Entry(a, b, L, p)
    <3>. HIDE DEF D
    <3>. QED BY <1>2, <1>6
  <2>. QED BY <1>6, <2>1 DEF Table
<1>. QED BY <1>7

\* What lengths makes is that table.
LEMMA LengthsAre ==
    ASSUME NEW a, IsSeq(a), NEW b, IsSeq(b)
    PROVE  Table(a, b, lengths(a, b))
<1>. DEFINE D == (1..Len(a) + 1) \X (1..Len(b) + 1)
            Is(L) == L = [p \in D |->
                IF p[1] > Len(a) \/ p[2] > Len(b) THEN 0
                ELSE IF a[p[1]] = b[p[2]] THEN L[<<p[1] + 1, p[2] + 1>>] + 1
                ELSE Larger(L[<<p[1] + 1, p[2]>>], L[<<p[1], p[2] + 1>>])]
            G == CHOOSE L : Is(L)
<1>1. PICK T : Table(a, b, T)
  BY TableExists
<1>2. Is(T)
  <2>1. T = [p \in D |-> Entry(a, b, T, p)]
    BY <1>1 DEF Table, Row
  <2>. QED BY <2>1 DEF Entry
<1>3. Is(G)
  BY <1>2
<1>4. lengths(a, b) = G
  BY Zenon DEF lengths
<1>. HIDE DEF G
<1>5. G = [p \in D |-> Entry(a, b, G, p)]
  BY <1>3 DEF Entry
<1>6. \A p \in D : G[p] = T[p]
  <2>. DEFINE n == Len(a)
              m == Len(b)
              S == {d \in 0..n + m : \A p \in D : Rest(a, b, p) <= d => G[p] = T[p]}
  <2>1. n \in Nat /\ m \in Nat
    BY SeqFacts
  <2>2. D = Row(a) \X Row(b)
    BY DEF Row
  <2>3. \A p \in D : G[p] = Entry(a, b, G, p) /\ T[p] = Entry(a, b, T, p)
    BY <1>1, <1>5, <2>2 DEF Table
  <2>4. ASSUME NEW p \in D,
               \A q \in D : Rest(a, b, q) < Rest(a, b, p) => G[q] = T[q]
        PROVE  G[p] = T[p]
    <3>1. CASE p[1] > n \/ p[2] > m
      BY <2>3, <3>1 DEF Entry
    <3>2. CASE ~(p[1] > n \/ p[2] > m)
      <4>1. p[1] <= n /\ p[2] <= m
        BY <2>1, <3>2
      <4>. HIDE DEF D
      <4>2. \A q \in {<<p[1] + 1, p[2] + 1>>, <<p[1] + 1, p[2]>>, <<p[1], p[2] + 1>>} : G[q] = T[q]
        BY <2>2, <2>4, <4>1, Nearer
      <4>3. /\ G[<<p[1] + 1, p[2] + 1>>] = T[<<p[1] + 1, p[2] + 1>>]
            /\ G[<<p[1] + 1, p[2]>>] = T[<<p[1] + 1, p[2]>>]
            /\ G[<<p[1], p[2] + 1>>] = T[<<p[1], p[2] + 1>>]
        BY <4>2
      <4>. QED BY <2>3, <4>3 DEF Entry
    <3>. QED BY <3>1, <3>2
  <2>. HIDE DEF D
  <2>5. \A p \in D : Rest(a, b, p) \in 0..n + m
    BY <2>2, Nearer
  <2>6. 0 \in S
    BY <2>1, <2>4, <2>5
  <2>7. ASSUME NEW d \in 0..(n + m) - 1, d \in S PROVE d + 1 \in S
    <3>1. \A p \in D : Rest(a, b, p) <= d => G[p] = T[p]
      BY <2>7
    <3>2. ASSUME NEW p \in D, Rest(a, b, p) <= d + 1 PROVE G[p] = T[p]
      <4>1. \A q \in D : Rest(a, b, q) < Rest(a, b, p) => G[q] = T[q]
        BY <2>1, <2>5, <3>1, <3>2
      <4>. QED BY <2>4, <4>1
    <3>. QED BY <2>1, <3>2
  <2>. HIDE DEF S
  <2>8. n + m \in Nat /\ n + m \in 0..n + m
    BY <2>1
  <2>9. n + m \in S
    BY <2>6, <2>7, <2>8, UpTo
  <2>. QED BY <2>5, <2>9 DEF S
<1>7. G = T
  BY <1>1, <1>5, <1>6 DEF Table, Row
<1>. QED BY <1>1, <1>4, <1>7

\* One step of the walk: the edit e at line i of one text and line j of the other.
Keeps(a, b, e, i, j) ==
    i <= Len(a) /\ j <= Len(b) /\ a[i] = b[j] /\ e = Kept(a, i, j)
Deletes(a, b, e, i, j) ==
    /\ i <= Len(a) /\ e = Deleted(a, i)
    /\ j > Len(b) \/ (a[i] # b[j] /\ lengths(a, b)[<<i + 1, j>>] >= lengths(a, b)[<<i, j + 1>>])
Inserts(a, b, e, i, j) ==
    /\ j <= Len(b) /\ e = Inserted(b, j)
    /\ i > Len(a) \/ (a[i] # b[j] /\ lengths(a, b)[<<i + 1, j>>] < lengths(a, b)[<<i, j + 1>>])
Moves(a, b, e, i, j, toI, toJ) ==
    \/ Keeps(a, b, e, i, j) /\ toI = i + 1 /\ toJ = j + 1
    \/ Deletes(a, b, e, i, j) /\ toI = i + 1 /\ toJ = j
    \/ Inserts(a, b, e, i, j) /\ toI = i /\ toJ = j + 1

\* The lines reached after each of the edits s.
Path(a, b, s, I, J) ==
    /\ IsSeq(s) /\ I \in [0..Len(s) -> Row(a)] /\ J \in [0..Len(s) -> Row(b)]
    /\ I[0] = 1 /\ J[0] = 1
    /\ \A k \in 1..Len(s) : Moves(a, b, s[k], I[k - 1], J[k - 1], I[k], J[k])
Walk(a, b, s, I, J) ==
    Path(a, b, s, I, J) /\ I[Len(s)] = Len(a) + 1 /\ J[Len(s)] = Len(b) + 1

PathTo(a, b, s, i, j) == \E I, J : Path(a, b, s, I, J) /\ I[Len(s)] = i /\ J[Len(s)] = j

Edits(a, b) ==
    {Kept(a, i, j) : i \in Row(a), j \in Row(b)} \cup {Deleted(a, i) : i \in Row(a)}
        \cup {Inserted(b, j) : j \in Row(b)}

\* A turn of the loop is a step of the walk, as long as there are lines left.
LEMMA Turn ==
    ASSUME NEW a, IsSeq(a), NEW b, IsSeq(b), NEW s, s.i \in Row(a), s.j \in Row(b),
           ~(s.i > Len(a) /\ s.j > Len(b))
    PROVE  \E e \in Edits(a, b), i \in Row(a), j \in Row(b) :
               /\ Moves(a, b, e, s.i, s.j, i, j) /\ i + j > s.i + s.j
               /\ NextEdit(a, b, lengths(a, b), s) = [i |-> i, j |-> j, out |-> Append(s.out, e)]
<1>. DEFINE x == s.i
            y == s.j
            L == lengths(a, b)
            next == NextEdit(a, b, L, s)
            To(e, i, j) == [i |-> i, j |-> j, out |-> Append(s.out, e)]
<1>0. /\ Len(a) \in Nat /\ Len(b) \in Nat /\ x \in Nat /\ y \in Nat
      /\ x \in 1..Len(a) + 1 /\ y \in 1..Len(b) + 1
  BY SeqFacts DEF Row
<1>1. /\ Kept(a, x, y) \in Edits(a, b) /\ Deleted(a, x) \in Edits(a, b)
      /\ Inserted(b, y) \in Edits(a, b)
  <2>1. x \in Row(a) /\ y \in Row(b)
    OBVIOUS
  <2>2. /\ Kept(a, x, y) \in {Kept(a, i, j) : i \in Row(a), j \in Row(b)}
        /\ Deleted(a, x) \in {Deleted(a, i) : i \in Row(a)}
        /\ Inserted(b, y) \in {Inserted(b, j) : j \in Row(b)}
    BY <2>1
  <2>. QED BY <2>2 DEF Edits
<1>. SUFFICES ASSUME NEW e \in Edits(a, b), NEW i \in Row(a), NEW j \in Row(b),
                     Moves(a, b, e, x, y, i, j), next = To(e, i, j)
              PROVE  i + j > x + y
  <2>1. CASE x > Len(a)
    <3>1. y <= Len(b) /\ y + 1 \in Row(b)
      BY <1>0, <2>1 DEF Row
    <3>2. next = To(Inserted(b, y), x, y + 1)
      BY <1>0, <2>1, <3>1 DEF NextEdit
    <3>3. Moves(a, b, Inserted(b, y), x, y, x, y + 1)
      BY <2>1, <3>1 DEF Moves, Inserts
    <3>. QED BY <1>1, <3>1, <3>2, <3>3
  <2>2. CASE x <= Len(a) /\ y > Len(b)
    <3>1. x + 1 \in Row(a)
      BY <1>0, <2>2 DEF Row
    <3>2. next = To(Deleted(a, x), x + 1, y)
      BY <1>0, <2>2 DEF NextEdit
    <3>3. Moves(a, b, Deleted(a, x), x, y, x + 1, y)
      BY <2>2 DEF Moves, Deletes
    <3>. QED BY <1>1, <3>1, <3>2, <3>3
  <2>3. CASE x <= Len(a) /\ y <= Len(b) /\ a[x] = b[y]
    <3>1. x + 1 \in Row(a) /\ y + 1 \in Row(b)
      BY <1>0, <2>3 DEF Row
    <3>2. next = To(Kept(a, x, y), x + 1, y + 1)
      BY <1>0, <2>3 DEF NextEdit
    <3>3. Moves(a, b, Kept(a, x, y), x, y, x + 1, y + 1)
      BY <2>3 DEF Moves, Keeps
    <3>. QED BY <1>1, <3>1, <3>2, <3>3
  <2>4. CASE x <= Len(a) /\ y <= Len(b) /\ a[x] # b[y]
    <3>1. x + 1 \in Row(a) /\ y + 1 \in Row(b)
      BY <1>0, <2>4 DEF Row
    <3>2. L[<<x + 1, y>>] \in Nat /\ L[<<x, y + 1>>] \in Nat
      BY <3>1, LengthsAre DEF Table
    <3>3. CASE L[<<x + 1, y>>] >= L[<<x, y + 1>>]
      <4>1. next = To(Deleted(a, x), x + 1, y)
        BY <1>0, <2>4, <3>3 DEF NextEdit
      <4>2. Moves(a, b, Deleted(a, x), x, y, x + 1, y)
        BY <2>4, <3>3 DEF Moves, Deletes
      <4>. QED BY <1>1, <3>1, <4>1, <4>2
    <3>4. CASE ~(L[<<x + 1, y>>] >= L[<<x, y + 1>>])
      <4>1. next = To(Inserted(b, y), x, y + 1)
        BY <1>0, <2>4, <3>4 DEF NextEdit
      <4>2. L[<<x + 1, y>>] < L[<<x, y + 1>>]
        BY <3>2, <3>4
      <4>3. Moves(a, b, Inserted(b, y), x, y, x, y + 1)
        BY <2>4, <4>2 DEF Moves, Inserts
      <4>. QED BY <1>1, <3>1, <4>1, <4>3
    <3>. QED BY <3>3, <3>4
  <2>. QED BY <1>0, <2>1, <2>2, <2>3, <2>4
<1>. QED BY <1>0 DEF Moves

\* One step more.
LEMMA StepOn ==
    ASSUME NEW a, NEW b, NEW s, NEW x, NEW y, PathTo(a, b, s, x, y), NEW e,
           NEW i \in Row(a), NEW j \in Row(b), Moves(a, b, e, x, y, i, j)
    PROVE  PathTo(a, b, Append(s, e), i, j)
<1>0. PICK I, J : Path(a, b, s, I, J) /\ I[Len(s)] = x /\ J[Len(s)] = y
  BY DEF PathTo
<1>. DEFINE t == Append(s, e)
            X == [k \in 0..Len(s) + 1 |-> IF k = Len(s) + 1 THEN i ELSE I[k]]
            Y == [k \in 0..Len(s) + 1 |-> IF k = Len(s) + 1 THEN j ELSE J[k]]
<1>1. /\ IsSeq(s) /\ Len(s) \in Nat /\ IsSeq(t) /\ Len(t) = Len(s) + 1 /\ t[Len(s) + 1] = e
      /\ \A k \in 1..Len(s) : t[k] = s[k]
  BY <1>0, SeqFacts, AppendIs DEF Path
<1>2. /\ X \in [0..Len(s) + 1 -> Row(a)] /\ Y \in [0..Len(s) + 1 -> Row(b)]
      /\ \A k \in 0..Len(s) : X[k] = I[k] /\ Y[k] = J[k]
      /\ X[Len(s) + 1] = i /\ Y[Len(s) + 1] = j
  BY <1>0, <1>1 DEF Path
<1>. HIDE DEF t, X, Y
<1>3. ASSUME NEW k \in 1..Len(t) PROVE Moves(a, b, t[k], X[k - 1], Y[k - 1], X[k], Y[k])
  <2>1. CASE k = Len(s) + 1
    <3>1. k - 1 = Len(s) /\ Len(s) \in 0..Len(s)
      BY <1>1, <2>1
    <3>. QED BY <1>0, <1>1, <1>2, <2>1, <3>1
  <2>2. CASE k # Len(s) + 1
    <3>1. k \in 1..Len(s) /\ k \in 0..Len(s) /\ k - 1 \in 0..Len(s)
      BY <1>1, <2>2
    <3>. QED BY <1>0, <1>1, <1>2, <3>1 DEF Path
  <2>. QED BY <2>1, <2>2
<1>4. X[0] = 1 /\ Y[0] = 1
  BY <1>0, <1>1, <1>2 DEF Path
<1>5. Path(a, b, t, X, Y)
  BY <1>1, <1>2, <1>3, <1>4 DEF Path
<1>. QED BY <1>1, <1>2, <1>5 DEF t, PathTo

\* The edit script walks from the first lines of both texts past their last.
LEMMA ScriptWalks ==
    ASSUME NEW a, IsSeq(a), NEW b, IsSeq(b)
    PROVE  \E I, J : Walk(a, b, lcsScript(a, b), I, J)
<1>. DEFINE n == Len(a) + Len(b)
            L == lengths(a, b)
            V == [i : Row(a), j : Row(b), out : Seq(Edits(a, b))]
            start == [i |-> 1, j |-> 1, out |-> <<>>]
            step == [x \in (1..n) \X V |-> NextEdit(a, b, L, x[2])]
            Is(f) == f = [k \in 0..n |-> IF k = 0 THEN start ELSE NextEdit(a, b, L, f[k - 1])]
            g == CHOOSE f : Is(f)
<1>1. n \in Nat /\ Len(a) \in Nat /\ Len(b) \in Nat
  BY SeqFacts
<1>2. start \in V
  BY <1>1, EmptySeq DEF Row
<1>3. ASSUME NEW v \in V
      PROVE  NextEdit(a, b, L, v) \in V
  <2>1. CASE v.i > Len(a) /\ v.j > Len(b)
    BY <2>1 DEF NextEdit
  <2>2. CASE ~(v.i > Len(a) /\ v.j > Len(b))
    <3>1. PICK e \in Edits(a, b), i \in Row(a), j \in Row(b) :
              NextEdit(a, b, L, v) = [i |-> i, j |-> j, out |-> Append(v.out, e)]
      <4>1. v.i \in Row(a) /\ v.j \in Row(b)
        OBVIOUS
      <4>. QED BY <2>2, <4>1, Turn
    <3>2. Append(v.out, e) \in Seq(Edits(a, b))
      BY AppendProperties
    <3>. QED BY <3>1, <3>2
  <2>. QED BY <2>1, <2>2
<1>. HIDE DEF V, start, n
<1>4. step \in [(1..n) \X V -> V] /\ \A k \in 1..n, v \in V : step[<<k, v>>] = NextEdit(a, b, L, v)
  BY <1>3
<1>. HIDE DEF step
<1>5. \E f : Follows(n, V, start, step, f)
  BY <1>1, <1>2, <1>4, StepsExist, Zenon
<1>6. PICK f : Follows(n, V, start, step, f)
  BY <1>5
<1>7. Is(f)
  <2>1. \A k \in 1..n : f[k] = NextEdit(a, b, L, f[k - 1])
    <3>1. ASSUME NEW k \in 1..n PROVE f[k] = NextEdit(a, b, L, f[k - 1])
      <4>1. k - 1 \in 0..n
        BY <1>1
      <4>2. f[k - 1] \in V /\ f[k] = step[<<k, f[k - 1]>>]
        BY <1>6, <4>1 DEF Follows
      <4>. QED BY <1>4, <4>2, Zenon
    <3>. QED BY <3>1
  <2>2. \A k \in 0..n : f[k] = IF k = 0 THEN start ELSE NextEdit(a, b, L, f[k - 1])
    BY <1>1, <1>6, <2>1 DEF Follows
  <2>. QED BY <1>6, <2>2 DEF Follows
<1>8. Is(g)
  BY <1>7
<1>9. lcsScript(a, b) = g[n].out
  BY Zenon DEF lcsScript, n, start
<1>. HIDE DEF g
<1>10. g[0] = start /\ \A k \in 1..n : g[k] = NextEdit(a, b, L, g[k - 1])
  BY <1>1, <1>8
<1>. DEFINE Reached(v) == PathTo(a, b, v.out, v.i, v.j)
            Far(k, v) == (v.i > Len(a) /\ v.j > Len(b)) \/ v.i + v.j >= k + 2
            Good(k) == g[k] \in V /\ Reached(g[k]) /\ Far(k, g[k])
            S == {k \in 0..n : Good(k)}
<1>11. 0 \in S
  <2>1. start.i = 1 /\ start.j = 1 /\ start.out = <<>>
    BY DEF start
  <2>. DEFINE X == [k \in 0..0 |-> 1]
  <2>2. X \in [0..0 -> Row(a)] /\ X \in [0..0 -> Row(b)] /\ X[0] = 1
    BY <1>1 DEF Row
  <2>. HIDE DEF X
  <2>3. IsSeq(<<>>) /\ Len(<<>>) = 0
    BY EmptyIs, EmptySeq
  <2>4. Path(a, b, <<>>, X, X)
    BY <2>2, <2>3 DEF Path
  <2>5. Reached(start)
    BY <2>1, <2>2, <2>3, <2>4 DEF PathTo
  <2>6. Far(0, start)
    BY <2>1
  <2>. QED BY <1>1, <1>2, <1>10, <2>5, <2>6
<1>12. ASSUME NEW k \in 0..n - 1, k \in S PROVE k + 1 \in S
  <2>. DEFINE v == g[k]
              w == g[k + 1]
  <2>1. k + 1 \in 1..n /\ (k + 1) - 1 = k /\ k + 1 \in 0..n
    BY <1>1
  <2>2. w = NextEdit(a, b, L, v) /\ v \in V /\ Reached(v) /\ Far(k, v)
    BY <1>10, <1>12, <2>1
  <2>. HIDE DEF v, w
  <2>3. CASE v.i > Len(a) /\ v.j > Len(b)
    <3>1. w = v
      BY <2>2, <2>3 DEF NextEdit
    <3>2. Good(k + 1)
      BY <2>2, <2>3, <3>1 DEF w
    <3>. QED BY <2>1, <3>2
  <2>4. CASE ~(v.i > Len(a) /\ v.j > Len(b))
    <3>1. v.i \in Row(a) /\ v.j \in Row(b)
      BY <2>2 DEF V
    <3>2. PICK e \in Edits(a, b), i \in Row(a), j \in Row(b) :
               /\ Moves(a, b, e, v.i, v.j, i, j) /\ i + j > v.i + v.j
               /\ NextEdit(a, b, L, v) = [i |-> i, j |-> j, out |-> Append(v.out, e)]
      BY <2>4, <3>1, Turn
    <3>3. w.i = i /\ w.j = j /\ w.out = Append(v.out, e)
      BY <2>2, <3>2
    <3>6. PathTo(a, b, Append(v.out, e), i, j)
      BY <2>2, <3>2, StepOn
    <3>7. Reached(w)
      BY <3>3, <3>6
    <3>8. Far(k + 1, w)
      BY <2>2, <2>4, <3>1, <3>2, <3>3 DEF Row
    <3>9. w \in V
      BY <1>3, <2>2
    <3>. QED BY <2>1, <3>7, <3>8, <3>9 DEF w
  <2>. QED BY <2>3, <2>4
<1>13. n \in S
  <2>. HIDE DEF S
  <2>1. n \in 0..n
    BY <1>1
  <2>. QED BY <1>1, <1>11, <1>12, <2>1, UpTo
<1>14. PICK I, J : Path(a, b, g[n].out, I, J) /\ I[Len(g[n].out)] = g[n].i
                                             /\ J[Len(g[n].out)] = g[n].j
  BY <1>13 DEF PathTo
<1>15. g[n].i = Len(a) + 1 /\ g[n].j = Len(b) + 1
  <2>1. g[n].i \in 1..Len(a) + 1 /\ g[n].j \in 1..Len(b) + 1 /\ Far(n, g[n])
    BY <1>13 DEF V, Row
  <2>. QED BY <1>1, <2>1 DEF n
<1>16. Walk(a, b, g[n].out, I, J)
  BY <1>14, <1>15 DEF Walk
<1>. QED BY <1>9, <1>16

\* What the edit of a step is, and how far the table counts on from there.
Edited(a, b, e, i, j, x, y) ==
    LET L == lengths(a, b)
    IN /\ L[<<i, j>>] \in Nat /\ L[<<x, y>>] \in Nat
       /\ \/ /\ e.op = " " /\ e.oldLine = i /\ e.newLine = j /\ x = i + 1 /\ y = j + 1
             /\ i <= Len(a) /\ j <= Len(b) /\ e.text = a[i] /\ a[i] = b[j]
             /\ L[<<i, j>>] = L[<<x, y>>] + 1
          \/ /\ e.op = "-" /\ e.oldLine = i /\ e.newLine = 0 /\ x = i + 1 /\ y = j
             /\ i <= Len(a) /\ e.text = a[i] /\ (j > Len(b) \/ a[i] # b[j])
             /\ L[<<i, j>>] = L[<<x, y>>]
          \/ /\ e.op = "+" /\ e.oldLine = 0 /\ e.newLine = j /\ x = i /\ y = j + 1
             /\ j <= Len(b) /\ e.text = b[j] /\ (i > Len(a) \/ a[i] # b[j])
             /\ L[<<i, j>>] = L[<<x, y>>]

\* Every step of the walk is one of these.
LEMMA MoveIs ==
    ASSUME NEW a, IsSeq(a), NEW b, IsSeq(b), NEW e, NEW i \in Row(a), NEW j \in Row(b),
           NEW x \in Row(a), NEW y \in Row(b), Moves(a, b, e, i, j, x, y)
    PROVE  Edited(a, b, e, i, j, x, y)
<1>. DEFINE L == lengths(a, b)
<1>1. /\ Len(a) \in Nat /\ Len(b) \in Nat /\ i \in 1..Len(a) + 1 /\ j \in 1..Len(b) + 1
      /\ x \in 1..Len(a) + 1 /\ y \in 1..Len(b) + 1
  BY SeqFacts DEF Row
<1>2. Table(a, b, L)
  BY LengthsAre
<1>. HIDE DEF L
<1>3. /\ \A p \in Row(a), q \in Row(b) :
            /\ L[<<p, q>>] \in Nat
            /\ L[<<p, q>>] = IF p > Len(a) \/ q > Len(b) THEN 0
                             ELSE IF a[p] = b[q] THEN L[<<p + 1, q + 1>>] + 1
                             ELSE Larger(L[<<p + 1, q>>], L[<<p, q + 1>>])
  BY <1>2 DEF Table, Entry
<1>4. L[<<i, j>>] \in Nat /\ L[<<x, y>>] \in Nat
  BY <1>3
<1>5. L[<<i, j>>] = IF i > Len(a) \/ j > Len(b) THEN 0
                    ELSE IF a[i] = b[j] THEN L[<<i + 1, j + 1>>] + 1
                    ELSE Larger(L[<<i + 1, j>>], L[<<i, j + 1>>])
  BY <1>3
<1>6. CASE Keeps(a, b, e, i, j) /\ x = i + 1 /\ y = j + 1
  <2>1. /\ e.op = " " /\ e.oldLine = i /\ e.newLine = j /\ e.text = a[i]
        /\ i <= Len(a) /\ j <= Len(b) /\ a[i] = b[j]
    BY <1>6 DEF Keeps, Kept
  <2>2. L[<<i, j>>] = L[<<x, y>>] + 1
    <3>1. L[<<i, j>>] = L[<<i + 1, j + 1>>] + 1
      <4>0. i <= Len(a) /\ j <= Len(b)
        BY <2>1
      <4>1. ~(i > Len(a) \/ j > Len(b))
        BY <1>1, <4>0
      <4>. QED BY <1>5, <2>1, <4>1
    <3>. QED BY <1>6, <3>1
  <2>. QED BY <1>4, <1>6, <2>1, <2>2 DEF L, Edited
<1>7. CASE Deletes(a, b, e, i, j) /\ x = i + 1 /\ y = j
  <2>1. /\ e.op = "-" /\ e.oldLine = i /\ e.newLine = 0 /\ e.text = a[i] /\ i <= Len(a)
        /\ j > Len(b) \/ (a[i] # b[j] /\ L[<<i + 1, j>>] >= L[<<i, j + 1>>])
    BY <1>7 DEF Deletes, Deleted, L
  <2>2. CASE j > Len(b)
    <3>1. L[<<i, j>>] = 0
      BY <1>5, <2>2
    <3>2. L[<<x, y>>] = 0
      BY <1>3, <1>7, <2>2
    <3>. QED BY <1>4, <1>7, <2>1, <2>2, <3>1, <3>2 DEF L, Edited
  <2>3. CASE ~(j > Len(b))
    <3>1. L[<<i, j>>] = Larger(L[<<i + 1, j>>], L[<<i, j + 1>>])
      BY <1>1, <1>5, <2>1, <2>3
    <3>2. L[<<i, j>>] = L[<<x, y>>]
      BY <1>7, <2>1, <2>3, <3>1 DEF Larger
    <3>. QED BY <1>4, <1>7, <2>1, <2>3, <3>2 DEF L, Edited
  <2>. QED BY <2>2, <2>3
<1>8. CASE Inserts(a, b, e, i, j) /\ x = i /\ y = j + 1
  <2>1. /\ e.op = "+" /\ e.oldLine = 0 /\ e.newLine = j /\ e.text = b[j] /\ j <= Len(b)
        /\ i > Len(a) \/ (a[i] # b[j] /\ L[<<i + 1, j>>] < L[<<i, j + 1>>])
    BY <1>8 DEF Inserts, Inserted, L
  <2>2. CASE i > Len(a)
    <3>1. L[<<i, j>>] = 0
      BY <1>5, <2>2
    <3>2. L[<<x, y>>] = 0
      BY <1>3, <1>8, <2>2
    <3>. QED BY <1>4, <1>8, <2>1, <2>2, <3>1, <3>2 DEF L, Edited
  <2>3. CASE ~(i > Len(a))
    <3>1. L[<<i, j>>] = Larger(L[<<i + 1, j>>], L[<<i, j + 1>>])
      BY <1>1, <1>5, <2>1, <2>3
    <3>2. i + 1 \in Row(a) /\ j \in Row(b)
      BY <1>1, <2>3 DEF Row
    <3>3. L[<<i + 1, j>>] \in Nat
      BY <1>3, <3>2
    <3>4. ~(L[<<i + 1, j>>] >= L[<<i, j + 1>>])
      BY <1>4, <1>8, <2>1, <2>3, <3>3
    <3>5. L[<<i, j>>] = L[<<x, y>>]
      BY <1>8, <3>1, <3>4 DEF Larger
    <3>. QED BY <1>4, <1>8, <2>1, <2>3, <3>5 DEF L, Edited
  <2>. QED BY <2>2, <2>3
<1>. QED BY <1>6, <1>7, <1>8 DEF Moves

\* A walk, edit by edit.
Steps(a, b, s, I, J) ==
    /\ Len(a) \in Nat /\ Len(b) \in Nat /\ IsSeq(s) /\ Len(s) \in Nat
    /\ I[0] = 1 /\ J[0] = 1 /\ I[Len(s)] = Len(a) + 1 /\ J[Len(s)] = Len(b) + 1
    /\ \A k \in 0..Len(s) : I[k] \in 1..Len(a) + 1 /\ J[k] \in 1..Len(b) + 1
    /\ \A k \in 1..Len(s) : Edited(a, b, s[k], I[k - 1], J[k - 1], I[k], J[k])

\* So it goes.
LEMMA WalkSteps ==
    ASSUME NEW a, IsSeq(a), NEW b, IsSeq(b), NEW s, NEW I, NEW J, Walk(a, b, s, I, J)
    PROVE  Steps(a, b, s, I, J)
<1>1. Len(a) \in Nat /\ Len(b) \in Nat /\ IsSeq(s) /\ Len(s) \in Nat
  BY SeqFacts DEF Walk, Path
<1>2. /\ I[0] = 1 /\ J[0] = 1 /\ I[Len(s)] = Len(a) + 1 /\ J[Len(s)] = Len(b) + 1
      /\ \A k \in 0..Len(s) : I[k] \in Row(a) /\ J[k] \in Row(b)
      /\ \A k \in 1..Len(s) : Moves(a, b, s[k], I[k - 1], J[k - 1], I[k], J[k])
  BY DEF Walk, Path
<1>3. \A k \in 0..Len(s) : /\ I[k] \in 1..Len(a) + 1 /\ J[k] \in 1..Len(b) + 1
  BY <1>2 DEF Row
<1>4. ASSUME NEW k \in 1..Len(s)
      PROVE  /\ I[k - 1] \in Row(a) /\ J[k - 1] \in Row(b) /\ I[k] \in Row(a) /\ J[k] \in Row(b)
             /\ Moves(a, b, s[k], I[k - 1], J[k - 1], I[k], J[k])
  <2>1. k - 1 \in 0..Len(s) /\ k \in 0..Len(s)
    BY <1>1
  <2>. QED BY <1>2, <2>1
<1>5. \A k \in 1..Len(s) : Edited(a, b, s[k], I[k - 1], J[k - 1], I[k], J[k])
  BY <1>4, MoveIs
<1>. QED BY <1>1, <1>2, <1>3, <1>5 DEF Steps

\* The walk adds as many lines as the table says are not common.
LEMMA AddedAre ==
    ASSUME NEW a, IsSeq(a), NEW b, IsSeq(b), NEW s, NEW I, NEW J, Walk(a, b, s, I, J)
    PROVE  Cardinality({k \in 1..Len(s) : s[k].op = "+"}) + lengths(a, b)[<<1, 1>>] = Len(b)
<1>. DEFINE n == Len(s)
            L == lengths(a, b)
            T == {k \in 1..n : s[k].op = "+"}
<1>0. Steps(a, b, s, I, J)
  BY WalkSteps
<1>1. n \in Nat /\ Len(a) \in Nat /\ Len(b) \in Nat
  BY <1>0 DEF Steps
<1>2. PICK c : Counts(n, T, c)
  BY <1>1, CountExists
<1>. DEFINE S == {k \in 0..n : c[k] + L[<<1, 1>>] + 1 = J[k] + L[<<I[k], J[k]>>]}
<1>. HIDE DEF L
<1>3. \A k \in 0..n : I[k] \in 1..Len(a) + 1 /\ J[k] \in 1..Len(b) + 1 /\ L[<<I[k], J[k]>>] \in Nat
  <2>1. \A k \in 0..n : I[k] \in Row(a) /\ J[k] \in Row(b)
    BY <1>0 DEF Steps, Row
  <2>2. Table(a, b, L)
    BY LengthsAre DEF L
  <2>. QED BY <2>1, <2>2 DEF Table, Row
<1>. HIDE DEF n
<1>4. c[0] = 0 /\ I[0] = 1 /\ J[0] = 1 /\ \A k \in 0..n : c[k] \in Nat
  BY <1>0, <1>2 DEF Counts, Steps
<1>5. L[<<1, 1>>] \in Nat
  <2>1. 0 \in 0..n
    BY <1>1
  <2>. QED BY <1>3, <1>4, <2>1
<1>6. 0 \in S
  BY <1>1, <1>4, <1>5
<1>7. ASSUME NEW k \in 1..n
      PROVE  \/ s[k].op # "+" /\ J[k] = J[k - 1] + 1
                /\ L[<<I[k - 1], J[k - 1]>>] = L[<<I[k], J[k]>>] + 1
             \/ s[k].op # "+" /\ J[k] = J[k - 1] /\ L[<<I[k - 1], J[k - 1]>>] = L[<<I[k], J[k]>>]
             \/ s[k].op = "+" /\ J[k] = J[k - 1] + 1
                /\ L[<<I[k - 1], J[k - 1]>>] = L[<<I[k], J[k]>>]
  BY <1>0 DEF L, n, Steps, Edited
<1>8. ASSUME NEW k \in 0..n - 1, k \in S PROVE k + 1 \in S
  <2>1. k + 1 \in 1..n /\ (k + 1) - 1 = k /\ k + 1 \in 0..n /\ k \in 0..n
    BY <1>1
  <2>2. IF s[k + 1].op = "+" THEN c[k + 1] = c[k] + 1 ELSE c[k + 1] = c[k]
    BY <1>2, <2>1 DEF Counts
  <2>3. /\ c[k] \in Nat /\ c[k + 1] \in Nat /\ J[k] \in Nat /\ J[k + 1] \in Nat
        /\ L[<<I[k], J[k]>>] \in Nat /\ L[<<I[k + 1], J[k + 1]>>] \in Nat
    BY <1>1, <1>3, <1>4, <2>1
  <2>4. \/ s[k + 1].op # "+" /\ J[k + 1] = J[k] + 1
           /\ L[<<I[k], J[k]>>] = L[<<I[k + 1], J[k + 1]>>] + 1
        \/ s[k + 1].op # "+" /\ J[k + 1] = J[k] /\ L[<<I[k], J[k]>>] = L[<<I[k + 1], J[k + 1]>>]
        \/ s[k + 1].op = "+" /\ J[k + 1] = J[k] + 1
           /\ L[<<I[k], J[k]>>] = L[<<I[k + 1], J[k + 1]>>]
    BY <1>7, <2>1
  <2>5. c[k] + L[<<1, 1>>] + 1 = J[k] + L[<<I[k], J[k]>>]
    BY <1>8
  <2>6. c[k + 1] + L[<<1, 1>>] + 1 = J[k + 1] + L[<<I[k + 1], J[k + 1]>>]
    BY <1>5, <2>2, <2>3, <2>4, <2>5
  <2>. QED BY <2>1, <2>6
<1>9. c[n] + L[<<1, 1>>] + 1 = J[n] + L[<<I[n], J[n]>>]
  <2>. HIDE DEF S
  <2>1. n \in 0..n
    BY <1>1
  <2>2. n \in S
    BY <1>1, <1>6, <1>8, <2>1, UpTo
  <2>. QED BY <2>2 DEF S
<1>10. L[<<I[n], J[n]>>] = 0 /\ J[n] = Len(b) + 1
  <2>1. I[n] = Len(a) + 1 /\ J[n] = Len(b) + 1 /\ I[n] \in Row(a) /\ J[n] \in Row(b)
    BY <1>0, <1>1 DEF n, Row, Steps
  <2>2. Table(a, b, L)
    BY LengthsAre DEF L
  <2>3. L[<<I[n], J[n]>>] = Entry(a, b, L, <<I[n], J[n]>>)
    BY <2>1, <2>2 DEF Table
  <2>4. I[n] > Len(a)
    BY <1>1, <2>1
  <2>. QED BY <2>1, <2>3, <2>4 DEF Entry
<1>11. Cardinality(T) = c[n]
  <2>1. Among(T, n) = T
    BY DEF Among
  <2>2. n \in 0..n
    BY <1>1
  <2>. HIDE DEF T
  <2>3. \A m \in 0..n : Cardinality(Among(T, m)) = c[m]
    BY <1>1, <1>2, CountIs
  <2>. QED BY <2>1, <2>2, <2>3
<1>12. c[n] \in Nat
  BY <1>1, <1>4
<1>13. c[n] + L[<<1, 1>>] = Len(b)
  BY <1>1, <1>5, <1>9, <1>10, <1>12
<1>. QED BY <1>11, <1>13 DEF L, n, T

-----------------------------------------------------------------------------
(* No common subsequence is longer than the table says.                     *)

\* Two pairs of places that one subsequence may hold.
Beside(p, q) == p = q \/ (p[1] < q[1] /\ p[2] < q[2]) \/ (q[1] < p[1] /\ q[2] < p[2])
Rising(A) == \A p, q \in A : Beside(p, q)
Pairs(a, b) == {p \in (DOMAIN a) \X (DOMAIN b) : a[p[1]] = b[p[2]]}
\* Those from a place of the table on.
From(a, b, p) == {A \in SUBSET Pairs(a, b) : Rising(A) /\ \A q \in A : p[1] <= q[1] /\ p[2] <= q[2]}

\* Where the lines agree, at most one pair of a subsequence has either of them.
LEMMA Same ==
    ASSUME NEW A, Rising(A), A \subseteq Nat \X Nat, NEW i \in Nat, NEW j \in Nat,
           \A q \in A : i <= q[1] /\ j <= q[2],
           NEW p \in A, NEW q \in A, p[1] = i \/ p[2] = j, q[1] = i \/ q[2] = j
    PROVE  p = q
<1>1. Beside(p, q)
  BY DEF Rising
<1>2. /\ p[1] \in Nat /\ p[2] \in Nat /\ q[1] \in Nat /\ q[2] \in Nat
      /\ i <= p[1] /\ j <= p[2] /\ i <= q[1] /\ j <= q[2]
  OBVIOUS
<1>. QED BY <1>1, <1>2 DEF Beside

\* A subsequence is finite.
LEMMA PairsAre ==
    ASSUME NEW a, IsSeq(a), NEW b, IsSeq(b)
    PROVE  /\ Pairs(a, b) \subseteq Nat \X Nat /\ \A A \in SUBSET Pairs(a, b) : IsFiniteSet(A)
           /\ \A p \in Pairs(a, b) : /\ p[1] \in 1..Len(a) /\ p[2] \in 1..Len(b)
                                     /\ a[p[1]] = b[p[2]] /\ p = <<p[1], p[2]>>
<1>1. Len(a) \in Nat /\ Len(b) \in Nat /\ DOMAIN a = 1..Len(a) /\ DOMAIN b = 1..Len(b)
  BY SeqFacts
<1>2. IsFiniteSet(1..Len(a)) /\ IsFiniteSet(1..Len(b))
  BY <1>1, FS_Interval
<1>3. IsFiniteSet((1..Len(a)) \X (1..Len(b)))
  BY <1>2, FS_Product
<1>4. Pairs(a, b) \subseteq (1..Len(a)) \X (1..Len(b))
  BY <1>1 DEF Pairs
<1>5. IsFiniteSet(Pairs(a, b))
  BY <1>3, <1>4, FS_Subset
<1>6. \A A \in SUBSET Pairs(a, b) : IsFiniteSet(A)
  BY <1>5, FS_Subset
<1>7. \A p \in Pairs(a, b) : /\ p[1] \in 1..Len(a) /\ p[2] \in 1..Len(b)
                             /\ a[p[1]] = b[p[2]] /\ p = <<p[1], p[2]>>
  BY <1>1 DEF Pairs
<1>8. Pairs(a, b) \subseteq Nat \X Nat
  BY <1>1, <1>4
<1>. QED BY <1>6, <1>7, <1>8

\* Where the lines agree, all but one pair of a subsequence lies further on in both texts.
LEMMA AgreeFits ==
    ASSUME NEW a, IsSeq(a), NEW b, IsSeq(b), NEW i \in Nat, NEW j \in Nat,
           NEW A \in From(a, b, <<i, j>>)
    PROVE  \E B \in From(a, b, <<i + 1, j + 1>>) : Cardinality(A) <= Cardinality(B) + 1
<1>. DEFINE p == <<i, j>>
            B == {q \in A : q[1] # i /\ q[2] # j}
<1>1. A \subseteq Pairs(a, b) /\ Rising(A) /\ \A q \in A : i <= q[1] /\ j <= q[2]
  BY DEF From
<1>2. A \subseteq Nat \X Nat /\ IsFiniteSet(A)
  BY <1>1, PairsAre
<1>3. \A q \in B : i + 1 <= q[1] /\ j + 1 <= q[2]
  BY <1>1, <1>2
<1>4. B \in From(a, b, <<i + 1, j + 1>>)
  BY <1>1, <1>3 DEF From, Rising
<1>5. CASE A = B
  <2>1. Cardinality(B) \in Nat
    BY <1>2, <1>5, FS_CardinalityType
  <2>. HIDE DEF B
  <2>. QED BY <1>4, <1>5, <2>1
<1>6. CASE A # B
  <2>1. PICK t \in A : t[1] = i \/ t[2] = j
    BY <1>6
  <2>2. \A q \in A : q[1] = i \/ q[2] = j => q = t
    BY <1>1, <1>2, <2>1, Same
  <2>3. B = A \ {t}
    BY <2>1, <2>2
  <2>. HIDE DEF B
  <2>4. Cardinality(B) = Cardinality(A) - 1
    BY <1>2, <2>1, <2>3, FS_RemoveElement
  <2>5. Cardinality(A) \in Nat
    BY <1>2, FS_CardinalityType
  <2>6. Cardinality(A) <= Cardinality(B) + 1
    BY <2>4, <2>5
  <2>. QED BY <1>4, <2>6
<1>. QED BY <1>5, <1>6

\* Where they do not, it lies further on in one of them.
LEMMA DifferFits ==
    ASSUME NEW a, IsSeq(a), NEW b, IsSeq(b), NEW i \in Nat, NEW j \in Nat,
           NEW A \in From(a, b, <<i, j>>), a[i] # b[j]
    PROVE  A \in From(a, b, <<i + 1, j>>) \/ A \in From(a, b, <<i, j + 1>>)
<1>1. A \subseteq Pairs(a, b) /\ Rising(A) /\ \A q \in A : i <= q[1] /\ j <= q[2]
  BY DEF From
<1>2. A \subseteq Nat \X Nat
  BY <1>1, PairsAre
<1>3. <<i, j>> \notin A
  BY <1>1, PairsAre
<1>4. ASSUME NEW p \in A, NEW q \in A, p[1] = i, q[2] = j PROVE FALSE
  <2>1. p = q
    BY <1>1, <1>2, <1>4, Same
  <2>2. p = <<i, j>>
    BY <1>1, <1>4, <2>1, PairsAre
  <2>. QED BY <1>3, <2>2
<1>5. CASE \A q \in A : q[1] # i
  <2>1. \A q \in A : i + 1 <= q[1]
    BY <1>1, <1>2, <1>5
  <2>. QED BY <1>1, <2>1 DEF From
<1>6. CASE \A q \in A : q[2] # j
  <2>1. \A q \in A : j + 1 <= q[2]
    BY <1>1, <1>2, <1>6
  <2>. QED BY <1>1, <2>1 DEF From
<1>. QED BY <1>4, <1>5, <1>6

\* The common subsequences from any place of the table on are no longer than it says there.
LEMMA TableBounds ==
    ASSUME NEW a, IsSeq(a), NEW b, IsSeq(b)
    PROVE  \A p \in Row(a) \X Row(b) :
               \A A \in From(a, b, p) : Cardinality(A) <= lengths(a, b)[p]
<1>. DEFINE L == lengths(a, b)
            D == Row(a) \X Row(b)
            n == Len(a) + Len(b)
            Fits(p) == \A A \in From(a, b, p) : Cardinality(A) <= L[p]
            S == {d \in 0..n : \A p \in D : Rest(a, b, p) <= d => Fits(p)}
<1>1. n \in Nat /\ Len(a) \in Nat /\ Len(b) \in Nat
  BY SeqFacts
<1>2. Table(a, b, L)
  BY LengthsAre
<1>. HIDE DEF L, D
<1>3. \A p \in D : L[p] \in Nat /\ L[p] = Entry(a, b, L, p)
  BY <1>2 DEF Table, D
<1>4. ASSUME NEW p \in D, \A q \in D : Rest(a, b, q) < Rest(a, b, p) => Fits(q)
      PROVE  Fits(p)
  <2>. SUFFICES ASSUME NEW A \in From(a, b, p)
                PROVE  Cardinality(A) <= L[p]
    OBVIOUS
  <2>0. /\ p[1] \in Nat /\ p[2] \in Nat /\ p = <<p[1], p[2]>>
        /\ p[1] \in 1..Len(a) + 1 /\ p[2] \in 1..Len(b) + 1
    BY <1>1 DEF D, Row
  <2>1. /\ A \subseteq Pairs(a, b) /\ IsFiniteSet(A) /\ Cardinality(A) \in Nat
        /\ \A q \in A : p[1] <= q[1] /\ p[2] <= q[2]
    BY PairsAre, FS_CardinalityType DEF From
  <2>2. CASE p[1] > Len(a) \/ p[2] > Len(b)
    <3>1. A = {}
      <4>. SUFFICES ASSUME NEW q \in A PROVE FALSE
        OBVIOUS
      <4>1. q[1] \in 1..Len(a) /\ q[2] \in 1..Len(b)
        BY <2>1, PairsAre
      <4>2. p[1] <= q[1] /\ p[2] <= q[2]
        BY <2>1
      <4>. QED BY <1>1, <2>0, <2>2, <4>1, <4>2
    <3>2. Cardinality(A) = 0
      BY <3>1, FS_EmptySet
    <3>. QED BY <1>3, <3>2
  <2>3. CASE ~(p[1] > Len(a) \/ p[2] > Len(b))
    <3>1. p[1] <= Len(a) /\ p[2] <= Len(b)
      BY <1>1, <2>0, <2>3
    <3>2. \A q \in {<<p[1] + 1, p[2] + 1>>, <<p[1] + 1, p[2]>>, <<p[1], p[2] + 1>>} :
              q \in D /\ Rest(a, b, q) < Rest(a, b, p)
      BY <3>1, Nearer DEF D
    <3>3. /\ Fits(<<p[1] + 1, p[2] + 1>>) /\ Fits(<<p[1] + 1, p[2]>>) /\ Fits(<<p[1], p[2] + 1>>)
          /\ <<p[1] + 1, p[2] + 1>> \in D /\ <<p[1] + 1, p[2]>> \in D /\ <<p[1], p[2] + 1>> \in D
      <4>. HIDE DEF Fits
      <4>. QED BY <1>4, <3>2
    <3>4. CASE a[p[1]] = b[p[2]]
      <4>1. PICK B \in From(a, b, <<p[1] + 1, p[2] + 1>>) : Cardinality(A) <= Cardinality(B) + 1
        BY <2>0, AgreeFits
      <4>2. B \subseteq Pairs(a, b)
        BY DEF From
      <4>3. Cardinality(B) \in Nat
        BY <4>2, PairsAre, FS_CardinalityType
      <4>4. Cardinality(B) <= L[<<p[1] + 1, p[2] + 1>>] /\ L[<<p[1] + 1, p[2] + 1>>] \in Nat
        BY <1>3, <3>3
      <4>5. L[p] = L[<<p[1] + 1, p[2] + 1>>] + 1
        BY <1>3, <2>3, <3>4 DEF Entry
      <4>. QED BY <2>1, <4>1, <4>3, <4>4, <4>5
    <3>5. CASE a[p[1]] # b[p[2]]
      <4>1. A \in From(a, b, <<p[1] + 1, p[2]>>) \/ A \in From(a, b, <<p[1], p[2] + 1>>)
        BY <2>0, <3>5, DifferFits
      <4>2. Cardinality(A) <= L[<<p[1] + 1, p[2]>>] \/ Cardinality(A) <= L[<<p[1], p[2] + 1>>]
        BY <3>3, <4>1
      <4>3. L[<<p[1] + 1, p[2]>>] \in Nat /\ L[<<p[1], p[2] + 1>>] \in Nat
        BY <1>3, <3>3
      <4>4. L[p] = Larger(L[<<p[1] + 1, p[2]>>], L[<<p[1], p[2] + 1>>])
        BY <1>3, <2>3, <3>5 DEF Entry
      <4>. QED BY <2>1, <4>2, <4>3, <4>4 DEF Larger
    <3>. QED BY <3>4, <3>5
  <2>. QED BY <2>2, <2>3
<1>5. \A p \in D : Rest(a, b, p) \in 0..n
  BY Nearer DEF D
<1>. HIDE DEF Fits
<1>6. 0 \in S
  BY <1>1, <1>4, <1>5
<1>7. ASSUME NEW d \in 0..n - 1, d \in S PROVE d + 1 \in S
  <2>1. \A p \in D : Rest(a, b, p) <= d => Fits(p)
    BY <1>7
  <2>2. ASSUME NEW p \in D, Rest(a, b, p) <= d + 1 PROVE Fits(p)
    <3>1. \A q \in D : Rest(a, b, q) < Rest(a, b, p) => Fits(q)
      BY <1>1, <1>5, <2>1, <2>2
    <3>. QED BY <1>4, <3>1
  <2>. QED BY <1>1, <2>2
<1>8. n \in S
  <2>. HIDE DEF S, n
  <2>1. n \in 0..n
    BY <1>1
  <2>. QED BY <1>1, <1>6, <1>7, <2>1, UpTo
<1>9. \A p \in D : Fits(p)
  BY <1>5, <1>8
<1>. QED BY <1>9 DEF Fits, D, L

\* So none is longer than the lines the walk keeps.
LEMMA AlignmentsFit ==
    ASSUME NEW a, IsSeq(a), NEW b, IsSeq(b), NEW A \in Alignments(a, b)
    PROVE  IsFiniteSet(A) /\ Cardinality(A) \in Nat /\ Cardinality(A) <= lengths(a, b)[<<1, 1>>]
<1>1. Len(a) \in Nat /\ Len(b) \in Nat
  BY SeqFacts
<1>2. A \subseteq Pairs(a, b) /\ Rising(A)
  BY DEF Alignments, Pairs, Rising, Beside
<1>3. \A q \in A : 1 <= q[1] /\ 1 <= q[2]
  BY <1>1, <1>2, PairsAre
<1>4. A \in From(a, b, <<1, 1>>)
  BY <1>2, <1>3 DEF From
<1>5. <<1, 1>> \in Row(a) \X Row(b)
  BY <1>1 DEF Row
<1>. QED BY <1>2, <1>4, <1>5, TableBounds, PairsAre, FS_CardinalityType

-----------------------------------------------------------------------------
(* Hunks: which pieces of a script they are.                                *)

\* Every place that is kept lies in a run, which starts somewhere.
LEMMA RunStarts ==
    ASSUME NEW n \in Nat, NEW K \in SUBSET (1..n)
    PROVE  \A k \in 0..n : k \in K => \E x \in Starts(K) : x <= k /\ x..k \subseteq K
<1>. DEFINE S == {k \in 0..n : k \in K => \E x \in Starts(K) : x <= k /\ x..k \subseteq K}
<1>1. 0 \in S
  OBVIOUS
<1>2. ASSUME NEW k \in 0..n - 1, k \in S PROVE k + 1 \in S
  <2>. SUFFICES ASSUME k + 1 \in K
                PROVE  \E x \in Starts(K) : x <= k + 1 /\ x..k + 1 \subseteq K
    OBVIOUS
  <2>1. CASE k \in K
    <3>1. PICK x \in Starts(K) : x <= k /\ x..k \subseteq K
      BY <1>2, <2>1
    <3>2. x \in 1..n
      BY DEF Starts
    <3>3. x <= k + 1 /\ x..k + 1 \subseteq K
      BY <3>1, <3>2
    <3>. QED BY <3>3
  <2>2. CASE k \notin K
    <3>1. k + 1 \in Starts(K)
      BY <2>2 DEF Starts
    <3>2. k + 1 <= k + 1 /\ k + 1..k + 1 \subseteq K
      OBVIOUS
    <3>. QED BY <3>1, <3>2
  <2>. QED BY <2>1, <2>2
<1>. HIDE DEF S
<1>3. \A k \in 0..n : k \in S
  BY <1>1, <1>2, UpTo
<1>. QED BY <1>3 DEF S

\* And it ends where End says.
LEMMA RunEnds ==
    ASSUME NEW n \in Nat, NEW K \in SUBSET (1..n), NEW x \in K
    PROVE  LET e == End(K, x) IN e \in K /\ x <= e /\ x..e \subseteq K /\ e + 1 \notin K
<1>. DEFINE Ends(e) == x <= e /\ x..e \subseteq K /\ e + 1 \notin K
<1>1. \E e \in K : Ends(e)
  <2>. SUFFICES ASSUME ~\E e \in K : Ends(e)
                PROVE  FALSE
    OBVIOUS
  <2>. DEFINE S == {k \in 0..n : x <= k => x..k \subseteq K}
  <2>0. x \in 1..n
    OBVIOUS
  <2>1. 0 \in S
    BY <2>0
  <2>2. ASSUME NEW k \in 0..n - 1, k \in S PROVE k + 1 \in S
    <3>1. CASE x <= k
      <4>1. x..k \subseteq K /\ k \in K
        BY <2>0, <2>2, <3>1
      <4>2. k + 1 \in K
        BY <3>1, <4>1
      <4>. QED BY <2>0, <4>1, <4>2
    <3>2. CASE x = k + 1
      BY <3>2
    <3>3. CASE ~(x <= k \/ x = k + 1)
      BY <2>0, <3>3
    <3>. QED BY <3>1, <3>2, <3>3
  <2>. HIDE DEF S
  <2>3. n \in S
    <3>1. n \in 0..n
      OBVIOUS
    <3>. QED BY <2>1, <2>2, <3>1, UpTo
  <2>4. x..n \subseteq K /\ n \in K /\ x <= n
    BY <2>0, <2>3 DEF S
  <2>. QED BY <2>4
<1>2. End(K, x) = CHOOSE e \in K : Ends(e)
  BY DEF End
<1>. HIDE DEF Ends
<1>3. End(K, x) \in K /\ Ends(End(K, x))
  BY <1>1, <1>2
<1>. QED BY <1>3 DEF Ends

IsChange(op) == op # " "

\* The pieces of s, from B[h] to E[h], that the hunks hs are built of: one after the other, and
\* no change outside them.
Cuts(s, hs, B, E) ==
    /\ IsSeq(hs) /\ Len(hs) \in Nat
    /\ \A h \in 1..Len(hs) : /\ B[h] \in 1..Len(s) /\ E[h] \in 1..Len(s) /\ B[h] <= E[h]
                             /\ hs[h] = buildHunk(SubSeq(s, B[h], E[h]))
    /\ \A h, g \in 1..Len(hs) : h < g => E[h] < B[g]
    /\ \A k \in 1..Len(s) : IsChange(s[k].op) => \E h \in 1..Len(hs) : B[h] <= k /\ k <= E[h]
    /\ (\A k \in 1..Len(s) : ~IsChange(s[k].op)) => Len(hs) = 0

\* The hunks of a script are such pieces of it.
LEMMA HunksCut ==
    ASSUME NEW s, IsSeq(s), NEW c \in Nat
    PROVE  \E B, E : Cuts(s, hunks(s, c), B, E)
<1>. DEFINE n == Len(s)
            K == Around(s, c)
            places == [k \in DOMAIN s |-> k]
            B == Sifted(places, Starts(K))
            E == [h \in DOMAIN B |-> End(K, B[h])]
            hs == hunks(s, c)
<1>1. n \in Nat /\ DOMAIN s = 1..n
  BY SeqFacts
<1>2. K \in SUBSET (1..n)
  BY <1>1 DEF Around
<1>3. ASSUME NEW k \in 1..n, IsChange(s[k].op) PROVE k \in K
  <2>1. k <= k + c
    BY <1>1
  <2>. QED BY <1>1, <1>3, <2>1 DEF Around, IsChange
<1>4. IsSeq(places) /\ Len(places) = n /\ \A k \in 1..n : places[k] = k
  BY <1>1, MakeIs
<1>5. hs = [h \in DOMAIN B |-> buildHunk(SubSeq(s, B[h], End(K, B[h])))]
  BY DEF hunks
<1>. HIDE DEF K, places
<1>6. PICK rank : Ranked(places, Starts(K), B, rank)
  BY <1>4, AtIsRanked
<1>. HIDE DEF B, hs
<1>7. IsSeq(B) /\ Len(B) \in Nat /\ DOMAIN B = 1..Len(B)
  BY <1>6, SeqFacts DEF Ranked
<1>8. ASSUME NEW h \in 1..Len(B) PROVE B[h] \in Starts(K) /\ B[h] \in 1..n /\ rank[B[h]] = h
  <2>1. PICK k \in 1..Len(places) : /\ k \in Starts(K) /\ rank[k - 1] = h - 1 /\ rank[k] = h
                                    /\ B[h] = places[k]
    <3>1. Stems(places, Starts(K), B, rank, h)
      BY <1>4, <1>6, Whence
    <3>. QED BY <3>1 DEF Stems
  <2>. QED BY <1>4, <2>1
<1>9. Counts(n, Starts(K), rank)
  BY <1>4, <1>6 DEF Ranked
<1>10. ASSUME NEW h \in 1..Len(B), NEW g \in 1..Len(B), h < g PROVE B[h] < B[g]
  <2>1. B[g] \in 0..n /\ B[h] \in 0..n /\ rank[B[h]] = h /\ rank[B[g]] = g
    BY <1>1, <1>8
  <2>2. B[g] <= B[h] => g <= h
    BY <1>1, <1>9, <2>1, CountGrows
  <2>. QED BY <1>7, <1>10, <2>1, <2>2
<1>11. ASSUME NEW h \in 1..Len(B)
       PROVE  /\ B[h] \in K /\ E[h] = End(K, B[h]) /\ E[h] \in K /\ B[h] <= E[h]
              /\ B[h]..E[h] \subseteq K /\ E[h] + 1 \notin K
  <2>1. B[h] \in K /\ E[h] = End(K, B[h])
    BY <1>7, <1>8 DEF Starts
  <2>. HIDE DEF E, n
  <2>2. LET e == End(K, B[h]) IN e \in K /\ B[h] <= e /\ B[h]..e \subseteq K /\ e + 1 \notin K
    BY <1>1, <1>2, <2>1, RunEnds, Zenon
  <2>. QED BY <2>1, <2>2
<1>12. IsSeq(hs) /\ Len(hs) = Len(B)
  <2>1. hs = [h \in 1..Len(B) |-> hs[h]]
    BY <1>5, <1>7
  <2>. QED BY <1>7, <2>1, MakeIs
<1>13. ASSUME NEW h \in 1..Len(B)
       PROVE  /\ B[h] \in 1..n /\ E[h] \in 1..n /\ B[h] <= E[h]
              /\ hs[h] = buildHunk(SubSeq(s, B[h], E[h]))
  <2>1. hs[h] = buildHunk(SubSeq(s, B[h], End(K, B[h])))
    BY <1>5, <1>7
  <2>. HIDE DEF E
  <2>. QED BY <1>2, <1>8, <1>11, <2>1
<1>14. ASSUME NEW h \in 1..Len(B), NEW g \in 1..Len(B), h < g PROVE E[h] < B[g]
  <2>. HIDE DEF E
  <2>1. B[h] < B[g] /\ B[g] - 1 \notin K /\ B[h] \in 1..n /\ B[g] \in 1..n /\ E[h] \in 1..n
    BY <1>8, <1>10, <1>13, <1>14 DEF Starts
  <2>2. B[g] - 1 \notin B[h]..E[h]
    BY <1>11, <2>1
  <2>. QED BY <2>1, <2>2
<1>15. ASSUME NEW k \in 1..n, k \in K PROVE \E h \in 1..Len(B) : B[h] <= k /\ k <= E[h]
  <2>1. k \in 0..n
    BY <1>1
  <2>2. PICK x \in Starts(K) : x <= k /\ x..k \subseteq K
    BY <1>1, <1>2, <1>15, <2>1, RunStarts
  <2>3. x \in 1..n
    BY <1>2 DEF Starts
  <2>4. B[rank[x]] = x
    BY <1>4, <1>6, <2>3 DEF Ranked
  <2>5. rank[x] \in 1..Len(B)
    <3>1. /\ rank[x] = rank[x - 1] + 1 /\ rank[x - 1] \in Nat /\ x \in 0..n /\ n \in 0..n
          /\ rank[n] = Len(B)
      BY <1>1, <1>4, <1>6, <1>9, <2>3 DEF Counts, Ranked
    <3>2. rank[x] <= rank[n]
      BY <1>1, <1>9, <2>3, <3>1, CountGrows
    <3>. QED BY <1>7, <3>1, <3>2
  <2>. HIDE DEF E
  <2>6. /\ E[rank[x]] + 1 \notin K /\ E[rank[x]] \in 1..n /\ x <= E[rank[x]]
    BY <1>11, <1>13, <2>4, <2>5
  <2>7. E[rank[x]] + 1 \notin x..k
    BY <2>2, <2>6
  <2>8. k <= E[rank[x]]
    BY <2>2, <2>3, <2>6, <2>7
  <2>. QED BY <2>2, <2>4, <2>5, <2>8
<1>16. Len(B) = 0 \/ 1 \in 1..Len(B)
  BY <1>7
<1>17. ASSUME 1 \in 1..Len(B) PROVE \E k \in 1..n : IsChange(s[k].op)
  <2>1. B[1] \in K
    BY <1>11, <1>17
  <2>. QED BY <1>1, <2>1 DEF K, Around, IsChange
<1>18. (\A k \in 1..n : ~IsChange(s[k].op)) => Len(B) = 0
  BY <1>16, <1>17
<1>. HIDE DEF E
<1>19. Cuts(s, hs, B, E)
  BY <1>3, <1>7, <1>12, <1>13, <1>14, <1>15, <1>18 DEF Cuts
<1>. QED BY <1>19 DEF hs

-----------------------------------------------------------------------------
(* How many lines the hunks mark.                                           *)

\* A piece of a script, between two of its places.
LEMMA SegmentIs ==
    ASSUME NEW s, IsSeq(s), NEW p \in 1..Len(s), NEW q \in 1..Len(s), p <= q
    PROVE  /\ IsSeq(SubSeq(s, p, q)) /\ Len(SubSeq(s, p, q)) = q - p + 1
           /\ \A k \in 1..q - p + 1 : SubSeq(s, p, q)[k] = s[p - 1 + k]
<1>1. Len(s) \in Nat
  BY SeqFacts
<1>. DEFINE r == p - 1
<1>2. r \in 0..Len(s) /\ q \in r..Len(s) /\ r + 1 = p /\ q - r = q - p + 1
  BY <1>1
<1>. HIDE DEF r
<1>3. /\ IsSeq(SubSeq(s, r + 1, q)) /\ Len(SubSeq(s, r + 1, q)) = q - r
      /\ \A k \in 1..q - r : SubSeq(s, r + 1, q)[k] = s[r + k]
  BY <1>2, PieceIs
<1>4. \A k \in 1..q - p + 1 : SubSeq(s, p, q)[k] = s[p - 1 + k]
  BY <1>2, <1>3 DEF r
<1>. QED BY <1>2, <1>3, <1>4

\* l: the lines of a piece.
Lines(s, p, q, l) ==
    /\ IsSeq(l) /\ Len(l) = q - p + 1 /\ DOMAIN l = 1..q - p + 1
    /\ \A k \in 1..q - p + 1 : l[k].op = s[p - 1 + k].op /\ l[k].text = s[p - 1 + k].text

\* The lines of a hunk are those of its piece.
LEMMA HunkLines ==
    ASSUME NEW s, IsSeq(s), NEW p \in 1..Len(s), NEW q \in 1..Len(s), p <= q,
           NEW h, h = buildHunk(SubSeq(s, p, q))
    PROVE  Lines(s, p, q, h.lines)
<1>. DEFINE seg == SubSeq(s, p, q)
            n == q - p + 1
            l == [k \in DOMAIN seg |-> [op |-> seg[k].op, text |-> seg[k].text]]
<1>0. n \in Nat
  <2>1. Len(s) \in Nat
    BY SeqFacts
  <2>. QED BY <2>1
<1>1. IsSeq(seg) /\ Len(seg) = n /\ \A k \in 1..n : seg[k] = s[p - 1 + k]
  BY SegmentIs
<1>2. h.lines = l
  BY DEF buildHunk
<1>. HIDE DEF seg, n
<1>3. DOMAIN seg = 1..n
  BY <1>1, SeqFacts
<1>4. l = [k \in 1..n |-> l[k]]
  BY <1>3
<1>5. \A k \in 1..n : l[k].op = s[p - 1 + k].op /\ l[k].text = s[p - 1 + k].text
  BY <1>1, <1>3
<1>. HIDE DEF l
<1>6. IsSeq(l) /\ Len(l) = n /\ DOMAIN l = 1..n
  BY <1>0, <1>4, MakeIs
<1>. QED BY <1>2, <1>5, <1>6 DEF n, Lines

Marked(s, op) == {k \in 1..Len(s) : s[k].op = op}

\* The hunks mark as many lines as the script changes.
LEMMA HunksCount ==
    ASSUME NEW s, IsSeq(s), NEW c \in Nat, NEW op, IsChange(op)
    PROVE  Cardinality(LinesMarked(hunks(s, c), op)) = Cardinality(Marked(s, op))
<1>. DEFINE hs == hunks(s, c)
            M == LinesMarked(hs, op)
            T == Marked(s, op)
<1>1. PICK B, E : Cuts(s, hs, B, E)
  BY HunksCut
<1>. HIDE DEF hs
<1>0. Len(s) \in Nat /\ Len(hs) \in Nat /\ DOMAIN hs = 1..Len(hs)
  BY <1>1, SeqFacts DEF Cuts
<1>2. ASSUME NEW h \in 1..Len(hs)
      PROVE  /\ B[h] \in 1..Len(s) /\ E[h] \in 1..Len(s) /\ B[h] <= E[h]
             /\ B[h] \in Nat /\ E[h] \in Nat
  <2>1. B[h] \in 1..Len(s) /\ E[h] \in 1..Len(s) /\ B[h] <= E[h]
    BY <1>1 DEF Cuts
  <2>. QED BY <1>0, <2>1
<1>a. \A h, g \in 1..Len(hs) : h < g => E[h] < B[g]
  BY <1>1 DEF Cuts
<1>3. ASSUME NEW h \in 1..Len(hs)
      PROVE  /\ DOMAIN hs[h].lines = 1..E[h] - B[h] + 1
             /\ \A k \in 1..E[h] - B[h] + 1 : hs[h].lines[k].op = s[B[h] - 1 + k].op
  <2>1. hs[h] = buildHunk(SubSeq(s, B[h], E[h]))
    BY <1>1 DEF Cuts
  <2>2. B[h] \in 1..Len(s) /\ E[h] \in 1..Len(s) /\ B[h] <= E[h]
    BY <1>2
  <2>3. Lines(s, B[h], E[h], hs[h].lines)
    BY <2>1, <2>2, HunkLines
  <2>. QED BY <2>3 DEF Lines
<1>4. \A z : z \in M <=> \E h \in 1..Len(hs) : \E k \in 1..E[h] - B[h] + 1 :
                             z = <<h, k>> /\ s[B[h] - 1 + k].op = op
  <2>. DEFINE On(z, h) == \E k \in DOMAIN hs[h].lines : z = <<h, k>> /\ hs[h].lines[k].op = op
              In(z, h) == \E k \in 1..E[h] - B[h] + 1 : z = <<h, k>> /\ s[B[h] - 1 + k].op = op
  <2>0. \A z : z \in M <=> \E h \in DOMAIN hs :
                               z \in {h} \X {k \in DOMAIN hs[h].lines : hs[h].lines[k].op = op}
    BY Zenon DEF LinesMarked
  <2>1. \A z : z \in M <=> \E h \in DOMAIN hs : On(z, h)
    BY <2>0
  <2>2. ASSUME NEW h \in 1..Len(hs), NEW z PROVE On(z, h) <=> In(z, h)
    BY <1>3
  <2>. HIDE DEF On, In
  <2>3. \A z : z \in M <=> \E h \in 1..Len(hs) : In(z, h)
    BY <1>0, <2>1, <2>2
  <2>. QED BY <2>3 DEF In
<1>. HIDE DEF M
<1>. DEFINE f == [z \in M |-> B[z[1]] - 1 + z[2]]
<1>5. ASSUME NEW z \in M
      PROVE  /\ z = <<z[1], z[2]>> /\ z[1] \in 1..Len(hs) /\ z[2] \in 1..E[z[1]] - B[z[1]] + 1
             /\ f[z] = B[z[1]] - 1 + z[2] /\ f[z] \in T
             /\ B[z[1]] <= f[z] /\ f[z] <= E[z[1]]
  <2>0. PICK h \in 1..Len(hs) : \E k \in 1..E[h] - B[h] + 1 :
                                    z = <<h, k>> /\ s[B[h] - 1 + k].op = op
    BY <1>4
  <2>1. PICK k \in 1..E[h] - B[h] + 1 : z = <<h, k>> /\ s[B[h] - 1 + k].op = op
    BY <2>0
  <2>2. B[h] - 1 + k \in 1..Len(s) /\ B[h] <= B[h] - 1 + k /\ B[h] - 1 + k <= E[h]
    <3>1. B[h] \in 1..Len(s) /\ E[h] \in 1..Len(s) /\ B[h] <= E[h]
      BY <1>2
    <3>. QED BY <1>0, <3>1
  <2>. QED BY <2>1, <2>2 DEF Marked
<1>. HIDE DEF f
<1>6. f \in [M -> T]
  <2>1. f = [z \in M |-> f[z]]
    BY DEF f
  <2>. HIDE DEF T
  <2>. QED BY <1>5, <2>1
<1>7. ASSUME NEW y \in M, NEW z \in M, f[y] = f[z] PROVE y = z
  <2>0. ASSUME NEW x \in M
        PROVE  /\ x[1] \in 1..Len(hs) /\ x[2] \in Nat /\ f[x] = B[x[1]] - 1 + x[2]
               /\ B[x[1]] <= f[x] /\ f[x] <= E[x[1]]
               /\ B[x[1]] \in Nat /\ E[x[1]] \in Nat
    <3>1. /\ x[1] \in 1..Len(hs) /\ x[2] \in 1..E[x[1]] - B[x[1]] + 1
          /\ f[x] = B[x[1]] - 1 + x[2] /\ B[x[1]] <= f[x] /\ f[x] <= E[x[1]]
      BY <1>5
    <3>2. B[x[1]] \in Nat /\ E[x[1]] \in Nat
      BY <1>2, <3>1
    <3>. QED BY <3>1, <3>2
  <2>1. ~(y[1] < z[1]) /\ ~(z[1] < y[1])
    <3>1. y[1] < z[1] => E[y[1]] < B[z[1]]
      BY <1>a, <2>0
    <3>2. z[1] < y[1] => E[z[1]] < B[y[1]]
      BY <1>a, <2>0
    <3>. QED BY <1>7, <2>0, <3>1, <3>2
  <2>2. y[1] = z[1]
    BY <1>0, <2>0, <2>1
  <2>3. y[2] = z[2]
    BY <1>7, <2>0, <2>2
  <2>. QED BY <1>5, <2>2, <2>3
<1>8. ASSUME NEW k \in T PROVE \E z \in M : f[z] = k
  <2>1. k \in 1..Len(s) /\ s[k].op = op
    BY DEF Marked
  <2>2. PICK h \in 1..Len(hs) : B[h] <= k /\ k <= E[h]
    BY <1>1, <2>1 DEF Cuts
  <2>3. k - B[h] + 1 \in 1..E[h] - B[h] + 1 /\ B[h] - 1 + (k - B[h] + 1) = k
    <3>1. B[h] \in Nat /\ E[h] \in Nat
      BY <1>2
    <3>. QED BY <1>0, <2>1, <2>2, <3>1
  <2>4. <<h, k - B[h] + 1>> \in M
    BY <1>4, <2>1, <2>3
  <2>5. f[<<h, k - B[h] + 1>>] = k
    BY <2>3, <2>4 DEF f
  <2>. QED BY <2>4, <2>5
<1>. HIDE DEF T
<1>9. f \in Injection(M, T) /\ f \in Surjection(M, T)
  BY <1>6, <1>7, <1>8 DEF Injection, Surjection, IsInjective
<1>10. IsFiniteSet(T)
  <2>1. IsFiniteSet(1..Len(s))
    BY <1>0, FS_Interval
  <2>. QED BY <2>1, FS_Subset DEF T, Marked
<1>. QED BY <1>9, <1>10, FS_Injection DEF M, T, hs

-----------------------------------------------------------------------------
(* The patch: the hunks turn the one text into the other.                   *)

\* The edits of lines of the one text, and of the other.
Old(e) == e.op # "+"
New(e) == e.op # "-"

\* What a step of the walk does, side by side.
Does(a, b, s, I, J, k) ==
    /\ I[k - 1] \in 1..Len(a) + 1 /\ J[k - 1] \in 1..Len(b) + 1
    /\ I[k] \in 1..Len(a) + 1 /\ J[k] \in 1..Len(b) + 1
    /\ Old(s[k]) => /\ I[k] = I[k - 1] + 1 /\ s[k].oldLine = I[k - 1]
                    /\ s[k].text = a[I[k - 1]]
    /\ ~Old(s[k]) => I[k] = I[k - 1]
    /\ New(s[k]) => /\ J[k] = J[k - 1] + 1 /\ s[k].newLine = J[k - 1]
                    /\ s[k].text = b[J[k - 1]]
    /\ ~New(s[k]) => J[k] = J[k - 1] /\ s[k].newLine = 0
    /\ Old(s[k]) \/ New(s[k])
    /\ IsChange(s[k].op) <=> ~(Old(s[k]) /\ New(s[k]))

\* Every step does.
LEMMA StepIs ==
    ASSUME NEW a, NEW b, NEW s, NEW I, NEW J, Steps(a, b, s, I, J), NEW k \in 1..Len(s)
    PROVE  Does(a, b, s, I, J, k)
<1>1. Edited(a, b, s[k], I[k - 1], J[k - 1], I[k], J[k])
  BY DEF Steps
<1>2. k \in 0..Len(s) /\ k - 1 \in 0..Len(s)
  BY DEF Steps
<1>3. /\ I[k - 1] \in 1..Len(a) + 1 /\ J[k - 1] \in 1..Len(b) + 1
      /\ I[k] \in 1..Len(a) + 1 /\ J[k] \in 1..Len(b) + 1
  BY <1>2 DEF Steps
<1>4. \/ /\ s[k].op = " " /\ s[k].oldLine = I[k - 1] /\ s[k].newLine = J[k - 1]
         /\ I[k] = I[k - 1] + 1 /\ J[k] = J[k - 1] + 1
         /\ s[k].text = a[I[k - 1]] /\ s[k].text = b[J[k - 1]]
      \/ /\ s[k].op = "-" /\ s[k].oldLine = I[k - 1] /\ s[k].newLine = 0
         /\ I[k] = I[k - 1] + 1 /\ J[k] = J[k - 1] /\ s[k].text = a[I[k - 1]]
      \/ /\ s[k].op = "+" /\ s[k].newLine = J[k - 1]
         /\ I[k] = I[k - 1] /\ J[k] = J[k - 1] + 1 /\ s[k].text = b[J[k - 1]]
  BY <1>1 DEF Edited
<1>. QED BY <1>3, <1>4 DEF Old, New, IsChange, Does

OldIn(s, p, n) == {x \in 1..n : Old(s[p - 1 + x])}
NewIn(s, p, n) == {x \in 1..n : New(s[p - 1 + x])}
Along(I, p, n) == [x \in 0..n |-> I[p - 1 + x] - I[p - 1]]

\* The lines behind are counted along a piece of the walk.
LEMMA PieceCounts ==
    ASSUME NEW a, NEW b, NEW s, NEW I, NEW J, Steps(a, b, s, I, J),
           NEW p \in 1..Len(s), NEW q \in 1..Len(s), p <= q
    PROVE  /\ Counts(q - p + 1, OldIn(s, p, q - p + 1), Along(I, p, q - p + 1))
           /\ Counts(q - p + 1, NewIn(s, p, q - p + 1), Along(J, p, q - p + 1))
<1>. DEFINE n == q - p + 1
            X == [x \in 0..n |-> I[p - 1 + x] - I[p - 1]]
            Y == [x \in 0..n |-> J[p - 1 + x] - J[p - 1]]
            S == {x \in 0..n : I[p - 1 + x] >= I[p - 1] /\ J[p - 1 + x] >= J[p - 1]}
<1>0. Len(s) \in Nat /\ Len(a) \in Nat /\ Len(b) \in Nat
  BY DEF Steps
<1>1. n \in Nat /\ \A x \in 0..n : p - 1 + x \in 0..Len(s)
  BY <1>0
<1>2. \A x \in 0..n : I[p - 1 + x] \in Nat /\ J[p - 1 + x] \in Nat
  BY <1>0, <1>1 DEF Steps
<1>3. p - 1 + 0 = p - 1 /\ I[p - 1] \in Nat /\ J[p - 1] \in Nat /\ 0 \in 0..n
  <2>1. p - 1 + 0 = p - 1 /\ 0 \in 0..n
    BY <1>0, <1>1
  <2>. QED BY <1>2, <2>1
<1>4. ASSUME NEW x \in 1..n
      PROVE  /\ x - 1 \in 0..n /\ x \in 0..n
             /\ Old(s[p - 1 + x]) => I[p - 1 + x] = I[p - 1 + (x - 1)] + 1
             /\ ~Old(s[p - 1 + x]) => I[p - 1 + x] = I[p - 1 + (x - 1)]
             /\ New(s[p - 1 + x]) => J[p - 1 + x] = J[p - 1 + (x - 1)] + 1
             /\ ~New(s[p - 1 + x]) => J[p - 1 + x] = J[p - 1 + (x - 1)]
  <2>1. p - 1 + x \in 1..Len(s) /\ p - 1 + (x - 1) = (p - 1 + x) - 1 /\ x - 1 \in 0..n /\ x \in 0..n
    BY <1>0, <1>1
  <2>. DEFINE k == p - 1 + x
  <2>2. /\ Old(s[k]) => I[k] = I[k - 1] + 1
        /\ ~Old(s[k]) => I[k] = I[k - 1]
        /\ New(s[k]) => J[k] = J[k - 1] + 1
        /\ ~New(s[k]) => J[k] = J[k - 1]
    <3>1. k \in 1..Len(s)
      BY <2>1
    <3>. HIDE DEF k
    <3>2. Does(a, b, s, I, J, k)
      BY <3>1, StepIs
    <3>. QED BY <3>2 DEF Does
  <2>. QED BY <2>1, <2>2
<1>5. \A x \in 0..n : x \in S
  <2>1. 0 \in S
    BY <1>3
  <2>2. ASSUME NEW x \in 0..n - 1, x \in S PROVE x + 1 \in S
    <3>1. x + 1 \in 1..n /\ (x + 1) - 1 = x /\ x \in 0..n /\ x + 1 \in 0..n
      BY <1>1
    <3>2. I[p - 1 + x] >= I[p - 1] /\ J[p - 1 + x] >= J[p - 1]
      BY <2>2
    <3>3. /\ I[p - 1 + (x + 1)] = I[p - 1 + x] \/ I[p - 1 + (x + 1)] = I[p - 1 + x] + 1
          /\ J[p - 1 + (x + 1)] = J[p - 1 + x] \/ J[p - 1 + (x + 1)] = J[p - 1 + x] + 1
      BY <1>4, <3>1
    <3>4. I[p - 1 + x] \in Nat /\ J[p - 1 + x] \in Nat
      BY <1>2, <3>1
    <3>. QED BY <1>3, <3>1, <3>2, <3>3, <3>4
  <2>. HIDE DEF S, n
  <2>. QED BY <1>1, <2>1, <2>2, UpTo
<1>6. ASSUME NEW x \in 0..n PROVE X[x] \in Nat /\ Y[x] \in Nat
  <2>1. I[p - 1 + x] >= I[p - 1] /\ J[p - 1 + x] >= J[p - 1]
    BY <1>5
  <2>2. I[p - 1 + x] \in Nat /\ J[p - 1 + x] \in Nat
    BY <1>2
  <2>3. I[p - 1 + x] - I[p - 1] \in Nat /\ J[p - 1 + x] - J[p - 1] \in Nat
    BY <1>3, <2>1, <2>2
  <2>. QED BY <2>3
<1>7. X \in [0..n -> Nat] /\ Y \in [0..n -> Nat]
  BY <1>6
<1>8. X[0] = 0 /\ Y[0] = 0
  BY <1>3
<1>9. ASSUME NEW x \in 1..n
      PROVE  /\ Old(s[p - 1 + x]) => X[x] = X[x - 1] + 1
             /\ ~Old(s[p - 1 + x]) => X[x] = X[x - 1]
             /\ New(s[p - 1 + x]) => Y[x] = Y[x - 1] + 1
             /\ ~New(s[p - 1 + x]) => Y[x] = Y[x - 1]
  <2>1. x - 1 \in 0..n /\ x \in 0..n
    BY <1>4
  <2>2. /\ X[x] = I[p - 1 + x] - I[p - 1] /\ X[x - 1] = I[p - 1 + (x - 1)] - I[p - 1]
        /\ Y[x] = J[p - 1 + x] - J[p - 1] /\ Y[x - 1] = J[p - 1 + (x - 1)] - J[p - 1]
    BY <2>1
  <2>3. /\ I[p - 1 + x] \in Nat /\ J[p - 1 + x] \in Nat
        /\ I[p - 1 + (x - 1)] \in Nat /\ J[p - 1 + (x - 1)] \in Nat
    BY <1>2, <2>1
  <2>. DEFINE i == I[p - 1 + x]
              j == J[p - 1 + x]
              u == I[p - 1 + (x - 1)]
              v == J[p - 1 + (x - 1)]
  <2>4. /\ Old(s[p - 1 + x]) => i = u + 1
        /\ ~Old(s[p - 1 + x]) => i = u
        /\ New(s[p - 1 + x]) => j = v + 1
        /\ ~New(s[p - 1 + x]) => j = v
    BY <1>4
  <2>5. /\ X[x] = i - I[p - 1] /\ X[x - 1] = u - I[p - 1]
        /\ Y[x] = j - J[p - 1] /\ Y[x - 1] = v - J[p - 1]
        /\ i \in Nat /\ j \in Nat /\ u \in Nat /\ v \in Nat
    BY <2>2, <2>3
  <2>. HIDE DEF X, Y, i, j, u, v
  <2>6. /\ i = u + 1 => X[x] = X[x - 1] + 1
        /\ i = u => X[x] = X[x - 1]
        /\ j = v + 1 => Y[x] = Y[x - 1] + 1
        /\ j = v => Y[x] = Y[x - 1]
    <3>. DEFINE P == I[p - 1]
                Q == J[p - 1]
                Xn == X[x]
                Xo == X[x - 1]
                Yn == Y[x]
                Yo == Y[x - 1]
    <3>1. /\ P \in Nat /\ Q \in Nat /\ i \in Nat /\ j \in Nat /\ u \in Nat /\ v \in Nat
          /\ Xn = i - P /\ Xo = u - P /\ Yn = j - Q /\ Yo = v - Q
      BY <1>3, <2>5
    <3>. HIDE DEF P, Q, Xn, Xo, Yn, Yo
    <3>2. /\ i = u + 1 => Xn = Xo + 1
          /\ i = u => Xn = Xo
          /\ j = v + 1 => Yn = Yo + 1
          /\ j = v => Yn = Yo
      BY <3>1
    <3>. QED BY <3>2 DEF Xn, Xo, Yn, Yo
  <2>. QED BY <2>4, <2>6, Zenon
<1>. HIDE DEF X, Y, n
<1>10. Counts(n, OldIn(s, p, n), X)
  BY <1>7, <1>8, <1>9 DEF Counts, OldIn
<1>11. Counts(n, NewIn(s, p, n), Y)
  BY <1>7, <1>8, <1>9 DEF Counts, NewIn
<1>12. X = Along(I, p, n) /\ Y = Along(J, p, n)
  BY DEF X, Y, Along
<1>. QED BY <1>10, <1>11, <1>12 DEF n

\* What a hunk says of its place and its size.
LEMMA HunkIs ==
    ASSUME NEW a, NEW b, NEW s, NEW I, NEW J, Steps(a, b, s, I, J),
           NEW p \in 1..Len(s), NEW q \in 1..Len(s), p <= q,
           NEW h, h = buildHunk(SubSeq(s, p, q))
    PROVE  /\ h.oldCount = I[q] - I[p - 1] /\ h.newCount = J[q] - J[p - 1]
           /\ h.oldCount \in Nat /\ h.newCount \in Nat /\ h.oldCount + h.newCount > 0
           /\ h.oldCount > 0 => h.oldStart = I[p - 1]
           /\ h.newCount > 0 => h.newStart = J[p - 1]
<1>. DEFINE n == q - p + 1
            X == Along(I, p, n)
            Y == Along(J, p, n)
            seg == SubSeq(s, p, q)
            OldPlaces == OldIn(s, p, n)
            NewPlaces == NewIn(s, p, n)
            old == Sifted(seg, OldPlaces)
            new == Sifted(seg, NewPlaces)
<1>0. Len(s) \in Nat /\ IsSeq(s)
  BY DEF Steps
<1>1. n \in Nat /\ 1 \in 1..n /\ 0 \in 0..n /\ 1 \in 0..n /\ n \in 0..n
  BY <1>0
<1>2. /\ IsSeq(seg) /\ Len(seg) = n /\ DOMAIN seg = 1..n
      /\ \A k \in 1..n : seg[k] = s[p - 1 + k]
  <2>1. IsSeq(seg) /\ Len(seg) = n /\ \A k \in 1..n : seg[k] = s[p - 1 + k]
    BY <1>0, SegmentIs
  <2>. HIDE DEF seg, n
  <2>. QED BY <2>1, SeqFacts
<1>3. /\ {k \in DOMAIN seg : seg[k].op # "+"} = OldPlaces
      /\ {k \in DOMAIN seg : seg[k].op # "-"} = NewPlaces
  <2>. HIDE DEF seg, n
  <2>. QED BY <1>2 DEF Old, New, OldIn, NewIn
<1>4. /\ h.oldCount = Len(old) /\ h.newCount = Len(new)
      /\ h.oldStart = IF old = <<>> THEN 0 ELSE old[1].oldLine
      /\ h.newStart = IF new = <<>> THEN 0 ELSE new[1].newLine
  <2>. DEFINE o == Sifted(seg, {k \in DOMAIN seg : seg[k].op # "+"})
              w == Sifted(seg, {k \in DOMAIN seg : seg[k].op # "-"})
              l == [k \in DOMAIN seg |-> [op |-> seg[k].op, text |-> seg[k].text]]
  <2>. HIDE DEF seg
  <2>1. h = [oldStart |-> IF o = <<>> THEN 0 ELSE o[1].oldLine, oldCount |-> Len(o),
             newStart |-> IF w = <<>> THEN 0 ELSE w[1].newLine, newCount |-> Len(w),
             lines |-> l]
    BY Zenon DEF buildHunk, seg
  <2>2. o = old /\ w = new
    BY <1>3
  <2>. HIDE DEF o, w, l, old, new
  <2>. QED BY <2>1, <2>2
<1>5. Counts(n, OldPlaces, X) /\ Counts(n, NewPlaces, Y)
  BY PieceCounts
<1>. HIDE DEF seg, X, Y, n, OldPlaces, NewPlaces
<1>6. Ranked(seg, OldPlaces, old, X) /\ Ranked(seg, NewPlaces, new, Y)
  BY <1>2, <1>5, AtIs
<1>. HIDE DEF old, new
<1>7. ASSUME NEW x \in 0..n
      PROVE  X[x] = I[p - 1 + x] - I[p - 1] /\ Y[x] = J[p - 1 + x] - J[p - 1]
  BY DEF X, Y, Along
<1>8. p - 1 + n = q
  BY <1>0 DEF n
<1>9. Len(old) = I[q] - I[p - 1] /\ Len(new) = J[q] - J[p - 1]
  <2>1. Len(old) = X[n] /\ Len(new) = Y[n]
    BY <1>2, <1>6 DEF Ranked
  <2>. QED BY <1>1, <1>7, <1>8, <2>1
<1>10. IsSeq(old) /\ IsSeq(new) /\ Len(old) \in Nat /\ Len(new) \in Nat
  BY <1>6, SeqFacts DEF Ranked
<1>11. Len(old) + Len(new) > 0
  <2>1. X[1] <= X[n] /\ Y[1] <= Y[n]
    <3>1. 1 <= n
      BY <1>1
    <3>. QED BY <1>1, <1>5, <3>1, CountGrows
  <2>2. Old(s[p]) \/ New(s[p])
    <3>1. Does(a, b, s, I, J, p)
      BY StepIs
    <3>. QED BY <3>1 DEF Does
  <2>3. 1 \in OldPlaces \/ 1 \in NewPlaces
    <3>1. p - 1 + 1 = p
      BY <1>0
    <3>. QED BY <1>1, <2>2, <3>1 DEF OldPlaces, NewPlaces, OldIn, NewIn
  <2>4. /\ 1 \in OldPlaces => X[1] = X[1 - 1] + 1
        /\ 1 \in NewPlaces => Y[1] = Y[1 - 1] + 1
    BY <1>1, <1>5 DEF Counts
  <2>5. /\ X[0] = 0 /\ Y[0] = 0 /\ X[1] \in Nat /\ Y[1] \in Nat /\ X[n] \in Nat /\ Y[n] \in Nat
        /\ 1 - 1 = 0
    BY <1>1, <1>5 DEF Counts
  <2>6. Len(old) = X[n] /\ Len(new) = Y[n]
    BY <1>2, <1>6 DEF Ranked
  <2>. QED BY <2>1, <2>3, <2>4, <2>5, <2>6
<1>12. ASSUME NEW k \in 1..n
       PROVE  /\ p - 1 + k \in 1..Len(s) /\ (p - 1 + k) - 1 = p - 1 + (k - 1) /\ k - 1 \in 0..n
              /\ I[p - 1 + (k - 1)] \in Nat /\ J[p - 1 + (k - 1)] \in Nat
              /\ I[p - 1] \in Nat /\ J[p - 1] \in Nat
              /\ Old(s[p - 1 + k]) => s[p - 1 + k].oldLine = I[p - 1 + (k - 1)]
              /\ New(s[p - 1 + k]) => s[p - 1 + k].newLine = J[p - 1 + (k - 1)]
  <2>1. p - 1 + k \in 1..Len(s) /\ (p - 1 + k) - 1 = p - 1 + (k - 1) /\ k - 1 \in 0..n
    BY <1>0 DEF n
  <2>. DEFINE r == p - 1 + k
  <2>2. r \in 1..Len(s)
    BY <2>1
  <2>. HIDE DEF r
  <2>3. /\ I[r - 1] \in 1..Len(a) + 1 /\ J[r - 1] \in 1..Len(b) + 1
        /\ Old(s[r]) => s[r].oldLine = I[r - 1]
        /\ New(s[r]) => s[r].newLine = J[r - 1]
    <3>1. Does(a, b, s, I, J, r)
      BY <2>2, StepIs
    <3>. QED BY <3>1 DEF Does
  <2>4. I[p - 1] \in 1..Len(a) + 1 /\ J[p - 1] \in 1..Len(b) + 1
    <3>1. Does(a, b, s, I, J, p)
      BY StepIs
    <3>. QED BY <3>1 DEF Does
  <2>5. r = p - 1 + k /\ r - 1 = p - 1 + (k - 1)
    BY <2>1 DEF r
  <2>6. /\ I[r - 1] \in Nat /\ J[r - 1] \in Nat /\ I[p - 1] \in Nat /\ J[p - 1] \in Nat
    BY <2>3, <2>4
  <2>. QED BY <2>1, <2>3, <2>5, <2>6
<1>13. ASSUME Len(old) > 0 PROVE old # <<>> /\ old[1].oldLine = I[p - 1]
  <2>1. 1 \in 1..Len(old)
    BY <1>10, <1>13
  <2>0. Stems(seg, OldPlaces, old, X, 1)
    BY <1>2, <1>6, <2>1, Whence
  <2>2. PICK k \in 1..Len(seg) : k \in OldPlaces /\ X[k - 1] = 1 - 1 /\ old[1] = seg[k]
    BY <2>0 DEF Stems
  <2>3. k \in 1..n /\ k - 1 \in 0..n /\ Old(s[p - 1 + k]) /\ X[k - 1] = 0
    BY <1>1, <1>2, <2>2 DEF OldPlaces, OldIn
  <2>4. I[p - 1 + (k - 1)] = I[p - 1]
    BY <1>7, <1>12, <2>3
  <2>5. old[1].oldLine = I[p - 1]
    BY <1>2, <1>12, <2>2, <2>3, <2>4
  <2>6. Len(<<>>) = 0
    BY EmptySeq
  <2>. QED BY <1>13, <2>5, <2>6
<1>14. ASSUME Len(new) > 0 PROVE new # <<>> /\ new[1].newLine = J[p - 1]
  <2>1. 1 \in 1..Len(new)
    BY <1>10, <1>14
  <2>0. Stems(seg, NewPlaces, new, Y, 1)
    BY <1>2, <1>6, <2>1, Whence
  <2>2. PICK k \in 1..Len(seg) : k \in NewPlaces /\ Y[k - 1] = 1 - 1 /\ new[1] = seg[k]
    BY <2>0 DEF Stems
  <2>3. k \in 1..n /\ k - 1 \in 0..n /\ New(s[p - 1 + k]) /\ Y[k - 1] = 0
    BY <1>1, <1>2, <2>2 DEF NewPlaces, NewIn
  <2>4. J[p - 1 + (k - 1)] = J[p - 1]
    BY <1>7, <1>12, <2>3
  <2>5. new[1].newLine = J[p - 1]
    BY <1>2, <1>12, <2>2, <2>3, <2>4
  <2>6. Len(<<>>) = 0
    BY EmptySeq
  <2>. QED BY <1>14, <2>5, <2>6
<1>. QED BY <1>4, <1>9, <1>10, <1>11, <1>13, <1>14

NewOf(lines) == Sifted(lines, {k \in DOMAIN lines : lines[k].op # "-"})

\* The lines it leaves or adds are lines of the other text.
LEMMA HunkTexts ==
    ASSUME NEW a, NEW b, NEW s, NEW I, NEW J, Steps(a, b, s, I, J),
           NEW p \in 1..Len(s), NEW q \in 1..Len(s), p <= q,
           NEW h, h = buildHunk(SubSeq(s, p, q)),
           NEW in, in = NewOf(h.lines)
    PROVE  /\ IsSeq(in) /\ Len(in) = J[q] - J[p - 1]
           /\ \A x \in 1..Len(in) : in[x].text = b[J[p - 1] + x - 1]
<1>. DEFINE n == q - p + 1
            X == Along(I, p, n)
            Y == Along(J, p, n)
            l == h.lines
            NewPlaces == NewIn(s, p, n)
<1>0. Len(s) \in Nat /\ IsSeq(s)
  BY DEF Steps
<1>1. n \in Nat /\ n \in 0..n /\ p - 1 + n = q
  BY <1>0
<1>2. /\ IsSeq(l) /\ Len(l) = n /\ DOMAIN l = 1..n
      /\ \A k \in 1..n : l[k].op = s[p - 1 + k].op /\ l[k].text = s[p - 1 + k].text
  <2>1. Lines(s, p, q, h.lines)
    BY <1>0, HunkLines
  <2>. QED BY <2>1 DEF Lines
<1>. HIDE DEF n, l
<1>3. {k \in DOMAIN l : l[k].op # "-"} = NewPlaces
  BY <1>2 DEF New, NewIn
<1>4. Counts(n, NewPlaces, Y)
  BY PieceCounts DEF n
<1>. HIDE DEF NewPlaces, Y
<1>5. in = Sifted(l, NewPlaces)
  BY <1>3 DEF l, NewOf
<1>6. Ranked(l, NewPlaces, in, Y)
  BY <1>2, <1>4, <1>5, AtIs
<1>7. ASSUME NEW x \in 0..n PROVE Y[x] = J[p - 1 + x] - J[p - 1]
  BY DEF Y, Along
<1>8. IsSeq(in) /\ Len(in) = Y[n] /\ Len(in) \in Nat
  BY <1>2, <1>6, SeqFacts DEF Ranked
<1>9. Len(in) = J[q] - J[p - 1]
  BY <1>1, <1>7, <1>8
<1>10. ASSUME NEW x \in 1..Len(in) PROVE in[x].text = b[J[p - 1] + x - 1]
  <2>1. PICK k \in 1..Len(l) : /\ k \in NewPlaces /\ Y[k - 1] = x - 1 /\ Y[k] = x
                               /\ in[x] = l[k]
    <3>1. Stems(l, NewPlaces, in, Y, x)
      BY <1>2, <1>6, Whence
    <3>. QED BY <3>1 DEF Stems
  <2>2. k \in 1..n /\ k - 1 \in 0..n /\ New(s[p - 1 + k])
    BY <1>1, <1>2, <2>1 DEF NewPlaces, NewIn
  <2>. DEFINE r == p - 1 + k
  <2>3. r \in 1..Len(s) /\ r - 1 = p - 1 + (k - 1)
    BY <1>0, <2>2 DEF n
  <2>. HIDE DEF r
  <2>4. s[r].text = b[J[r - 1]] /\ J[r - 1] \in 1..Len(b) + 1
    <3>1. New(s[r])
      BY <2>2 DEF r
    <3>2. Does(a, b, s, I, J, r)
      BY <2>3, StepIs
    <3>. QED BY <3>1, <3>2 DEF Does
  <2>5. J[p - 1] \in 1..Len(b) + 1
    <3>1. Does(a, b, s, I, J, p)
      BY StepIs
    <3>. QED BY <3>1 DEF Does
  <2>6. J[r - 1] - J[p - 1] = x - 1
    BY <1>7, <2>1, <2>2, <2>3
  <2>7. J[r - 1] = J[p - 1] + x - 1
    BY <1>8, <2>4, <2>5, <2>6
  <2>8. in[x].text = s[r].text
    BY <1>2, <2>1, <2>2 DEF r
  <2>. QED BY <2>4, <2>7, <2>8
<1>. QED BY <1>8, <1>9, <1>10

\* Where nothing changes both texts go on together, and agree.
Together(a, b, I, J, x, y) ==
    /\ I[y] = I[x] + (y - x) /\ J[y] = J[x] + (y - x)
    /\ \A t \in 0..y - x - 1 : a[I[x] + t] = b[J[x] + t]

\* So they do along a piece of the walk without changes.
LEMMA Still ==
    ASSUME NEW a, NEW b, NEW s, NEW I, NEW J, Steps(a, b, s, I, J), NEW x \in 0..Len(s),
           NEW y \in x..Len(s), \A k \in x + 1..y : ~IsChange(s[k].op)
    PROVE  Together(a, b, I, J, x, y)
<1>. DEFINE n == y - x
            Good(d) == /\ I[x + d] = I[x] + d /\ J[x + d] = J[x] + d
                       /\ \A t \in 0..d - 1 : a[I[x] + t] = b[J[x] + t]
            S == {d \in 0..n : Good(d)}
<1>1. Len(s) \in Nat /\ x \in Nat /\ y \in Nat /\ n \in Nat /\ x + n = y
  BY DEF Steps
<1>2. I[x] \in 1..Len(a) + 1 /\ J[x] \in 1..Len(b) + 1
  BY DEF Steps
<1>3. Good(0)
  <2>1. x + 0 = x /\ I[x] + 0 = I[x] /\ J[x] + 0 = J[x] /\ \A t \in 0..0 - 1 : FALSE
    BY <1>1, <1>2
  <2>. QED BY <2>1
<1>4. ASSUME NEW d \in 0..n - 1, d \in S PROVE d + 1 \in S
  <2>. DEFINE k == x + d + 1
  <2>1. k \in 1..Len(s) /\ k \in x + 1..y /\ k - 1 = x + d /\ k = x + (d + 1) /\ d + 1 \in 0..n
    BY <1>1
  <2>2. Does(a, b, s, I, J, k)
    BY <2>1, StepIs
  <2>3. ~IsChange(s[k].op)
    BY <2>1
  <2>. HIDE DEF k, n
  <2>4. /\ I[k] = I[k - 1] + 1 /\ J[k] = J[k - 1] + 1 /\ a[I[k - 1]] = b[J[k - 1]]
    BY <2>2, <2>3 DEF Does
  <2>5. /\ I[x + d] = I[x] + d /\ J[x + d] = J[x] + d
        /\ \A t \in 0..d - 1 : a[I[x] + t] = b[J[x] + t]
    BY <1>4
  <2>6. I[x + (d + 1)] = I[x] + (d + 1) /\ J[x + (d + 1)] = J[x] + (d + 1)
    <3>1. I[k - 1] = I[x] + d /\ J[k - 1] = J[x] + d
      <4>1. k - 1 = x + d
        BY <2>1
      <4>2. I[x + d] = I[x] + d /\ J[x + d] = J[x] + d
        BY <2>5
      <4>. QED BY <4>1, <4>2
    <3>2. I[x] + d + 1 = I[x] + (d + 1) /\ J[x] + d + 1 = J[x] + (d + 1)
      <4>1. d \in Nat /\ I[x] \in Nat /\ J[x] \in Nat
        BY <1>1, <1>2 DEF Steps
      <4>2. \A v \in Nat : v + d + 1 = v + (d + 1)
        BY <4>1
      <4>. QED BY <4>1, <4>2
    <3>3. I[k] = I[x] + (d + 1) /\ J[k] = J[x] + (d + 1)
      BY <2>4, <3>1, <3>2, Zenon
    <3>. QED BY <2>1, <3>3, Zenon
  <2>7. a[I[x] + d] = b[J[x] + d]
    BY <2>1, <2>4, <2>5
  <2>8. \A t \in 0..(d + 1) - 1 : a[I[x] + t] = b[J[x] + t]
    <3>1. \A t \in 0..(d + 1) - 1 : t \in 0..d - 1 \/ t = d
      OBVIOUS
    <3>. QED BY <2>5, <2>7, <3>1
  <2>. QED BY <2>1, <2>6, <2>8
<1>5. Good(n)
  <2>1. 0 \in S
    BY <1>1, <1>3
  <2>. HIDE DEF S, n
  <2>2. n \in 0..n
    BY <1>1
  <2>3. n \in S
    BY <1>1, <1>4, <2>1, <2>2, UpTo
  <2>. QED BY <2>3 DEF S
<1>6. I[y] = I[x] + (y - x) /\ J[y] = J[x] + (y - x)
  BY <1>1, <1>5
<1>7. \A t \in 0..y - x - 1 : a[I[x] + t] = b[J[x] + t]
  BY <1>5
<1>. QED BY <1>6, <1>7 DEF Together

\* The first lines of a text.
LEMMA PrefixIs ==
    ASSUME NEW b, IsSeq(b), NEW m \in 0..Len(b)
    PROVE  /\ IsSeq(SubSeq(b, 1, m)) /\ Len(SubSeq(b, 1, m)) = m
           /\ \A k \in 1..m : SubSeq(b, 1, m)[k] = b[k]
<1>. DEFINE z == 0
<1>1. Len(b) \in Nat
  BY SeqFacts
<1>2. z \in 0..Len(b) /\ m \in z..Len(b) /\ z + 1 = 1 /\ m - z = m /\ \A k \in 1..m : z + k = k
  BY <1>1
<1>. HIDE DEF z
<1>3. /\ IsSeq(SubSeq(b, z + 1, m)) /\ Len(SubSeq(b, z + 1, m)) = m - z
      /\ \A k \in 1..m - z : SubSeq(b, z + 1, m)[k] = b[z + k]
  BY <1>2, PieceIs
<1>. QED BY <1>2, <1>3

\* The first lines of a text and those that come next.
LEMMA PrefixGrows ==
    ASSUME NEW b, IsSeq(b), NEW m \in 0..Len(b), NEW t, IsSeq(t), m + Len(t) <= Len(b),
           \A k \in 1..Len(t) : t[k] = b[m + k]
    PROVE  SubSeq(b, 1, m) \o t = SubSeq(b, 1, m + Len(t))
<1>1. Len(b) \in Nat /\ Len(t) \in Nat /\ m + Len(t) \in 0..Len(b)
  <2>1. Len(b) \in Nat /\ Len(t) \in Nat
    BY SeqFacts
  <2>. QED BY <2>1
<1>. DEFINE p == SubSeq(b, 1, m)
            q == SubSeq(b, 1, m + Len(t))
<1>2. IsSeq(p) /\ Len(p) = m /\ \A k \in 1..m : p[k] = b[k]
  BY PrefixIs
<1>3. IsSeq(q) /\ Len(q) = m + Len(t) /\ \A k \in 1..m + Len(t) : q[k] = b[k]
  BY <1>1, PrefixIs
<1>. HIDE DEF p, q
<1>4. /\ IsSeq(p \o t) /\ Len(p \o t) = m + Len(t)
      /\ \A k \in 1..m : (p \o t)[k] = p[k]
      /\ \A k \in 1..Len(t) : (p \o t)[m + k] = t[k]
  <2>1. /\ IsSeq(p \o t) /\ Len(p \o t) = Len(p) + Len(t)
        /\ \A k \in 1..Len(p) : (p \o t)[k] = p[k]
        /\ \A k \in 1..Len(t) : (p \o t)[Len(p) + k] = t[k]
    <3>1. IsSeq(p) /\ IsSeq(t)
      BY <1>2
    <3>. QED BY <3>1, ConcatIs
  <2>. QED BY <1>2, <2>1, Zenon
<1>5. ASSUME NEW k \in 1..m + Len(t) PROVE (p \o t)[k] = q[k]
  <2>1. CASE k <= m
    <3>1. k \in 1..m
      BY <1>1, <2>1
    <3>. QED BY <1>2, <1>3, <1>4, <3>1
  <2>2. CASE k > m
    <3>1. k - m \in 1..Len(t) /\ m + (k - m) = k
      BY <1>1, <2>2
    <3>2. (p \o t)[m + (k - m)] = t[k - m] /\ t[k - m] = b[m + (k - m)]
      BY <1>4, <3>1
    <3>. QED BY <1>3, <3>1, <3>2
  <2>3. k <= m \/ k > m
    BY <1>1
  <2>. QED BY <2>1, <2>2, <2>3
<1>6. p \o t = q
  BY <1>3, <1>4, <1>5, SameSeq
<1>. QED BY <1>6 DEF p, q

\* The lines that follow the first m.
LEMMA StretchIs ==
    ASSUME NEW b, IsSeq(b), NEW m \in Nat, NEW u \in Nat, m + u <= Len(b)
    PROVE  /\ IsSeq(SubSeq(b, m + 1, m + u)) /\ Len(SubSeq(b, m + 1, m + u)) = u
           /\ \A k \in 1..u : SubSeq(b, m + 1, m + u)[k] = b[m + k]
<1>. DEFINE q == m + u
<1>1. Len(b) \in Nat
  BY SeqFacts
<1>2. m \in 0..Len(b) /\ q \in m..Len(b) /\ q - m = u
  BY <1>1
<1>. HIDE DEF q
<1>3. /\ IsSeq(SubSeq(b, m + 1, q)) /\ Len(SubSeq(b, m + 1, q)) = q - m
      /\ \A k \in 1..q - m : SubSeq(b, m + 1, q)[k] = b[m + k]
  BY <1>2, PieceIs
<1>4. /\ IsSeq(SubSeq(b, m + 1, q)) /\ Len(SubSeq(b, m + 1, q)) = u
      /\ \A k \in 1..u : SubSeq(b, m + 1, q)[k] = b[m + k]
  BY <1>2, <1>3
<1>. QED BY <1>4 DEF q

\* How far the patch is after the edits up to x.
Here(b, I, J, x) == [new |-> SubSeq(b, 1, J[x] - 1), taken |-> I[x] - 1]

\* A hunk takes the patch from the hunk before to its own end.
LEMMA PatchGoesOn ==
    ASSUME NEW a, IsSeq(a), NEW b, IsSeq(b), NEW s, NEW I, NEW J, Steps(a, b, s, I, J),
           NEW p \in 1..Len(s), NEW q \in 1..Len(s), p <= q, NEW x \in 0..p - 1,
           \A k \in x + 1..p - 1 : ~IsChange(s[k].op),
           NEW h, h = buildHunk(SubSeq(s, p, q))
    PROVE  PatchedBy(a, h, Here(b, I, J, x)) = Here(b, I, J, q)
<1>. DEFINE out == Here(b, I, J, x)
            u == p - 1 - x
            in == NewOf(h.lines)
            text == [k \in DOMAIN in |-> in[k].text]
            i == I[x]
            j == J[x]
            mid == SubSeq(a, out.taken + 1, out.taken + u)
<1>0. Len(s) \in Nat /\ IsSeq(s) /\ Len(a) \in Nat /\ Len(b) \in Nat
  BY DEF Steps
<1>1. p - 1 \in x..Len(s) /\ x \in 0..Len(s) /\ u \in Nat /\ q \in 0..Len(s) /\ p - 1 \in 0..Len(s)
  BY <1>0
<1>2. /\ i \in 1..Len(a) + 1 /\ j \in 1..Len(b) + 1
      /\ I[p - 1] \in 1..Len(a) + 1 /\ J[p - 1] \in 1..Len(b) + 1
      /\ I[q] \in 1..Len(a) + 1 /\ J[q] \in 1..Len(b) + 1
  BY <1>1 DEF Steps
<1>3. /\ I[p - 1] = i + u /\ J[p - 1] = j + u
      /\ \A t \in 0..u - 1 : a[i + t] = b[j + t]
  <2>1. Together(a, b, I, J, x, p - 1)
    BY <1>1, Still
  <2>. QED BY <2>1 DEF Together
<1>4. /\ h.oldCount = I[q] - I[p - 1] /\ h.newCount = J[q] - J[p - 1]
      /\ h.oldCount \in Nat /\ h.newCount \in Nat /\ h.oldCount + h.newCount > 0
      /\ h.oldCount > 0 => h.oldStart = I[p - 1]
      /\ h.newCount > 0 => h.newStart = J[p - 1]
  BY HunkIs
<1>5. /\ IsSeq(in) /\ Len(in) = J[q] - J[p - 1] /\ DOMAIN in = 1..Len(in) /\ Len(in) \in Nat
      /\ \A k \in 1..Len(in) : in[k].text = b[J[p - 1] + k - 1]
  <2>1. /\ IsSeq(in) /\ Len(in) = J[q] - J[p - 1]
        /\ \A k \in 1..Len(in) : in[k].text = b[J[p - 1] + k - 1]
    BY HunkTexts
  <2>. HIDE DEF in
  <2>. QED BY <2>1, SeqFacts
<1>6. out.new = SubSeq(b, 1, j - 1) /\ out.taken = i - 1
  BY DEF Here
<1>7. PatchedBy(a, h, out) =
          [new |-> out.new \o SubSeq(a, out.taken + 1, out.taken + Until(h, out)) \o text,
           taken |-> out.taken + Until(h, out) + h.oldCount]
  BY Zenon DEF PatchedBy, NewOf
<1>. HIDE DEF in, out, u, i, j
<1>8. /\ IsSeq(out.new) /\ Len(out.new) = j - 1 /\ j - 1 \in 0..Len(b)
  <2>1. j - 1 \in 0..Len(b)
    BY <1>0, <1>2
  <2>. QED BY <1>6, <2>1, PrefixIs
<1>9. Until(h, out) = u
  <2>1. CASE h.newCount > 0
    BY <1>1, <1>2, <1>3, <1>4, <1>8, <2>1 DEF Until
  <2>2. CASE ~(h.newCount > 0)
    <3>1. h.oldCount > 0
      BY <1>4, <2>2
    <3>2. Until(h, out) = h.oldStart - 1 - out.taken
      BY <2>2 DEF Until
    <3>. QED BY <1>1, <1>2, <1>3, <1>4, <1>6, <3>1, <3>2
  <2>. QED BY <2>1, <2>2
<1>10. /\ IsSeq(mid) /\ Len(mid) = u
       /\ \A k \in 1..u : mid[k] = b[(j - 1) + k]
  <2>1. i - 1 \in 0..Len(a) /\ i - 1 + u \in i - 1..Len(a) /\ i - 1 + u - (i - 1) = u
    BY <1>0, <1>1, <1>2, <1>3
  <2>. DEFINE t == i - 1
  <2>2. mid = SubSeq(a, t + 1, t + u)
    BY <1>6
  <2>3. t \in 0..Len(a) /\ t + u \in t..Len(a) /\ t + u - t = u
    BY <1>0, <1>1, <1>2, <2>1
  <2>. HIDE DEF t, mid
  <2>4. /\ IsSeq(mid) /\ Len(mid) = u
        /\ \A k \in 1..u : mid[k] = a[t + k]
    <3>1. t \in Nat /\ u \in Nat /\ t + u <= Len(a)
      BY <1>0, <1>1, <2>3
    <3>. QED BY <2>2, <3>1, StretchIs
  <2>5. ASSUME NEW k \in 1..u PROVE mid[k] = b[(j - 1) + k]
    <3>1. k - 1 \in 0..u - 1 /\ i + (k - 1) = t + k /\ j + (k - 1) = (j - 1) + k
      BY <1>1, <1>2 DEF t
    <3>2. a[i + (k - 1)] = b[j + (k - 1)]
      BY <1>3, <3>1
    <3>. QED BY <2>4, <3>1, <3>2
  <2>. QED BY <2>4, <2>5
<1>. HIDE DEF mid
<1>11. out.new \o mid = SubSeq(b, 1, (j - 1) + u)
  <2>1. (j - 1) + u <= Len(b)
    BY <1>0, <1>1, <1>2, <1>3
  <2>. QED BY <1>6, <1>8, <1>10, <2>1, PrefixGrows
<1>12. /\ IsSeq(text) /\ Len(text) = Len(in)
       /\ \A k \in 1..Len(text) : text[k] = b[((j - 1) + u) + k]
  <2>1. text = [k \in 1..Len(in) |-> text[k]]
    BY <1>5
  <2>2. \A k \in 1..Len(in) : text[k] = in[k].text
    BY <1>5
  <2>. HIDE DEF text
  <2>3. IsSeq(text) /\ Len(text) = Len(in)
    BY <1>5, <2>1, MakeIs
  <2>4. ASSUME NEW k \in 1..Len(in) PROVE text[k] = b[((j - 1) + u) + k]
    <3>1. J[p - 1] + k - 1 = ((j - 1) + u) + k
      BY <1>1, <1>2, <1>3, <1>5
    <3>. QED BY <1>5, <2>2, <3>1
  <2>. QED BY <2>3, <2>4
<1>. HIDE DEF text
<1>13. out.new \o mid \o text = SubSeq(b, 1, J[q] - 1)
  <2>1. (j - 1) + u \in 0..Len(b) /\ ((j - 1) + u) + Len(text) = J[q] - 1
        /\ ((j - 1) + u) + Len(text) <= Len(b)
    <3>. DEFINE v == J[p - 1]
                w == J[q]
                l == Len(text)
    <3>1. v = j + u /\ l = w - v /\ w \in 1..Len(b) + 1 /\ v \in 1..Len(b) + 1 /\ l \in Nat
      BY <1>2, <1>3, <1>5, <1>12
    <3>. HIDE DEF v, w, l
    <3>2. (j - 1) + u \in 0..Len(b) /\ ((j - 1) + u) + l = w - 1 /\ ((j - 1) + u) + l <= Len(b)
      BY <1>0, <1>1, <1>2, <3>1
    <3>. QED BY <3>2 DEF w, l
  <2>2. SubSeq(b, 1, (j - 1) + u) \o text = SubSeq(b, 1, ((j - 1) + u) + Len(text))
    BY <1>12, <2>1, PrefixGrows
  <2>. QED BY <1>11, <2>1, <2>2
<1>14. out.taken + u + h.oldCount = I[q] - 1
  <2>. DEFINE v == I[p - 1]
              w == I[q]
              n == h.oldCount
              m == out.taken
  <2>1. v = i + u /\ n = w - v /\ w \in 1..Len(a) + 1 /\ v \in 1..Len(a) + 1 /\ m = i - 1
    BY <1>2, <1>3, <1>4, <1>6
  <2>. HIDE DEF v, w, n, m
  <2>2. m + u + n = w - 1
    BY <1>0, <1>1, <1>2, <2>1
  <2>. QED BY <2>2 DEF m, n, w
<1>15. PatchedBy(a, h, out) = [new |-> out.new \o mid \o text, taken |-> out.taken + u + h.oldCount]
  BY <1>7, <1>9 DEF mid
<1>16. PatchedBy(a, h, out) = Here(b, I, J, q)
  BY <1>13, <1>14, <1>15 DEF Here
<1>. QED BY <1>16 DEF out

\* Between a hunk and the next there is no change, nor before the first or after the last.
LEMMA Quiet ==
    ASSUME NEW s, NEW hs, NEW B, NEW E, Cuts(s, hs, B, E), NEW h \in 1..Len(hs) + 1,
           NEW k \in 1..Len(s), h > 1 => E[h - 1] < k, h <= Len(hs) => k < B[h]
    PROVE  ~IsChange(s[k].op)
<1>. SUFFICES ASSUME IsChange(s[k].op) PROVE FALSE
  OBVIOUS
<1>0. Len(hs) \in Nat
  BY DEF Cuts
<1>1. PICK g \in 1..Len(hs) : B[g] <= k /\ k <= E[g]
  BY DEF Cuts
<1>2. \A x \in 1..Len(hs) : B[x] \in Int /\ E[x] \in Int /\ B[x] <= E[x]
  BY DEF Cuts
<1>3. \A x, y \in 1..Len(hs) : x < y => E[x] < B[y]
  BY DEF Cuts
<1>4. CASE g < h
  <2>1. h - 1 \in 1..Len(hs) /\ E[h - 1] < k /\ (g = h - 1 \/ g < h - 1)
    BY <1>0, <1>4
  <2>2. CASE g = h - 1
    BY <1>1, <1>2, <2>1, <2>2
  <2>3. CASE g < h - 1
    <3>1. E[g] < B[h - 1] /\ B[h - 1] <= E[h - 1]
      BY <1>2, <1>3, <2>1, <2>3
    <3>. QED BY <1>1, <1>2, <2>1, <3>1
  <2>. QED BY <2>1, <2>2, <2>3
<1>5. CASE g = h
  BY <1>0, <1>1, <1>2, <1>5
<1>6. CASE g > h
  <2>1. h \in 1..Len(hs) /\ k < B[h]
    BY <1>0, <1>6
  <2>2. E[h] < B[g] /\ B[h] <= E[h]
    BY <1>2, <1>3, <1>6, <2>1
  <2>. QED BY <1>1, <1>2, <2>1, <2>2
<1>7. g < h \/ g = h \/ g > h
  OBVIOUS
<1>. QED BY <1>4, <1>5, <1>6, <1>7

\* The whole of a text.
LEMMA WholeIs ==
    ASSUME NEW b, IsSeq(b)
    PROVE  SubSeq(b, 1, Len(b)) = b /\ SubSeq(b, 1, 0) = <<>>
<1>1. Len(b) \in Nat /\ Len(b) \in 0..Len(b) /\ 0 \in 0..Len(b)
  <2>1. Len(b) \in Nat
    BY SeqFacts
  <2>. QED BY <2>1
<1>2. SubSeq(b, 1, Len(b)) = b
  BY <1>1, PrefixIs, SameSeq
<1>. DEFINE t == SubSeq(b, 1, 0)
            none == <<>>
<1>3. IsSeq(t) /\ Len(t) = 0
  BY <1>1, PrefixIs
<1>4. IsSeq(none) /\ Len(none) = 0
  BY EmptyIs
<1>. HIDE DEF t, none
<1>5. \A k \in 1..Len(t) : t[k] = none[k]
  BY <1>3
<1>6. t = none
  BY <1>3, <1>4, <1>5, SameSeq
<1>. QED BY <1>2, <1>6 DEF t, none

\* No change from a place on.
Calm(s, x) == \A k \in x + 1..Len(s) : ~IsChange(s[k].op)

\* The patch is done but for what is left of the old text.
Ends(a, b, out) == out.new \o SubSeq(a, out.taken + 1, Len(a)) = b

\* What is left of the old text after the edits up to x, when they are the last to change it.
LEMMA PatchEnds ==
    ASSUME NEW a, IsSeq(a), NEW b, IsSeq(b), NEW s, NEW I, NEW J, Steps(a, b, s, I, J),
           NEW x \in 0..Len(s), Calm(s, x),
           NEW out, out = Here(b, I, J, x)
    PROVE  Ends(a, b, out)
<1>. DEFINE i == I[x]
            j == J[x]
            u == Len(s) - x
            t == SubSeq(a, (i - 1) + 1, (i - 1) + u)
<1>0. Len(s) \in Nat /\ IsSeq(s) /\ Len(a) \in Nat /\ Len(b) \in Nat
  BY DEF Steps
<1>1. u \in Nat /\ Len(s) \in x..Len(s)
  BY <1>0
<1>2. i \in 1..Len(a) + 1 /\ j \in 1..Len(b) + 1
  BY DEF Steps
<1>3. I[Len(s)] = i + u /\ J[Len(s)] = j + u /\ \A d \in 0..u - 1 : a[i + d] = b[j + d]
  <2>1. Together(a, b, I, J, x, Len(s))
    BY <1>1, Still DEF Calm
  <2>. QED BY <2>1 DEF Together
<1>4. I[Len(s)] = Len(a) + 1 /\ J[Len(s)] = Len(b) + 1
  BY DEF Steps
<1>5. out.new = SubSeq(b, 1, j - 1) /\ out.taken = i - 1
  BY DEF Here
<1>. HIDE DEF i, j, u
<1>6. /\ (i - 1) + u = Len(a) /\ (j - 1) + u = Len(b) /\ i - 1 \in Nat /\ j - 1 \in 0..Len(b)
      /\ (i - 1) + u <= Len(a)
  BY <1>0, <1>1, <1>2, <1>3, <1>4
<1>7. /\ IsSeq(t) /\ Len(t) = u /\ \A k \in 1..u : t[k] = a[(i - 1) + k]
  BY <1>1, <1>6, StretchIs
<1>. HIDE DEF t
<1>8. \A k \in 1..Len(t) : t[k] = b[(j - 1) + k]
  <2>. SUFFICES ASSUME NEW k \in 1..u PROVE t[k] = b[(j - 1) + k]
    BY <1>7
  <2>1. k - 1 \in 0..u - 1 /\ i + (k - 1) = (i - 1) + k /\ j + (k - 1) = (j - 1) + k
    BY <1>1, <1>2
  <2>2. a[i + (k - 1)] = b[j + (k - 1)]
    BY <1>3, <2>1
  <2>. QED BY <1>7, <2>1, <2>2
<1>9. (j - 1) + Len(t) = Len(b) /\ (j - 1) + Len(t) <= Len(b)
  BY <1>0, <1>6, <1>7
<1>10. SubSeq(b, 1, j - 1) \o t = SubSeq(b, 1, (j - 1) + Len(t))
  BY <1>6, <1>7, <1>8, <1>9, PrefixGrows
<1>11. t = SubSeq(a, out.taken + 1, Len(a))
  BY <1>5, <1>6 DEF t
<1>12. SubSeq(b, 1, (j - 1) + Len(t)) = b
  BY <1>9, WholeIs
<1>. QED BY <1>5, <1>10, <1>11, <1>12 DEF Ends

\* The hunks of the edit script turn the one text into the other.
LEMMA PatchIs ==
    ASSUME NEW a, IsSeq(a), NEW b, IsSeq(b), NEW s, NEW I, NEW J, Walk(a, b, s, I, J),
           NEW c \in Nat
    PROVE  Patched(a, hunks(s, c)) = b
<1>. DEFINE hs == hunks(s, c)
            n == Len(hs)
            begin == [new |-> <<>>, taken |-> 0]
            Then(h, v) == PatchedBy(a, hs[h], v)
            Is(f) == f = [h \in 0..n |-> IF h = 0 THEN begin ELSE Then(h, f[h - 1])]
            g == CHOOSE f : Is(f)
<1>1. Steps(a, b, s, I, J)
  BY WalkSteps
<1>2. IsSeq(s) /\ Len(s) \in Nat
  BY <1>1 DEF Steps
<1>3. PICK B, E : Cuts(s, hs, B, E)
  BY <1>2, HunksCut
<1>4. Patched(a, hs) = g[n].new \o SubSeq(a, g[n].taken + 1, Len(a))
  BY Zenon DEF Patched, begin, Then
<1>. HIDE DEF hs
<1>5. n \in Nat
  BY <1>3 DEF Cuts
<1>6. /\ \A h \in 1..n : /\ B[h] \in 1..Len(s) /\ E[h] \in 1..Len(s) /\ B[h] <= E[h]
                         /\ hs[h] = buildHunk(SubSeq(s, B[h], E[h]))
      /\ \A h, k \in 1..n : h < k => E[h] < B[k]
  BY <1>3 DEF Cuts
<1>. DEFINE e == [h \in 0..n |-> IF h = 0 THEN 0 ELSE E[h]]
            r == [h \in 0..n |-> Here(b, I, J, e[h])]
<1>7. e[0] = 0 /\ \A h \in 1..n : e[h] = E[h]
  BY <1>5
<1>8. \A h \in 0..n : r[h] = Here(b, I, J, e[h])
  OBVIOUS
<1>9. r[0] = begin
  <2>1. I[0] - 1 = 0 /\ J[0] - 1 = 0
    BY <1>1 DEF Steps
  <2>2. SubSeq(b, 1, 0) = <<>>
    BY WholeIs
  <2>3. r[0] = Here(b, I, J, 0)
    BY <1>5, <1>7, <1>8
  <2>4. Here(b, I, J, 0) = [new |-> SubSeq(b, 1, J[0] - 1), taken |-> I[0] - 1]
    BY DEF Here
  <2>. QED BY <2>1, <2>2, <2>3, <2>4
<1>10. r = [h \in 0..n |-> r[h]]
  OBVIOUS
<1>. HIDE DEF e, r, n
<1>11. ASSUME NEW h \in 1..n PROVE r[h] = Then(h, r[h - 1])
  <2>. DEFINE p == B[h]
              q == E[h]
              x == e[h - 1]
  <2>1. p \in 1..Len(s) /\ q \in 1..Len(s) /\ p <= q /\ hs[h] = buildHunk(SubSeq(s, p, q))
    BY <1>6
  <2>2. h - 1 \in 0..n /\ h \in 0..n /\ (h = 1 \/ h - 1 \in 1..n) /\ h - 1 < h
    BY <1>5
  <2>3. x \in 0..p - 1 /\ (h > 1 => x = E[h - 1])
    <3>1. CASE h = 1
      BY <1>2, <1>7, <2>1, <3>1
    <3>2. CASE h - 1 \in 1..n
      <4>1. x = E[h - 1] /\ E[h - 1] < p /\ E[h - 1] \in 1..Len(s)
        BY <1>6, <1>7, <2>2, <3>2
      <4>. QED BY <1>2, <2>1, <4>1
    <3>. QED BY <2>2, <3>1, <3>2
  <2>4. ASSUME NEW k \in x + 1..p - 1 PROVE ~IsChange(s[k].op)
    <3>1. k \in 1..Len(s) /\ k < p /\ x < k
      BY <1>2, <2>1, <2>3
    <3>2. h \in 1..Len(hs) + 1
      BY <1>5 DEF n
    <3>3. (h > 1 => E[h - 1] < k) /\ (h <= Len(hs) => k < B[h])
      BY <2>3, <3>1
    <3>. QED BY <1>3, <3>1, <3>2, <3>3, Quiet
  <2>. HIDE DEF x, p, q
  <2>5. PatchedBy(a, hs[h], Here(b, I, J, x)) = Here(b, I, J, q)
    BY <1>1, <2>1, <2>3, <2>4, PatchGoesOn
  <2>6. r[h - 1] = Here(b, I, J, x) /\ r[h] = Here(b, I, J, q)
    <3>1. e[h] = E[h]
      BY <1>7
    <3>. QED BY <1>8, <2>2, <3>1 DEF x, q
  <2>. QED BY <2>5, <2>6
<1>. HIDE DEF begin, Then
<1>12. Is(r)
  <2>1. \A h \in 0..n : r[h] = IF h = 0 THEN begin ELSE Then(h, r[h - 1])
    <3>1. \A h \in 0..n : h = 0 \/ h \in 1..n
      BY <1>5
    <3>. QED BY <1>9, <1>11, <3>1
  <2>. QED BY <1>10, <2>1
<1>13. Is(g)
  <2>1. \E f : Is(f)
    BY <1>12
  <2>. HIDE DEF Is
  <2>. QED BY <2>1, Zenon DEF g
<1>. HIDE DEF g
<1>14. g[n] = r[n]
  <2>. DEFINE S == {h \in 0..n : g[h] = r[h]}
  <2>1. 0 \in S
    BY <1>5, <1>12, <1>13
  <2>2. ASSUME NEW h \in 0..n - 1, h \in S PROVE h + 1 \in S
    <3>1. h + 1 \in 0..n /\ h + 1 # 0 /\ (h + 1) - 1 = h
      BY <1>5
    <3>2. g[h + 1] = Then(h + 1, g[h]) /\ r[h + 1] = Then(h + 1, r[h])
      BY <1>12, <1>13, <3>1
    <3>. QED BY <2>2, <3>1, <3>2
  <2>. HIDE DEF S
  <2>3. n \in 0..n
    BY <1>5
  <2>4. n \in S
    BY <1>5, <2>1, <2>2, <2>3, UpTo
  <2>. QED BY <2>4 DEF S
<1>. DEFINE x == e[n]
<1>15. x \in 0..Len(s) /\ (n > 0 => x = E[n])
  <2>1. n = 0 \/ n \in 1..n
    BY <1>5
  <2>. QED BY <1>2, <1>6, <1>7, <2>1
<1>16. ASSUME NEW k \in x + 1..Len(s) PROVE ~IsChange(s[k].op)
  <2>1. k \in 1..Len(s) /\ x < k
    BY <1>2, <1>15
  <2>. DEFINE h == n + 1
  <2>2. h \in 1..Len(hs) + 1 /\ ~(h <= Len(hs)) /\ (h > 1 => n > 0) /\ h - 1 = n
    BY <1>5 DEF n
  <2>. HIDE DEF h
  <2>3. h > 1 => E[h - 1] < k
    BY <1>15, <2>1, <2>2
  <2>. QED BY <1>3, <2>1, <2>2, <2>3, Quiet
<1>. HIDE DEF x
<1>17. r[n] = Here(b, I, J, x)
  BY <1>5, <1>8 DEF x
<1>18. r[n].new \o SubSeq(a, r[n].taken + 1, Len(a)) = b
  <2>. DEFINE out == r[n]
  <2>1. Calm(s, x)
    BY <1>16 DEF Calm
  <2>2. out = Here(b, I, J, x) /\ x \in 0..Len(s)
    BY <1>15, <1>17
  <2>. HIDE DEF out
  <2>3. Ends(a, b, out)
    BY <1>1, <2>1, <2>2, PatchEnds
  <2>. QED BY <2>3 DEF out, Ends
<1>. QED BY <1>4, <1>14, <1>18 DEF hs
-----------------------------------------------------------------------------
(* No hunk only where the lines agree.                                      *)

\* Over one text and itself the walk changes nothing.
LEMMA SameStep ==
    ASSUME NEW a, NEW e, NEW i, NEW x, NEW y, Len(a) \in Nat, i \in Nat, Edited(a, a, e, i, i, x, y)
    PROVE  x = y /\ ~IsChange(e.op)
<1>1. \/ ~IsChange(e.op) /\ x = i + 1 /\ y = i + 1
      \/ i <= Len(a) /\ (i > Len(a) \/ a[i] # a[i])
  BY Zenon DEF Edited, IsChange
<1>2. ~(i <= Len(a) /\ i > Len(a))
  OBVIOUS
<1>. QED BY <1>1, <1>2

\* A sequence of no length is the empty one.
LEMMA NoneIs ==
    ASSUME NEW s, IsSeq(s)
    PROVE  Len(s) = 0 <=> s = <<>>
<1>. DEFINE none == <<>>
<1>1. IsSeq(none) /\ Len(none) = 0
  BY EmptyIs
<1>. HIDE DEF none
<1>2. ASSUME Len(s) = 0 PROVE s = none
  <2>1. \A k \in 1..Len(s) : s[k] = none[k]
    BY <1>2
  <2>. QED BY <1>1, <1>2, <2>1, SameSeq
<1>3. Len(s) = 0 <=> s = none
  BY <1>1, <1>2
<1>. QED BY <1>3 DEF none

\* Where the texts agree the walk changes nothing.
LEMMA SameIsCalm ==
    ASSUME NEW a, NEW s, NEW I, NEW J, Steps(a, a, s, I, J)
    PROVE  Calm(s, 0)
<1>. DEFINE S == {k \in 0..Len(s) : I[k] = J[k] /\ (k > 0 => ~IsChange(s[k].op))}
<1>1. Len(s) \in Nat /\ Len(a) \in Nat /\ I[0] = J[0]
  BY DEF Steps
<1>2. 0 \in S
  BY <1>1
<1>3. ASSUME NEW k \in 0..Len(s) - 1, k \in S PROVE k + 1 \in S
  <2>. DEFINE m == k + 1
  <2>1. m \in 1..Len(s) /\ m - 1 = k /\ m \in 0..Len(s) /\ k \in 0..Len(s)
    BY <1>1
  <2>. HIDE DEF m
  <2>2. Edited(a, a, s[m], I[k], J[k], I[m], J[m])
    BY <2>1 DEF Steps
  <2>3. I[k] \in Nat /\ I[k] = J[k]
    BY <1>1, <1>3, <2>1 DEF Steps
  <2>4. I[m] = J[m] /\ ~IsChange(s[m].op)
    BY <1>1, <2>2, <2>3, SameStep
  <2>5. m \in S
    BY <2>1, <2>4
  <2>. QED BY <2>5 DEF m
<1>. HIDE DEF S
<1>4. \A k \in 0..Len(s) : k \in S
  BY <1>1, <1>2, <1>3, UpTo
<1>5. ASSUME NEW k \in 0 + 1..Len(s) PROVE ~IsChange(s[k].op)
  <2>1. k \in 0..Len(s) /\ k > 0
    BY <1>1
  <2>. QED BY <1>4, <2>1 DEF S
<1>. QED BY <1>5 DEF Calm

\* Where it changes nothing, they agree.
LEMMA CalmIsSame ==
    ASSUME NEW a, IsSeq(a), NEW b, IsSeq(b), NEW s, NEW I, NEW J, Steps(a, b, s, I, J), Calm(s, 0)
    PROVE  a = b
<1>. DEFINE n == Len(s)
            z == 0
<1>1. n \in Nat /\ z \in 0..n /\ n \in z..n /\ n - z = n /\ Len(a) \in Nat /\ Len(b) \in Nat
  BY DEF Steps
<1>2. I[z] = 1 /\ J[z] = 1 /\ I[n] = Len(a) + 1 /\ J[n] = Len(b) + 1
  BY DEF Steps
<1>3. \A k \in z + 1..n : ~IsChange(s[k].op)
  BY DEF Calm
<1>. HIDE DEF z
<1>4. Together(a, b, I, J, z, n)
  BY <1>1, <1>3, Still
<1>5. /\ I[n] = I[z] + (n - z) /\ J[n] = J[z] + (n - z)
      /\ \A t \in 0..n - z - 1 : a[I[z] + t] = b[J[z] + t]
  BY <1>4 DEF Together
<1>. HIDE DEF n
<1>6. Len(a) = n /\ Len(b) = n
  BY <1>1, <1>2, <1>5
<1>7. ASSUME NEW k \in 1..n PROVE a[k] = b[k]
  <2>1. k - 1 \in 0..n - z - 1 /\ 1 + (k - 1) = k
    BY <1>1
  <2>2. a[1 + (k - 1)] = b[1 + (k - 1)]
    BY <1>2, <1>5, <2>1
  <2>. QED BY <2>1, <2>2
<1>. QED BY <1>6, <1>7, SameSeq

\* There is no hunk exactly where the lines agree.
LEMMA NoHunkIsSame ==
    ASSUME NEW a, IsSeq(a), NEW b, IsSeq(b), NEW s, NEW I, NEW J, Walk(a, b, s, I, J),
           NEW c \in Nat
    PROVE  hunks(s, c) = <<>> <=> a = b
<1>. DEFINE hs == hunks(s, c)
<1>1. Steps(a, b, s, I, J)
  BY WalkSteps
<1>2. IsSeq(s) /\ Len(s) \in Nat
  BY <1>1 DEF Steps
<1>3. PICK B, E : Cuts(s, hs, B, E)
  BY <1>2, HunksCut
<1>. HIDE DEF hs
<1>4. IsSeq(hs)
  BY <1>3 DEF Cuts
<1>5. Calm(s, 0) <=> \A k \in 1..Len(s) : ~IsChange(s[k].op)
  <2>1. 0 + 1 = 1
    OBVIOUS
  <2>. QED BY <2>1 DEF Calm
<1>6. ASSUME a = b PROVE hs = <<>>
  <2>1. Calm(s, 0)
    BY <1>1, <1>6, SameIsCalm
  <2>2. Len(hs) = 0
    BY <1>3, <1>5, <2>1 DEF Cuts
  <2>. QED BY <1>4, <2>2, NoneIs
<1>7. ASSUME hs = <<>> PROVE a = b
  <2>1. Len(hs) = 0
    BY <1>4, <1>7, NoneIs
  <2>2. \A h \in 1..Len(hs) : FALSE
    BY <2>1
  <2>3. \A k \in 1..Len(s) : ~IsChange(s[k].op)
    BY <1>3, <2>2 DEF Cuts
  <2>. QED BY <1>1, <1>5, <2>3, CalmIsSame
<1>. QED BY <1>6, <1>7 DEF hs
-----------------------------------------------------------------------------
(* The counts: of the whole, and of the sections.                           *)

\* There are finitely many edits of a kind.
LEMMA MarkedIs ==
    ASSUME NEW s, IsSeq(s), NEW op
    PROVE  IsFiniteSet(Marked(s, op)) /\ Cardinality(Marked(s, op)) \in Nat
<1>1. Len(s) \in Nat
  BY SeqFacts
<1>2. IsFiniteSet(1..Len(s))
  BY <1>1, FS_Interval
<1>3. IsFiniteSet(Marked(s, op))
  BY <1>2, FS_Subset DEF Marked
<1>. QED BY <1>3, FS_CardinalityType

\* What the page counts is what the script changes.
LEMMA StatIs ==
    ASSUME NEW s, IsSeq(s), NEW c \in Nat
    PROVE  /\ Stat(hunks(s, c)).added = Cardinality(Marked(s, "+"))
           /\ Stat(hunks(s, c)).removed = Cardinality(Marked(s, "-"))
<1>1. IsChange("+") /\ IsChange("-")
  BY DEF IsChange
<1>2. Cardinality(LinesMarked(hunks(s, c), "+")) = Cardinality(Marked(s, "+"))
  BY <1>1, HunksCount
<1>3. Cardinality(LinesMarked(hunks(s, c), "-")) = Cardinality(Marked(s, "-"))
  BY <1>1, HunksCount
<1>. QED BY <1>2, <1>3, Zenon DEF Stat

\* The edits of a kind among those at some places.
MarkedAt(s, places, op) == {k \in 1..Len(s) : k \in places /\ s[k].op = op}

\* They are as many as among what is collected there.
LEMMA MarkedCollected ==
    ASSUME NEW s, IsSeq(s), NEW places, NEW op
    PROVE  /\ IsSeq(Sifted(s, places))
           /\ Cardinality(Marked(Sifted(s, places), op)) = Cardinality(MarkedAt(s, places, op))
<1>. DEFINE q == Sifted(s, places)
            n == Len(s)
            m == Len(q)
            T == MarkedAt(s, places, op)
            U == Marked(q, op)
<1>1. PICK rank : Ranked(s, places, q, rank)
  BY AtIsRanked
<1>. HIDE DEF q
<1>2. /\ IsSeq(q) /\ n \in Nat /\ m \in Nat /\ Counts(n, places, rank) /\ rank[n] = m
      /\ \A k \in 1..n : k \in places => q[rank[k]] = s[k]
  BY <1>1, SeqFacts DEF Ranked
<1>. HIDE DEF n, m
<1>3. PICK c : Counts(m, U, c)
  BY <1>2, CountExists
<1>4. c \in [0..m -> Nat] /\ c[0] = 0
  BY <1>3 DEF Counts
<1>5. rank \in [0..n -> Nat] /\ rank[0] = 0
  BY <1>2 DEF Counts
<1>6. ASSUME NEW k \in 0..n PROVE rank[k] \in 0..m
  <2>1. rank[k] <= rank[n] /\ rank[k] \in Nat
    <3>1. n \in 0..n /\ k <= n
      BY <1>2
    <3>. QED BY <1>2, <1>5, <3>1, CountGrows
  <2>. QED BY <1>2, <2>1
<1>. DEFINE d == [k \in 0..n |-> c[rank[k]]]
<1>7. d \in [0..n -> Nat] /\ \A k \in 0..n : d[k] = c[rank[k]]
  BY <1>4, <1>6
<1>. HIDE DEF d
<1>8. ASSUME NEW k \in 1..n
      PROVE  (k \in T => d[k] = d[k - 1] + 1) /\ (k \notin T => d[k] = d[k - 1])
  <2>1. k \in 0..n /\ k - 1 \in 0..n
    BY <1>2
  <2>2. d[k] = c[rank[k]] /\ d[k - 1] = c[rank[k - 1]]
    BY <1>7, <2>1
  <2>3. CASE k \in places
    <3>1. rank[k] = rank[k - 1] + 1 /\ q[rank[k]] = s[k]
      BY <1>2, <2>3 DEF Counts
    <3>2. rank[k] \in 1..m /\ rank[k] - 1 = rank[k - 1]
      BY <1>5, <1>6, <2>1, <3>1
    <3>3. k \in T <=> rank[k] \in U
      BY <1>2, <2>3, <3>1, <3>2 DEF MarkedAt, Marked, m, n
    <3>. DEFINE x == rank[k]
    <3>4. (x \in U => c[x] = c[x - 1] + 1) /\ (x \notin U => c[x] = c[x - 1])
      BY <1>3, <3>2 DEF Counts
    <3>. QED BY <2>2, <3>2, <3>3, <3>4
  <2>4. CASE k \notin places
    <3>1. rank[k] = rank[k - 1]
      BY <1>2, <2>4 DEF Counts
    <3>2. k \notin T
      BY <2>4 DEF MarkedAt
    <3>. QED BY <2>2, <3>1, <3>2
  <2>. QED BY <2>3, <2>4
<1>9. Counts(n, T, d)
  <2>1. d[0] = 0
    BY <1>2, <1>4, <1>5, <1>7
  <2>. HIDE DEF T
  <2>. QED BY <1>7, <1>8, <2>1 DEF Counts
<1>10. Cardinality(Among(T, n)) = d[n] /\ Cardinality(Among(U, m)) = c[m]
  <2>. HIDE DEF T, U
  <2>1. n \in 0..n /\ m \in 0..m
    BY <1>2
  <2>2. Cardinality(Among(T, n)) = d[n]
    BY <1>2, <1>9, <2>1, CountIs
  <2>3. Cardinality(Among(U, m)) = c[m]
    BY <1>2, <1>3, <2>1, CountIs
  <2>. QED BY <2>2, <2>3
<1>11. d[n] = c[m]
  BY <1>2, <1>7
<1>12. Among(T, n) = T /\ Among(U, m) = U
  BY DEF Among, MarkedAt, Marked, n, m
<1>13. Cardinality(U) = Cardinality(T)
  BY <1>10, <1>11, <1>12
<1>. QED BY <1>2, <1>13 DEF q, U, T

\* Of a set U, what o puts into s, or into one up to s.
Into(U, o, s) == {k \in U : o[k] = s}
IntoUpTo(U, o, s) == {k \in U : o[k] <= s}

\* Sums over the sections are counts over the whole.
LEMMA TotalIs ==
    ASSUME NEW files, NEW n \in Nat, Len(files) = n, NEW field, NEW U, IsFiniteSet(U),
           NEW o \in [U -> 1..n],
           \A s \in 1..n : files[s].stat[field] = Cardinality(Into(U, o, s))
    PROVE  Total(files, field) = Cardinality(U)
<1>. DEFINE zero == 0
            Then(s, v) == v + files[s].stat[field]
            Is(f) == f = [s \in 0..n |-> IF s = 0 THEN zero ELSE Then(s, f[s - 1])]
            g == CHOOSE f : Is(f)
            r == [s \in 0..n |-> Cardinality(IntoUpTo(U, o, s))]
<1>1. Total(files, field) = g[n]
  BY Zenon DEF Total, Then, zero
<1>2. ASSUME NEW s PROVE IsFiniteSet(IntoUpTo(U, o, s)) /\ IsFiniteSet(Into(U, o, s))
  BY FS_Subset DEF IntoUpTo, Into
<1>3. r[0] = zero
  <2>1. \A k \in U : o[k] \in 1..n
    OBVIOUS
  <2>2. IntoUpTo(U, o, 0) = {}
    BY <2>1 DEF IntoUpTo
  <2>3. r[0] = Cardinality(IntoUpTo(U, o, 0))
    <3>1. 0 \in 0..n
      OBVIOUS
    <3>. QED BY <3>1, Zenon
  <2>. QED BY <2>2, <2>3, FS_EmptySet
<1>4. ASSUME NEW s \in 1..n PROVE r[s] = Then(s, r[s - 1])
  <2>. DEFINE A == IntoUpTo(U, o, s - 1)
              X == Into(U, o, s)
  <2>1. \A k \in U : o[k] \in Nat
    OBVIOUS
  <2>2. IntoUpTo(U, o, s) = A \cup X /\ A \cap X = {}
    BY <2>1 DEF IntoUpTo, Into
  <2>3. IsFiniteSet(A) /\ IsFiniteSet(X)
    BY <1>2
  <2>. HIDE DEF A, X
  <2>4. /\ Cardinality(A \cup X) = Cardinality(A) + Cardinality(X) - Cardinality(A \cap X)
        /\ Cardinality(A \cap X) = 0
    BY <2>2, <2>3, FS_Union, FS_EmptySet
  <2>5. Cardinality(A) \in Nat /\ Cardinality(X) \in Nat
    BY <2>3, FS_CardinalityType
  <2>6. Cardinality(A \cup X) = Cardinality(A) + Cardinality(X)
    BY <2>4, <2>5
  <2>7. r[s] = Cardinality(A \cup X) /\ r[s - 1] = Cardinality(A)
    <3>1. s \in 0..n /\ s - 1 \in 0..n
      OBVIOUS
    <3>2. r[s] = Cardinality(IntoUpTo(U, o, s)) /\ r[s - 1] = Cardinality(IntoUpTo(U, o, s - 1))
      BY <3>1, Zenon
    <3>. QED BY <2>2, <3>2 DEF A
  <2>8. files[s].stat[field] = Cardinality(X)
    BY DEF X
  <2>. QED BY <2>6, <2>7, <2>8
<1>5. r = [s \in 0..n |-> r[s]]
  OBVIOUS
<1>. HIDE DEF r, zero, Then
<1>6. Is(r)
  <2>1. \A s \in 0..n : r[s] = IF s = 0 THEN zero ELSE Then(s, r[s - 1])
    <3>1. \A s \in 0..n : s = 0 \/ s \in 1..n
      OBVIOUS
    <3>. QED BY <1>3, <1>4, <3>1
  <2>. QED BY <1>5, <2>1
<1>7. Is(g)
  <2>1. \E f : Is(f)
    BY <1>6
  <2>. HIDE DEF Is
  <2>. QED BY <2>1, Zenon DEF g
<1>. HIDE DEF g
<1>8. g[n] = r[n]
  <2>. DEFINE S == {s \in 0..n : g[s] = r[s]}
  <2>1. 0 \in S
    BY <1>6, <1>7
  <2>2. ASSUME NEW s \in 0..n - 1, s \in S PROVE s + 1 \in S
    <3>1. s + 1 \in 0..n /\ s + 1 # 0 /\ (s + 1) - 1 = s
      OBVIOUS
    <3>2. g[s + 1] = Then(s + 1, g[s]) /\ r[s + 1] = Then(s + 1, r[s])
      BY <1>6, <1>7, <3>1
    <3>. QED BY <2>2, <3>1, <3>2
  <2>. HIDE DEF S
  <2>0. n \in 0..n
    OBVIOUS
  <2>3. n \in S
    BY <2>0, <2>1, <2>2, UpTo
  <2>. QED BY <2>3 DEF S
<1>9. IntoUpTo(U, o, n) = U
  BY DEF IntoUpTo
<1>10. r[n] = Cardinality(U)
  BY <1>9 DEF r
<1>. QED BY <1>1, <1>8, <1>10

\* Every line of the candidate belongs to a section.
LEMMA LineOfIs ==
    ASSUME NEW bodies, IsSeq(bodies), bodies # <<>>, NEW line
    PROVE  lineOf(bodies, line) \in 1..Len(bodies) /\ 1 \in 1..Len(bodies)
<1>. DEFINE reach == {s \in DOMAIN bodies : line <= LineEnds(bodies, s)}
            least == CHOOSE s \in reach : \A t \in reach : s <= t
<1>1. Len(bodies) \in Nat /\ DOMAIN bodies = 1..Len(bodies) /\ Len(bodies) # 0
  BY SeqFacts, NoneIs
<1>2. 1 \in 1..Len(bodies) /\ Len(bodies) \in 1..Len(bodies)
  BY <1>1
<1>3. lineOf(bodies, line) = IF reach = {} THEN Len(bodies) ELSE least
  BY Zenon DEF lineOf
<1>4. reach \in SUBSET (1..Len(bodies))
  BY <1>1
<1>. HIDE DEF reach
<1>5. ASSUME reach # {} PROVE least \in reach
  <2>1. reach \in SUBSET Nat
    BY <1>1, <1>4
  <2>2. \E s \in reach : \A t \in reach : s <= t
    BY <1>5, <2>1, Least
  <2>. QED BY <2>2, Zenon
<1>. HIDE DEF least
<1>. QED BY <1>2, <1>3, <1>4, <1>5

\* So does every edit.
LEMMA OwnersAre ==
    ASSUME NEW s, IsSeq(s), NEW bodies, IsSeq(bodies), bodies # <<>>
    PROVE  Owners(s, bodies) \in [1..Len(s) -> 1..Len(bodies)]
<1>1. DOMAIN s = 1..Len(s)
  BY SeqFacts
<1>2. \A line : lineOf(bodies, line) \in 1..Len(bodies) /\ 1 \in 1..Len(bodies)
  BY LineOfIs
<1>. QED BY <1>1, <1>2 DEF Owners

\* The edits of a section.
PerSec(s, bodies, t) == Sifted(s, {k \in DOMAIN s : Owners(s, bodies)[k] = t})

\* What the page says of a section it says of the section's edits.
LEMMA FilesAre ==
    ASSUME NEW a, NEW bodies, IsSeq(bodies), NEW c, NEW s,
           s = lcsScript(splitLines(a), splitLines(Logical(bodies))),
           NEW files, files = SectionDiff(a, bodies, c)
    PROVE  /\ DOMAIN files = 1..Len(bodies) /\ Len(files) = Len(bodies)
           /\ \A t \in 1..Len(bodies) : files[t] = FileChange(PerSec(s, bodies, t), c)
<1>1. DOMAIN bodies = 1..Len(bodies) /\ Len(bodies) \in Nat
  BY SeqFacts
<1>2. files = [t \in DOMAIN bodies |-> FileChange(PerSec(s, bodies, t), c)]
  BY Zenon DEF SectionDiff, PerSec
<1>3. files = [t \in 1..Len(bodies) |-> files[t]]
  BY <1>1, <1>2
<1>4. Len(files) = Len(bodies) /\ DOMAIN files = 1..Len(bodies)
  BY <1>1, <1>3, MakeIs
<1>5. \A t \in 1..Len(bodies) : files[t] = FileChange(PerSec(s, bodies, t), c)
  BY <1>1, <1>2
<1>. QED BY <1>4, <1>5

\* The edits of a kind that a section has.
LEMMA SectionCounts ==
    ASSUME NEW s, IsSeq(s), NEW bodies, NEW t, NEW c \in Nat
    PROVE  LET stat == FileChange(PerSec(s, bodies, t), c).stat
               o == Owners(s, bodies)
           IN /\ IsSeq(PerSec(s, bodies, t))
              /\ stat.added = Cardinality(Into(Marked(s, "+"), o, t))
              /\ stat.removed = Cardinality(Into(Marked(s, "-"), o, t))
<1>. DEFINE o == Owners(s, bodies)
            places == {k \in DOMAIN s : o[k] = t}
            q == PerSec(s, bodies, t)
            stat == FileChange(q, c).stat
<1>1. DOMAIN s = 1..Len(s)
  BY SeqFacts
<1>2. q = Sifted(s, places)
  BY DEF PerSec
<1>3. ASSUME NEW op PROVE MarkedAt(s, places, op) = Into(Marked(s, op), o, t)
  BY <1>1 DEF MarkedAt, Into, Marked
<1>. HIDE DEF places, o, q
<1>4. ASSUME NEW op PROVE Cardinality(Marked(q, op)) = Cardinality(Into(Marked(s, op), o, t))
  <2>1. Cardinality(Marked(Sifted(s, places), op)) = Cardinality(MarkedAt(s, places, op))
    BY MarkedCollected
  <2>. QED BY <1>2, <1>3, <2>1
<1>5. IsSeq(q)
  BY <1>2, MarkedCollected
<1>6. stat = Stat(hunks(q, c))
  BY Zenon DEF FileChange
<1>7. stat.added = Cardinality(Marked(q, "+")) /\ stat.removed = Cardinality(Marked(q, "-"))
  BY <1>5, <1>6, StatIs
<1>. QED BY <1>4, <1>5, <1>7 DEF o, q

\* The counts of the sections add up to those of the whole.
LEMMA TotalsAre ==
    ASSUME NEW a, NEW bodies, IsSeq(bodies), bodies # <<>>, NEW c \in Nat, NEW s, IsSeq(s),
           s = lcsScript(splitLines(a), splitLines(Logical(bodies)))
    PROVE  /\ Total(SectionDiff(a, bodies, c), "added") = Stat(hunks(s, c)).added
           /\ Total(SectionDiff(a, bodies, c), "removed") = Stat(hunks(s, c)).removed
<1>. DEFINE files == SectionDiff(a, bodies, c)
            n == Len(bodies)
            o == Owners(s, bodies)
<1>1. n \in Nat
  BY SeqFacts
<1>2. Len(files) = n /\ \A t \in 1..n : files[t] = FileChange(PerSec(s, bodies, t), c)
  BY FilesAre
<1>3. ASSUME NEW t \in 1..n
      PROVE  /\ files[t].stat.added = Cardinality(Into(Marked(s, "+"), o, t))
             /\ files[t].stat.removed = Cardinality(Into(Marked(s, "-"), o, t))
  BY <1>2, SectionCounts
<1>4. o \in [1..Len(s) -> 1..n]
  BY OwnersAre
<1>5. ASSUME NEW op PROVE IsFiniteSet(Marked(s, op)) /\ Marked(s, op) \subseteq 1..Len(s)
  <2>1. IsFiniteSet(Marked(s, op))
    BY MarkedIs
  <2>2. Marked(s, op) \subseteq 1..Len(s)
    BY DEF Marked
  <2>. QED BY <2>1, <2>2
<1>. HIDE DEF files, n, o
<1>6. ASSUME NEW op, NEW field,
             \A t \in 1..n : files[t].stat[field] = Cardinality(Into(Marked(s, op), o, t))
      PROVE  Total(files, field) = Cardinality(Marked(s, op))
  <2>. DEFINE U == Marked(s, op)
              p == [k \in U |-> o[k]]
  <2>1. IsFiniteSet(U) /\ U \subseteq 1..Len(s)
    BY <1>5
  <2>2. \A t : Into(U, p, t) = Into(U, o, t)
    BY DEF Into
  <2>. HIDE DEF U
  <2>3. p \in [U -> 1..n]
    BY <1>4, <2>1
  <2>. HIDE DEF p
  <2>4. \A t \in 1..n : files[t].stat[field] = Cardinality(Into(U, p, t))
    BY <1>6, <2>2 DEF U
  <2>. QED BY <1>1, <1>2, <2>1, <2>3, <2>4, TotalIs DEF U
<1>7. Total(files, "added") = Cardinality(Marked(s, "+"))
  <2>1. \A t \in 1..n : files[t].stat["added"] = Cardinality(Into(Marked(s, "+"), o, t))
    BY <1>3
  <2>. QED BY <1>6, <2>1
<1>8. Total(files, "removed") = Cardinality(Marked(s, "-"))
  <2>1. \A t \in 1..n : files[t].stat["removed"] = Cardinality(Into(Marked(s, "-"), o, t))
    BY <1>3
  <2>. QED BY <1>6, <2>1
<1>9. Stat(hunks(s, c)).added = Cardinality(Marked(s, "+"))
      /\ Stat(hunks(s, c)).removed = Cardinality(Marked(s, "-"))
  BY StatIs
<1>. QED BY <1>7, <1>8, <1>9 DEF files
-----------------------------------------------------------------------------
(* The texts.                                                               *)

\* The sections up to each, one after the other.
Stacks(bodies, f) ==
    /\ f[0] = <<>> /\ \A s \in 0..Len(bodies) : IsSeq(f[s])
    /\ \A s \in 1..Len(bodies) : f[s] = f[s - 1] \o bodies[s]
    /\ Logical(bodies) = f[Len(bodies)]

\* They are what the candidate is.
LEMMA LogicalStacks ==
    ASSUME NEW bodies, IsSeq(bodies), \A s \in 1..Len(bodies) : IsSeq(bodies[s])
    PROVE  \E f : Stacks(bodies, f)
<1>. DEFINE n == Len(bodies)
            none == <<>>
            T == UNION {Elements(bodies[s]) : s \in 1..n}
            V == Seq(T)
            Then(s, v) == v \o bodies[s]
            step == [x \in (1..n) \X V |-> Then(x[1], x[2])]
            Is(f) == f = [s \in 0..n |-> IF s = 0 THEN none ELSE Then(s, f[s - 1])]
            g == CHOOSE f : Is(f)
<1>1. n \in Nat
  BY SeqFacts
<1>2. ASSUME NEW s \in 1..n, NEW v \in V PROVE Then(s, v) \in V
  <2>1. bodies[s] \in Seq(Elements(bodies[s])) /\ Elements(bodies[s]) \subseteq T
    BY DEF IsSeq
  <2>. HIDE DEF T
  <2>2. bodies[s] \in Seq(T)
    BY <2>1, SeqMonotonic
  <2>. QED BY <2>2, ConcatProperties
<1>3. none \in V
  BY EmptySeq
<1>. HIDE DEF n, none, Then, V
<1>4. step \in [(1..n) \X V -> V] /\ \A k \in 1..n, v \in V : step[<<k, v>>] = Then(k, v)
  BY <1>2
<1>. HIDE DEF step
<1>5. PICK f : f \in [0..n -> V] /\ f[0] = none /\ \A k \in 1..n : f[k] = step[<<k, f[k - 1]>>]
  <2>1. n \in Nat /\ step \in [(1..n) \X V -> V]
    BY <1>1, <1>4
  <2>2. \E f : Follows(n, V, none, step, f)
    BY <1>3, <2>1, StepsExist, Zenon
  <2>. QED BY <2>2 DEF Follows
<1>6. \A k \in 1..n : f[k] = Then(k, f[k - 1])
  <2>1. \A k \in 1..n : k - 1 \in 0..n
    BY <1>1
  <2>. QED BY <1>1, <1>4, <1>5, <2>1
<1>7. Is(f)
  <2>1. \A k \in 0..n : f[k] = IF k = 0 THEN none ELSE Then(k, f[k - 1])
    BY <1>1, <1>5, <1>6
  <2>. QED BY <1>5, <2>1
<1>8. Is(g)
  BY <1>7
<1>9. Logical(bodies) = g[n]
  BY Zenon DEF Logical, n, none, Then
<1>. HIDE DEF g
<1>10. g[0] = none /\ \A k \in 1..n : g[k] = Then(k, g[k - 1])
  BY <1>1, <1>8
<1>11. g[0] = <<>> /\ \A k \in 1..n : g[k] = g[k - 1] \o bodies[k]
  BY <1>10, Zenon DEF none, Then
<1>12. \A k \in 0..n : IsSeq(g[k])
  <2>. DEFINE S == {k \in 0..n : IsSeq(g[k])}
  <2>1. 0 \in S
    BY <1>1, <1>11, EmptyIs
  <2>2. ASSUME NEW k \in 0..n - 1, k \in S PROVE k + 1 \in S
    <3>1. k + 1 \in 1..n /\ (k + 1) - 1 = k /\ k + 1 \in 0..n
      BY <1>1
    <3>2. IsSeq(bodies[k + 1])
      BY <3>1 DEF n
    <3>3. IsSeq(g[k] \o bodies[k + 1])
      BY <2>2, <3>2, ConcatIs
    <3>. QED BY <1>11, <3>1, <3>3
  <2>. HIDE DEF S
  <2>3. \A k \in 0..n : k \in S
    BY <1>1, <2>1, <2>2, UpTo
  <2>. QED BY <2>3 DEF S
<1>. QED BY <1>9, <1>11, <1>12 DEF Stacks, n

\* A text with its passwords masked.
LEMMA MaskIs ==
    ASSUME NEW text, IsSeq(text)
    PROVE  /\ IsSeq(MaskPasswords(text)) /\ Len(MaskPasswords(text)) = Len(text)
           /\ \A k \in 1..Len(text) :
                 MaskPasswords(text)[k] = IF text[k] \in Passwords THEN "masked" ELSE text[k]
<1>1. Len(text) \in Nat /\ DOMAIN text = 1..Len(text)
  BY SeqFacts
<1>. DEFINE m == MaskPasswords(text)
<1>2. m = [k \in 1..Len(text) |-> IF text[k] \in Passwords THEN "masked" ELSE text[k]]
  BY <1>1 DEF MaskPasswords
<1>. HIDE DEF m
<1>3. m = [k \in 1..Len(text) |-> m[k]]
  BY <1>2
<1>4. IsSeq(m) /\ Len(m) = Len(text)
  BY <1>1, <1>3, MakeIs
<1>5. \A k \in 1..Len(text) : m[k] = IF text[k] \in Passwords THEN "masked" ELSE text[k]
  BY <1>2
<1>. QED BY <1>4, <1>5 DEF m

\* Masking goes through a text piece by piece.
LEMMA MaskConcat ==
    ASSUME NEW a, IsSeq(a), NEW b, IsSeq(b)
    PROVE  MaskPasswords(a \o b) = MaskPasswords(a) \o MaskPasswords(b)
<1>. DEFINE M(t) == MaskPasswords(t)
            Is(x) == IF x \in Passwords THEN "masked" ELSE x
            m == Len(a)
            n == Len(b)
            p == M(a \o b)
            q == M(a) \o M(b)
            ma == M(a)
            mb == M(b)
<1>1. /\ IsSeq(a \o b) /\ m \in Nat /\ n \in Nat /\ Len(a \o b) = m + n
      /\ \A k \in 1..m : (a \o b)[k] = a[k]
      /\ \A k \in 1..n : (a \o b)[m + k] = b[k]
  BY ConcatIs
<1>2. IsSeq(ma) /\ Len(ma) = m /\ \A k \in 1..m : ma[k] = Is(a[k])
  BY MaskIs
<1>3. IsSeq(mb) /\ Len(mb) = n /\ \A k \in 1..n : mb[k] = Is(b[k])
  BY MaskIs
<1>4. IsSeq(p) /\ Len(p) = m + n /\ \A k \in 1..m + n : p[k] = Is((a \o b)[k])
  <2>. DEFINE c == a \o b
  <2>1. IsSeq(c) /\ Len(c) = m + n
    BY <1>1
  <2>. HIDE DEF c, m, n
  <2>2. IsSeq(M(c)) /\ Len(M(c)) = Len(c) /\ \A k \in 1..Len(c) : M(c)[k] = Is(c[k])
    BY <2>1, MaskIs
  <2>3. IsSeq(M(c)) /\ Len(M(c)) = m + n /\ \A k \in 1..m + n : M(c)[k] = Is(c[k])
    BY <2>1, <2>2
  <2>. QED BY <2>3 DEF c
<1>. HIDE DEF m, n, ma, mb, p, Is
<1>5. /\ IsSeq(q) /\ Len(q) = m + n
      /\ \A k \in 1..m : q[k] = ma[k]
      /\ \A k \in 1..n : q[m + k] = mb[k]
  <2>1. /\ IsSeq(ma \o mb) /\ Len(ma \o mb) = Len(ma) + Len(mb)
        /\ \A k \in 1..Len(ma) : (ma \o mb)[k] = ma[k]
        /\ \A k \in 1..Len(mb) : (ma \o mb)[Len(ma) + k] = mb[k]
    BY <1>2, <1>3, ConcatIs
  <2>2. q = ma \o mb
    BY DEF ma, mb
  <2>. HIDE DEF q
  <2>. QED BY <1>2, <1>3, <2>1, <2>2, Zenon
<1>. HIDE DEF q
<1>6. ASSUME NEW k \in 1..m + n PROVE p[k] = q[k]
  <2>1. CASE k <= m
    <3>1. k \in 1..m
      BY <1>1, <2>1
    <3>. QED BY <1>1, <1>2, <1>4, <1>5, <3>1
  <2>2. CASE k > m
    <3>. DEFINE d == k - m
    <3>1. d \in 1..n /\ m + d = k
      BY <1>1, <2>2
    <3>. HIDE DEF d
    <3>2. (a \o b)[k] = b[d] /\ q[k] = mb[d]
      BY <1>1, <1>5, <3>1
    <3>. QED BY <1>3, <1>4, <3>1, <3>2
  <2>3. k <= m \/ k > m
    BY <1>1
  <2>. QED BY <2>1, <2>2, <2>3
<1>7. p = q
  BY <1>4, <1>5, <1>6, SameSeq
<1>. QED BY <1>7 DEF p, q

\* The sections of a candidate with their passwords masked.
Masked(bodies) == [s \in DOMAIN bodies |-> MaskPasswords(bodies[s])]

\* They are a candidate.
LEMMA MaskedIs ==
    ASSUME NEW bodies, IsSeq(bodies), \A s \in 1..Len(bodies) : IsSeq(bodies[s])
    PROVE  /\ IsSeq(Masked(bodies)) /\ Len(Masked(bodies)) = Len(bodies)
           /\ bodies # <<>> => Masked(bodies) # <<>>
           /\ \A s \in 1..Len(bodies) :
                 Masked(bodies)[s] = MaskPasswords(bodies[s]) /\ IsSeq(Masked(bodies)[s])
<1>. DEFINE m == Masked(bodies)
<1>1. Len(bodies) \in Nat /\ DOMAIN bodies = 1..Len(bodies)
  BY SeqFacts
<1>2. m = [s \in 1..Len(bodies) |-> MaskPasswords(bodies[s])]
  BY <1>1 DEF Masked
<1>. HIDE DEF m
<1>3. /\ m = [s \in 1..Len(bodies) |-> m[s]]
      /\ \A s \in 1..Len(bodies) : m[s] = MaskPasswords(bodies[s])
  BY <1>2
<1>4. IsSeq(m) /\ Len(m) = Len(bodies)
  BY <1>1, <1>3, MakeIs
<1>5. \A s \in 1..Len(bodies) : IsSeq(m[s])
  BY <1>3, MaskIs
<1>6. bodies # <<>> => m # <<>>
  BY <1>4, NoneIs
<1>. QED BY <1>3, <1>4, <1>5, <1>6 DEF m

\* The candidate masked is the candidate of the masked sections.
LEMMA MaskedLogical ==
    ASSUME NEW bodies, IsSeq(bodies), \A s \in 1..Len(bodies) : IsSeq(bodies[s])
    PROVE  MaskPasswords(Logical(bodies)) = Logical(Masked(bodies))
<1>. DEFINE m == Masked(bodies)
            n == Len(bodies)
            M(t) == MaskPasswords(t)
<1>1. n \in Nat
  BY SeqFacts
<1>2. IsSeq(m) /\ Len(m) = n /\ \A s \in 1..n : m[s] = M(bodies[s]) /\ IsSeq(m[s])
  BY MaskedIs
<1>3. PICK f : Stacks(bodies, f)
  BY LogicalStacks
<1>. HIDE DEF m
<1>4. PICK g : Stacks(m, g)
  <2>1. \A s \in 1..Len(m) : IsSeq(m[s])
    BY <1>2
  <2>. QED BY <1>2, <2>1, LogicalStacks
<1>5. /\ f[0] = <<>> /\ \A s \in 0..n : IsSeq(f[s])
      /\ \A s \in 1..n : f[s] = f[s - 1] \o bodies[s]
      /\ Logical(bodies) = f[n]
  BY <1>3 DEF Stacks
<1>6. /\ g[0] = <<>> /\ \A s \in 1..n : g[s] = g[s - 1] \o m[s]
      /\ Logical(m) = g[n]
  BY <1>2, <1>4 DEF Stacks
<1>. HIDE DEF n
<1>. DEFINE S == {s \in 0..n : g[s] = M(f[s])}
<1>7. 0 \in S
  <2>. DEFINE none == <<>>
  <2>1. IsSeq(none) /\ Len(none) = 0
    BY EmptyIs
  <2>2. IsSeq(M(none)) /\ Len(M(none)) = 0
    <3>. HIDE DEF none
    <3>. QED BY <2>1, MaskIs
  <2>3. M(none) = <<>>
    BY <2>2, NoneIs
  <2>. QED BY <1>1, <1>5, <1>6, <2>3
<1>8. ASSUME NEW s \in 0..n - 1, s \in S PROVE s + 1 \in S
  <2>. DEFINE t == s + 1
  <2>1. t \in 1..n /\ t - 1 = s /\ t \in 0..n /\ s \in 0..n
    BY <1>1
  <2>. HIDE DEF t
  <2>2. f[t] = f[s] \o bodies[t] /\ g[t] = g[s] \o m[t]
    BY <1>5, <1>6, <2>1
  <2>3. IsSeq(f[s]) /\ IsSeq(bodies[t])
    BY <1>5, <2>1 DEF n
  <2>4. M(f[s] \o bodies[t]) = M(f[s]) \o M(bodies[t])
    BY <2>3, MaskConcat
  <2>5. g[s] = M(f[s]) /\ m[t] = M(bodies[t])
    BY <1>2, <1>8, <2>1
  <2>. HIDE DEF M
  <2>6. g[t] = M(f[t])
    BY <2>2, <2>4, <2>5
  <2>7. t \in S
    BY <2>1, <2>6
  <2>. QED BY <2>7 DEF t
<1>. HIDE DEF S
<1>9. n \in S
  <2>1. n \in 0..n
    BY <1>1
  <2>. QED BY <1>1, <1>7, <1>8, <2>1, UpTo
<1>. QED BY <1>5, <1>6, <1>9 DEF S, m

\* The lines of a text are a sequence.
LEMMA LinesAre ==
    ASSUME NEW text, IsSeq(text)
    PROVE  IsSeq(splitLines(text))
<1>. DEFINE body == TrimSuffix(text)
            n == Len(body)
            none == << <<>> >>
            T == Elements(body)
            W == Seq(Seq(T))
            V == {l \in W : Len(l) >= 1}
            Then(k, l) == AddToken(l, body[k])
            step == [x \in (1..n) \X V |-> Then(x[1], x[2])]
            Is(f) == f = [k \in 0..n |-> IF k = 0 THEN none ELSE Then(k, f[k - 1])]
            g == CHOOSE f : Is(f)
<1>0. CASE text = <<>>
  BY <1>0, EmptyIs DEF splitLines
<1>. SUFFICES ASSUME text # <<>> PROVE IsSeq(splitLines(text))
  BY <1>0
<1>1. IsSeq(body)
  <2>1. Len(text) \in Nat /\ Len(text) # 0
    BY SeqFacts, NoneIs
  <2>2. Len(text) - 1 \in 0..Len(text)
    BY <2>1
  <2>3. IsSeq(SubSeq(text, 1, Len(text) - 1))
    BY <2>2, PrefixIs
  <2>. QED BY <2>3 DEF TrimSuffix
<1>2. splitLines(text) = g[n]
  BY Zenon DEF splitLines, n, none, Then
<1>. HIDE DEF body
<1>3. n \in Nat /\ \A k \in 1..n : body[k] \in T
  BY <1>1, SeqFacts
<1>. HIDE DEF T, n
<1>4. ASSUME NEW k \in 1..n, NEW l \in V PROVE Then(k, l) \in V
  <2>1. l \in W /\ Len(l) \in Nat /\ Len(l) >= 1 /\ body[k] \in T
    BY <1>3, LenProperties
  <2>2. CASE EndsLine(body[k])
    <3>1. Append(l, <<>>) \in W /\ Len(Append(l, <<>>)) = Len(l) + 1
      BY <2>1, EmptySeq, AppendProperties
    <3>2. Then(k, l) = Append(l, <<>>)
      BY <2>2 DEF AddToken
    <3>. QED BY <2>1, <3>1, <3>2
  <2>3. CASE ~EndsLine(body[k])
    <3>. DEFINE m == Len(l)
                last == Append(l[m], body[k])
                to == [l EXCEPT ![m] = last]
    <3>1. Then(k, l) = to
      BY <2>3 DEF AddToken
    <3>2. l \in [1..m -> Seq(T)] /\ m \in 1..m
      BY <2>1, LenProperties
    <3>3. last \in Seq(T)
      BY <2>1, <3>2, AppendProperties
    <3>. HIDE DEF last
    <3>4. to \in [1..m -> Seq(T)]
      BY <3>2, <3>3
    <3>. HIDE DEF to
    <3>5. to \in W
      BY <2>1, <3>4, IsASeq
    <3>6. Len(to) = m
      <4>1. DOMAIN to = 1..m /\ DOMAIN to = 1..Len(to) /\ Len(to) \in Nat
        BY <3>4, <3>5, LenProperties
      <4>. QED BY <2>1, <4>1
    <3>. QED BY <2>1, <3>1, <3>5, <3>6
  <2>. QED BY <2>2, <2>3
<1>5. none \in V
  <2>1. <<>> \in Seq(T)
    BY EmptySeq
  <2>3. << <<>> >> \in Seq(Seq(T)) /\ Len(<< <<>> >>) = 1
    BY <2>1
  <2>. QED BY <2>3
<1>. HIDE DEF none, Then, V
<1>6. step \in [(1..n) \X V -> V] /\ \A k \in 1..n, v \in V : step[<<k, v>>] = Then(k, v)
  BY <1>4
<1>. HIDE DEF step
<1>7. PICK f : f \in [0..n -> V] /\ f[0] = none /\ \A k \in 1..n : f[k] = step[<<k, f[k - 1]>>]
  <2>1. n \in Nat /\ step \in [(1..n) \X V -> V]
    BY <1>3, <1>6
  <2>2. \E f : Follows(n, V, none, step, f)
    BY <1>5, <2>1, StepsExist, Zenon
  <2>. QED BY <2>2 DEF Follows
<1>8. \A k \in 1..n : f[k] = Then(k, f[k - 1])
  <2>1. \A k \in 1..n : k - 1 \in 0..n
    BY <1>3
  <2>. QED BY <1>3, <1>6, <1>7, <2>1
<1>9. Is(f)
  <2>1. \A k \in 0..n : f[k] = IF k = 0 THEN none ELSE Then(k, f[k - 1])
    BY <1>3, <1>7, <1>8
  <2>. QED BY <1>7, <2>1
<1>10. Is(g)
  BY <1>9
<1>. HIDE DEF g
<1>11. g[0] = none /\ \A k \in 1..n : g[k] = Then(k, g[k - 1])
  BY <1>3, <1>10
<1>. DEFINE S == {k \in 0..n : g[k] \in V}
<1>12. 0 \in S
  BY <1>3, <1>5, <1>11
<1>13. ASSUME NEW k \in 0..n - 1, k \in S PROVE k + 1 \in S
  <2>1. k + 1 \in 1..n /\ (k + 1) - 1 = k /\ k + 1 \in 0..n
    BY <1>3
  <2>. QED BY <1>4, <1>11, <1>13, <2>1
<1>. HIDE DEF S
<1>14. n \in S
  <2>1. n \in 0..n
    BY <1>3
  <2>. QED BY <1>3, <1>12, <1>13, <2>1, UpTo
<1>15. g[n] \in W
  BY <1>14 DEF S, V
<1>. HIDE DEF W
<1>16. IsSeq(g[n])
  BY <1>15, SeqIs DEF W
<1>. QED BY <1>2, <1>16
-----------------------------------------------------------------------------
(* The sections.                                                            *)

\* The line ends up to a section can be counted.
LEMMA LineEndsAre ==
    ASSUME NEW bodies, IsSeq(bodies), \A s \in 1..Len(bodies) : IsSeq(bodies[s]),
           NEW s \in 1..Len(bodies)
    PROVE  LineEnds(bodies, s) \in Nat
<1>. DEFINE At1(t) == {k \in DOMAIN bodies[t] : EndsLine(bodies[t][k])}
            h == [t \in 1..s |-> {t} \X At1(t)]
            S == {h[t] : t \in 1..s}
            U == UNION {{t} \X {k \in DOMAIN bodies[t] : EndsLine(bodies[t][k])} : t \in 1..s}
<1>1. Len(bodies) \in Nat /\ s \in Nat
  BY SeqFacts
<1>2. IsFiniteSet(1..s)
  BY <1>1, FS_Interval
<1>3. ASSUME NEW t \in 1..s PROVE IsFiniteSet(h[t])
  <2>1. t \in 1..Len(bodies)
    BY <1>1
  <2>2. DOMAIN bodies[t] = 1..Len(bodies[t]) /\ Len(bodies[t]) \in Nat
    BY <2>1, SeqFacts
  <2>3. IsFiniteSet(DOMAIN bodies[t])
    BY <2>2, FS_Interval
  <2>4. At1(t) \in SUBSET (DOMAIN bodies[t])
    OBVIOUS
  <2>5. IsFiniteSet(At1(t)) /\ IsFiniteSet({t})
    BY <2>3, <2>4, FS_Subset, FS_Singleton
  <2>. HIDE DEF At1
  <2>6. IsFiniteSet({t} \X At1(t))
    BY <2>5, FS_Product
  <2>. QED BY <2>6
<1>4. DOMAIN h = 1..s /\ h = [t \in 1..s |-> h[t]]
  OBVIOUS
<1>5. U = UNION S
  OBVIOUS
<1>. HIDE DEF h
<1>6. IsFiniteSet(S)
  BY <1>2, <1>4, ImageIsFinite
<1>7. \A T \in S : IsFiniteSet(T)
  BY <1>3
<1>. HIDE DEF S
<1>8. IsFiniteSet(UNION S)
  BY <1>6, <1>7, FS_UNION
<1>. HIDE DEF U
<1>9. Cardinality(U) \in Nat
  BY <1>5, <1>8, FS_CardinalityType
<1>. QED BY <1>9, Zenon DEF LineEnds, U

\* The sections a line reaches up to.
Reach(bodies, line) == {s \in DOMAIN bodies : line <= LineEnds(bodies, s)}

\* A line belongs to the first section that it reaches.
LEMMA LineOfLeast ==
    ASSUME NEW bodies, IsSeq(bodies), NEW line
    PROVE  /\ Reach(bodies, line) = {} => lineOf(bodies, line) = Len(bodies)
           /\ Reach(bodies, line) # {} =>
                 /\ lineOf(bodies, line) \in Reach(bodies, line)
                 /\ \A t \in Reach(bodies, line) : lineOf(bodies, line) <= t
<1>. DEFINE reach == Reach(bodies, line)
            least == CHOOSE s \in reach : \A t \in reach : s <= t
<1>1. Len(bodies) \in Nat /\ DOMAIN bodies = 1..Len(bodies)
  BY SeqFacts
<1>2. lineOf(bodies, line) = IF reach = {} THEN Len(bodies) ELSE least
  BY Zenon DEF lineOf, Reach
<1>3. reach \in SUBSET Nat
  BY <1>1 DEF Reach
<1>. HIDE DEF reach
<1>4. ASSUME reach # {} PROVE least \in reach /\ \A t \in reach : least <= t
  <2>1. \E s \in reach : \A t \in reach : s <= t
    BY <1>3, <1>4, Least
  <2>. QED BY <2>1, Zenon
<1>. HIDE DEF least
<1>5. /\ reach = {} => lineOf(bodies, line) = Len(bodies)
      /\ reach # {} => /\ lineOf(bodies, line) \in reach
                       /\ \A t \in reach : lineOf(bodies, line) <= t
  BY <1>2, <1>4
<1>. QED BY <1>5 DEF reach

\* Later lines belong to later sections.
LEMMA LineOfGrows ==
    ASSUME NEW bodies, IsSeq(bodies), bodies # <<>>, \A s \in 1..Len(bodies) : IsSeq(bodies[s]),
           NEW i \in Nat, NEW j \in Nat, i <= j
    PROVE  lineOf(bodies, i) <= lineOf(bodies, j)
<1>1. Len(bodies) \in Nat /\ DOMAIN bodies = 1..Len(bodies)
  BY SeqFacts
<1>2. Reach(bodies, j) \subseteq Reach(bodies, i)
  <2>1. \A s \in 1..Len(bodies) : LineEnds(bodies, s) \in Nat
    BY LineEndsAre
  <2>2. \A s \in 1..Len(bodies) : j <= LineEnds(bodies, s) => i <= LineEnds(bodies, s)
    BY <2>1
  <2>. QED BY <1>1, <2>2 DEF Reach
<1>3. lineOf(bodies, i) \in 1..Len(bodies) /\ lineOf(bodies, j) \in 1..Len(bodies)
  BY LineOfIs
<1>4. CASE Reach(bodies, j) = {}
  <2>1. lineOf(bodies, j) = Len(bodies)
    BY <1>4, LineOfLeast
  <2>. QED BY <1>1, <1>3, <2>1
<1>5. CASE Reach(bodies, j) # {}
  <2>1. lineOf(bodies, j) \in Reach(bodies, j)
    BY <1>5, LineOfLeast
  <2>2. Reach(bodies, i) # {} /\ lineOf(bodies, j) \in Reach(bodies, i)
    BY <1>2, <2>1
  <2>. QED BY <2>2, LineOfLeast
<1>. QED BY <1>4, <1>5

\* The lines of a section.
LinesOf(b, bodies, t) == {k \in 1..Len(b) : lineOf(bodies, k) = t}

\* Among bounded numbers there is a greatest.
LEMMA Greatest ==
    ASSUME NEW n \in Nat, NEW S \in SUBSET (0..n), S # {}
    PROVE  \E m \in S : \A d \in S : d <= m
<1>. DEFINE Back == {n - d : d \in S}
<1>1. Back \in SUBSET Nat /\ Back # {}
  <2>1. \A d \in S : n - d \in Nat
    OBVIOUS
  <2>. QED BY <2>1
<1>. HIDE DEF Back
<1>2. PICK x \in Back : \A y \in Back : x <= y
  BY <1>1, Least
<1>3. PICK m \in S : x = n - m
  BY <1>2 DEF Back
<1>4. \A d \in S : n - m <= n - d
  BY <1>2, <1>3 DEF Back
<1>5. \A d \in S : d <= m
  BY <1>4
<1>. QED BY <1>5

\* Its edits, by the lines before them.
LEMMA OwnerIs ==
    ASSUME NEW a, NEW b, NEW s, NEW I, NEW J, Steps(a, b, s, I, J), NEW bodies,
           NEW k \in 1..Len(s), J[k] > 1
    PROVE  Owners(s, bodies)[k] = lineOf(bodies, J[k] - 1)
<1>. DEFINE Before == {c \in 1..k : s[c].newLine > 0}
            last == CHOOSE c \in Before : \A d \in Before : d <= c
<1>1. Len(s) \in Nat /\ DOMAIN s = 1..Len(s)
  BY SeqFacts DEF Steps
<1>2. Owners(s, bodies)[k] = IF Before = {} THEN 1 ELSE lineOf(bodies, s[last].newLine)
  BY <1>1, Zenon DEF Owners
<1>3. ASSUME NEW c \in 1..k
      PROVE  /\ J[c - 1] \in Nat /\ J[c] \in Nat /\ J[c - 1] >= 1
             /\ s[c].newLine > 0 => s[c].newLine = J[c - 1] /\ J[c] = J[c - 1] + 1
             /\ ~(s[c].newLine > 0) => J[c] = J[c - 1]
  <2>1. c \in 1..Len(s)
    BY <1>1
  <2>2. Does(a, b, s, I, J, c)
    BY <2>1, StepIs
  <2>3. J[c - 1] \in 1..Len(b) + 1 /\ J[c] \in 1..Len(b) + 1 /\ Len(b) \in Nat
    BY <2>2 DEF Does, Steps
  <2>4. New(s[c]) => J[c] = J[c - 1] + 1 /\ s[c].newLine = J[c - 1]
    BY <2>2 DEF Does
  <2>5. ~New(s[c]) => J[c] = J[c - 1] /\ s[c].newLine = 0
    BY <2>2 DEF Does
  <2>. QED BY <2>3, <2>4, <2>5
<1>. HIDE DEF Before, last
<1>4. PICK m \in Before : \A d \in Before : d <= m
  <2>. DEFINE T == {d \in 0..k : J[d] > 1}
  <2>1. k \in T /\ T \in SUBSET Nat
    BY <1>1
  <2>. HIDE DEF T
  <2>2. PICK f \in T : \A d \in T : f <= d
    BY <2>1, Least
  <2>4. J[0] = 1
    BY DEF Steps
  <2>5. f \in 1..k /\ f - 1 \in 0..k /\ f - 1 \notin T
    <3>1. f \in 0..k /\ J[f] > 1
      BY <2>2 DEF T
    <3>2. f # 0
      BY <2>4, <3>1
    <3>3. f \in 1..k /\ f - 1 \in 0..k /\ f - 1 < f
      BY <1>1, <3>1, <3>2
    <3>4. f - 1 \notin T
      BY <1>1, <2>2, <3>3
    <3>. QED BY <3>3, <3>4
  <2>6. ~(J[f - 1] > 1) /\ J[f] > 1
    BY <2>2, <2>5 DEF T
  <2>7. f \in Before
    <3>1. J[f] # J[f - 1]
      BY <2>6
    <3>2. s[f].newLine > 0
      BY <1>3, <2>5, <3>1
    <3>. QED BY <2>5, <3>2 DEF Before
  <2>8. Before \in SUBSET (0..k) /\ Before # {}
    BY <1>1, <2>7 DEF Before
  <2>9. k \in Nat
    BY <1>1
  <2>. QED BY <2>8, <2>9, Greatest
<1>5. last \in Before /\ \A d \in Before : d <= last
  BY <1>4, Zenon DEF last
<1>6. last \in 1..k /\ s[last].newLine > 0
  BY <1>5 DEF Before
<1>7. s[last].newLine = J[last] - 1
  <2>1. s[last].newLine = J[last - 1] /\ J[last] = J[last - 1] + 1 /\ J[last - 1] \in Nat
    BY <1>3, <1>6
  <2>. DEFINE v == J[last - 1]
              w == J[last]
  <2>2. w = v + 1 /\ v \in Nat
    BY <2>1
  <2>. HIDE DEF v, w
  <2>3. v = w - 1
    BY <2>2
  <2>. QED BY <2>1, <2>3 DEF v, w
<1>8. J[last] = J[k]
  <2>. DEFINE S == {d \in 0..k - last : J[last + d] = J[last]}
              n == k - last
  <2>1. n \in Nat /\ 0 \in S /\ last + n = k
    BY <1>1, <1>6
  <2>2. ASSUME NEW d \in 0..n - 1, d \in S PROVE d + 1 \in S
    <3>. DEFINE c == last + d + 1
    <3>1. c \in 1..k /\ c > last /\ c - 1 = last + d /\ d + 1 \in 0..n /\ c = last + (d + 1)
      BY <1>1, <1>6, <2>1
    <3>. HIDE DEF c
    <3>2. ~(s[c].newLine > 0)
      BY <1>1, <1>5, <1>6, <3>1 DEF Before
    <3>3. J[c] = J[c - 1]
      BY <1>3, <3>1, <3>2
    <3>. QED BY <2>2, <3>1, <3>3
  <2>. HIDE DEF S, n
  <2>3. n \in 0..n
    BY <2>1
  <2>4. n \in S
    BY <2>1, <2>2, <2>3, UpTo
  <2>. QED BY <2>1, <2>4 DEF S
<1>. QED BY <1>2, <1>5, <1>7, <1>8

\* Counting in two steps: among the places of P, those whose rank is in U.
Through(n, P, r, U) == {k \in 1..n : k \in P /\ r[k] \in U}

\* It counts as many as there are in U.
LEMMA CountThrough ==
    ASSUME NEW n \in Nat, NEW P, NEW r, Counts(n, P, r), NEW U \in SUBSET (1..r[n])
    PROVE  Cardinality(Through(n, P, r, U)) = Cardinality(U)
<1>. DEFINE m == r[n]
            T == Through(n, P, r, U)
<1>0. r \in [0..n -> Nat] /\ r[0] = 0 /\ m \in Nat
  BY DEF Counts
<1>1. PICK c : Counts(m, U, c)
  BY <1>0, CountExists
<1>2. U \in SUBSET (1..m) /\ r[n] = m
  OBVIOUS
<1>. HIDE DEF m
<1>3. c \in [0..m -> Nat] /\ c[0] = 0
  BY <1>1 DEF Counts
<1>4. ASSUME NEW k \in 0..n PROVE r[k] \in 0..m
  <2>1. n \in 0..n /\ k <= n
    OBVIOUS
  <2>2. r[k] <= r[n] /\ r[k] \in Nat
    BY <1>0, <2>1, CountGrows
  <2>. QED BY <1>0, <1>2, <2>2
<1>. DEFINE d == [k \in 0..n |-> c[r[k]]]
<1>5. d \in [0..n -> Nat] /\ \A k \in 0..n : d[k] = c[r[k]]
  BY <1>3, <1>4
<1>. HIDE DEF d
<1>6. ASSUME NEW k \in 1..n
      PROVE  (k \in T => d[k] = d[k - 1] + 1) /\ (k \notin T => d[k] = d[k - 1])
  <2>1. k \in 0..n /\ k - 1 \in 0..n
    OBVIOUS
  <2>2. d[k] = c[r[k]] /\ d[k - 1] = c[r[k - 1]]
    BY <1>5, <2>1
  <2>3. CASE k \in P
    <3>1. r[k] = r[k - 1] + 1
      BY <2>3 DEF Counts
    <3>2. r[k] \in 1..m /\ r[k] - 1 = r[k - 1]
      BY <1>0, <1>4, <2>1, <3>1
    <3>3. k \in T <=> r[k] \in U
      BY <2>3 DEF Through
    <3>. DEFINE x == r[k]
    <3>4. (x \in U => c[x] = c[x - 1] + 1) /\ (x \notin U => c[x] = c[x - 1])
      BY <1>1, <3>2 DEF Counts
    <3>. QED BY <2>2, <3>2, <3>3, <3>4
  <2>4. CASE k \notin P
    <3>1. r[k] = r[k - 1]
      BY <2>4 DEF Counts
    <3>2. k \notin T
      BY <2>4 DEF Through
    <3>. QED BY <2>2, <3>1, <3>2
  <2>. QED BY <2>3, <2>4
<1>7. Counts(n, T, d)
  <2>1. d[0] = 0
    BY <1>0, <1>3, <1>5
  <2>. HIDE DEF T
  <2>. QED BY <1>5, <1>6, <2>1 DEF Counts
<1>8. Among(T, n) = T /\ Among(U, m) = U
  BY <1>2 DEF Among, Through
<1>. HIDE DEF T
<1>9. n \in 0..n /\ m \in 0..m
  BY <1>0
<1>10. Cardinality(Among(T, n)) = d[n]
  BY <1>7, <1>9, CountIs
<1>11. Cardinality(Among(U, m)) = c[m]
  BY <1>0, <1>1, <1>9, CountIs
<1>12. d[n] = c[m]
  BY <1>2, <1>5, <1>9
<1>. QED BY <1>8, <1>10, <1>11, <1>12 DEF T

\* The edits that are lines of the other text, and the lines that are behind after each edit.
NewEdits(s) == {k \in 1..Len(s) : New(s[k])}
Behind(s, J) == [k \in 0..Len(s) |-> J[k] - 1]

\* The walk counts the lines of the other text.
LEMMA NewCounts ==
    ASSUME NEW a, NEW b, NEW s, NEW I, NEW J, Steps(a, b, s, I, J)
    PROVE  /\ Counts(Len(s), NewEdits(s), Behind(s, J)) /\ Behind(s, J)[Len(s)] = Len(b)
           /\ \A k \in 0..Len(s) : Behind(s, J)[k] = J[k] - 1 /\ J[k] \in Nat
<1>. DEFINE n == Len(s)
            r == Behind(s, J)
<1>1. n \in Nat /\ n \in 0..n /\ Len(b) \in Nat
  BY DEF Steps
<1>2. \A k \in 0..n : J[k] \in Nat /\ J[k] >= 1
  BY <1>1 DEF Steps
<1>3. r \in [0..n -> Nat] /\ \A k \in 0..n : r[k] = J[k] - 1
  BY <1>2 DEF Behind
<1>4. J[0] = 1 /\ J[n] = Len(b) + 1
  BY DEF Steps
<1>. HIDE DEF r
<1>5. r[0] = 0 /\ r[n] = Len(b)
  BY <1>1, <1>3, <1>4
<1>6. ASSUME NEW k \in 1..n
      PROVE  /\ k \in NewEdits(s) => r[k] = r[k - 1] + 1
             /\ k \notin NewEdits(s) => r[k] = r[k - 1]
  <2>1. Does(a, b, s, I, J, k)
    BY StepIs
  <2>2. (New(s[k]) => J[k] = J[k - 1] + 1) /\ (~New(s[k]) => J[k] = J[k - 1])
    BY <2>1 DEF Does
  <2>3. k \in 0..n /\ k - 1 \in 0..n
    BY <1>1
  <2>4. r[k] = J[k] - 1 /\ r[k - 1] = J[k - 1] - 1 /\ J[k] \in Nat /\ J[k - 1] \in Nat
    BY <1>2, <1>3, <2>3
  <2>5. k \in NewEdits(s) <=> New(s[k])
    BY DEF NewEdits
  <2>. QED BY <2>2, <2>4, <2>5
<1>7. Counts(n, NewEdits(s), r)
  BY <1>3, <1>5, <1>6 DEF Counts
<1>. QED BY <1>2, <1>3, <1>5, <1>7 DEF r

\* The edits that are lines of a section.
SectionEdits(s, J, b, bodies, t) ==
    Through(Len(s), NewEdits(s), Behind(s, J), LinesOf(b, bodies, t))

\* E: those of the edits of section t that are lines of the candidate.
OwnEdits(s, J, b, bodies, t, E) ==
    /\ \A k \in 1..Len(s) :
          New(s[k]) => (k \in E <=> Owners(s, bodies)[k] = t) /\ J[k] - 1 \in 1..Len(b)
    /\ \A k \in E : k \in 1..Len(s) /\ New(s[k])
    /\ Cardinality(E) = Cardinality(LinesOf(b, bodies, t))

\* Among the edits of a section they are those that are lines of the candidate.
LEMMA SectionEditsAre ==
    ASSUME NEW a, NEW b, NEW s, NEW I, NEW J, Steps(a, b, s, I, J), NEW bodies, NEW t
    PROVE  OwnEdits(s, J, b, bodies, t, SectionEdits(s, J, b, bodies, t))
<1>. DEFINE E == SectionEdits(s, J, b, bodies, t)
            T == LinesOf(b, bodies, t)
            r == Behind(s, J)
<1>1. /\ Counts(Len(s), NewEdits(s), r) /\ r[Len(s)] = Len(b)
      /\ \A k \in 0..Len(s) : r[k] = J[k] - 1 /\ J[k] \in Nat
  BY NewCounts
<1>2. Len(s) \in Nat /\ Len(b) \in Nat
  BY DEF Steps
<1>. HIDE DEF r
<1>3. T \in SUBSET (1..r[Len(s)])
  BY <1>1 DEF LinesOf
<1>4. Cardinality(E) = Cardinality(T)
  <2>1. E = Through(Len(s), NewEdits(s), r, T)
    BY DEF SectionEdits, r
  <2>. HIDE DEF E, T
  <2>. QED BY <1>1, <1>2, <1>3, <2>1, CountThrough
<1>5. ASSUME NEW k \in 1..Len(s), New(s[k])
      PROVE  (k \in E <=> Owners(s, bodies)[k] = t) /\ J[k] - 1 \in 1..Len(b)
  <2>0. k \in 0..Len(s)
    BY <1>2
  <2>1. J[k] - 1 \in 1..Len(b) /\ J[k] > 1
    <3>1. Does(a, b, s, I, J, k)
      BY StepIs
    <3>2. J[k] = J[k - 1] + 1 /\ J[k - 1] \in 1..Len(b) + 1 /\ J[k] \in 1..Len(b) + 1
      BY <1>5, <3>1 DEF Does
    <3>. QED BY <1>2, <3>2
  <2>2. Owners(s, bodies)[k] = lineOf(bodies, J[k] - 1)
    BY <2>1, OwnerIs
  <2>3. r[k] = J[k] - 1
    BY <1>1, <2>0
  <2>4. k \in E <=> r[k] \in T
    BY <1>5 DEF SectionEdits, Through, NewEdits, r
  <2>. QED BY <2>1, <2>2, <2>3, <2>4 DEF LinesOf
<1>6. \A k \in E : k \in 1..Len(s) /\ New(s[k])
  BY DEF SectionEdits, Through, NewEdits
<1>. QED BY <1>4, <1>5, <1>6 DEF OwnEdits

\* As many lines are collected as there are places.
LEMMA CollectedLen ==
    ASSUME NEW seq, IsSeq(seq), NEW T \in SUBSET (1..Len(seq))
    PROVE  IsSeq(Sifted(seq, T)) /\ Len(Sifted(seq, T)) = Cardinality(T) /\ Cardinality(T) \in Nat
<1>. DEFINE n == Len(seq)
            q == Sifted(seq, T)
<1>1. n \in Nat /\ n \in 0..n
  <2>1. n \in Nat
    BY SeqFacts
  <2>. QED BY <2>1
<1>2. PICK rank : Ranked(seq, T, q, rank)
  BY AtIsRanked
<1>. HIDE DEF q
<1>3. IsSeq(q) /\ Counts(n, T, rank) /\ rank[n] = Len(q)
  BY <1>2 DEF Ranked
<1>4. Among(T, n) = T
  BY DEF Among
<1>. HIDE DEF n
<1>5. IsFiniteSet(Among(T, n)) /\ Cardinality(Among(T, n)) = rank[n]
  BY <1>1, <1>3, CountIs
<1>6. Len(q) \in Nat
  BY <1>3, SeqFacts
<1>. QED BY <1>3, <1>4, <1>5, <1>6 DEF q

\* An edit keeps, deletes or inserts.
LEMMA OpIs ==
    ASSUME NEW a, NEW b, NEW s, NEW I, NEW J, Steps(a, b, s, I, J), NEW k \in 1..Len(s)
    PROVE  s[k].op \in {" ", "-", "+"}
<1>1. Edited(a, b, s[k], I[k - 1], J[k - 1], I[k], J[k])
  BY DEF Steps
<1>. QED BY <1>1, Zenon DEF Edited

\* The edits of a kind of a section, counted where the page counts them.
LEMMA PerSecCounts ==
    ASSUME NEW s, IsSeq(s), NEW bodies, NEW t, NEW op
    PROVE  /\ IsSeq(PerSec(s, bodies, t))
           /\ Marked(PerSec(s, bodies, t), op) = {}
              => Into(Marked(s, op), Owners(s, bodies), t) = {}
<1>. DEFINE o == Owners(s, bodies)
            places == {k \in DOMAIN s : o[k] = t}
            q == PerSec(s, bodies, t)
            X == Into(Marked(s, op), o, t)
<1>1. DOMAIN s = 1..Len(s)
  BY SeqFacts
<1>2. q = Sifted(s, places)
  BY DEF PerSec
<1>3. MarkedAt(s, places, op) = X
  BY <1>1 DEF MarkedAt, Into, Marked
<1>4. IsFiniteSet(X)
  <2>1. IsFiniteSet(Marked(s, op))
    BY MarkedIs
  <2>. QED BY <2>1, FS_Subset DEF Into
<1>. HIDE DEF places, o, q, X
<1>5. IsSeq(q) /\ Cardinality(Marked(q, op)) = Cardinality(X)
  BY <1>2, <1>3, MarkedCollected
<1>6. Marked(q, op) = {} => X = {}
  <2>1. ASSUME Marked(q, op) = {} PROVE Cardinality(X) = 0
    BY <1>5, <2>1, FS_EmptySet
  <2>2. Cardinality(X) = 0 => X = {}
    BY <1>4, FS_EmptySet
  <2>. QED BY <2>1, <2>2
<1>. QED BY <1>5, <1>6 DEF q, X, o

\* What a status says.
LEMMA StatusIs ==
    ASSUME NEW stat, NEW hasEqual
    PROVE  /\ StatusOf(stat, hasEqual) = "unchanged" => stat.added = 0 /\ stat.removed = 0
           /\ StatusOf(stat, hasEqual) = "added" => stat.removed = 0 /\ ~hasEqual
<1>. DEFINE p == stat.added = 0
            q == stat.removed = 0
<1>1. CASE p /\ q
  <2>1. StatusOf(stat, hasEqual) = "unchanged"
    BY <1>1 DEF StatusOf
  <2>. QED BY <1>1, <2>1
<1>2. CASE ~p /\ q /\ ~hasEqual
  <2>1. StatusOf(stat, hasEqual) = "added"
    BY <1>2 DEF StatusOf
  <2>. QED BY <1>2, <2>1
<1>3. CASE p /\ ~q /\ ~hasEqual
  <2>1. StatusOf(stat, hasEqual) = "removed"
    BY <1>3 DEF StatusOf
  <2>. QED BY <2>1
<1>4. CASE ~(p /\ q) /\ ~(~p /\ q /\ ~hasEqual) /\ ~(p /\ ~q /\ ~hasEqual)
  <2>1. StatusOf(stat, hasEqual) = "modified"
    BY <1>4 DEF StatusOf
  <2>. QED BY <2>1
<1>. QED BY <1>1, <1>2, <1>3, <1>4

\* As many lines of section t are inserted as it has.
AllNew(s, b, bodies, o, t) ==
    Cardinality(Into(Marked(s, "+"), o, t)) = Len(Sifted(b, LinesOf(b, bodies, t)))

\* A section all of whose edits insert has no other lines.
LEMMA AllInserted ==
    ASSUME NEW a, NEW b, IsSeq(b), NEW s, NEW I, NEW J, Steps(a, b, s, I, J), NEW bodies, NEW t,
           NEW o, o = Owners(s, bodies),
           Into(Marked(s, " "), o, t) = {}, Into(Marked(s, "-"), o, t) = {}
    PROVE  AllNew(s, b, bodies, o, t)
<1>. DEFINE E == SectionEdits(s, J, b, bodies, t)
            X == Into(Marked(s, "+"), o, t)
            T == LinesOf(b, bodies, t)
<1>1. /\ \A k \in 1..Len(s) : New(s[k]) => (k \in E <=> o[k] = t)
      /\ \A k \in E : k \in 1..Len(s) /\ New(s[k])
      /\ Cardinality(E) = Cardinality(T)
  <2>1. OwnEdits(s, J, b, bodies, t, E)
    BY SectionEditsAre
  <2>. HIDE DEF E
  <2>. QED BY <2>1 DEF OwnEdits
<1>. HIDE DEF E
<1>2. ASSUME NEW k \in 1..Len(s), o[k] = t PROVE s[k].op = "+"
  <2>1. s[k].op \in {" ", "-", "+"}
    BY OpIs
  <2>2. s[k].op # " " /\ s[k].op # "-"
    BY <1>2 DEF Into, Marked
  <2>. QED BY <2>1, <2>2
<1>3. ASSUME NEW k \in X PROVE k \in E
  <2>1. k \in 1..Len(s) /\ s[k].op = "+" /\ o[k] = t
    BY DEF Into, Marked
  <2>2. New(s[k])
    BY <2>1 DEF New
  <2>. QED BY <1>1, <2>1, <2>2
<1>4. ASSUME NEW k \in E PROVE k \in X
  <2>1. k \in 1..Len(s) /\ o[k] = t
    BY <1>1
  <2>2. s[k].op = "+"
    BY <1>2, <2>1
  <2>. QED BY <2>1, <2>2 DEF Into, Marked
<1>5. X = E
  <2>. HIDE DEF X
  <2>. QED BY <1>3, <1>4
<1>6. Len(Sifted(b, T)) = Cardinality(T)
  <2>1. T \in SUBSET (1..Len(b))
    BY DEF LinesOf
  <2>. HIDE DEF T
  <2>. QED BY <2>1, CollectedLen
<1>. QED BY <1>1, <1>5, <1>6 DEF AllNew

\* q: the lines of b from lo to hi.
PieceOf(b, lo, hi, q) ==
    IsSeq(q) /\ Len(q) = hi - lo + 1 /\ \A d \in 0..hi - lo : q[d + 1] = b[lo + d]

\* The lines of a piece, collected.
LEMMA PieceCollected ==
    ASSUME NEW b, IsSeq(b), NEW lo \in 1..Len(b), NEW hi \in lo..Len(b), NEW T, T = lo..hi
    PROVE  PieceOf(b, lo, hi, Sifted(b, T))
<1>. DEFINE n == Len(b)
            q == Sifted(b, T)
            c == [k \in 0..n |-> IF k < lo THEN 0 ELSE IF k <= hi THEN k - lo + 1 ELSE hi - lo + 1]
<1>1. n \in Nat /\ lo \in Nat /\ hi \in Nat /\ lo >= 1 /\ lo <= hi /\ hi <= n
  BY SeqFacts
<1>. HIDE DEF n
<1>2. \A k \in 0..n : /\ k < lo => c[k] = 0
                      /\ ~(k < lo) /\ k <= hi => c[k] = k - lo + 1
                      /\ ~(k <= hi) => c[k] = hi - lo + 1
  BY <1>1
<1>3. c \in [0..n -> Nat]
  BY <1>1
<1>. HIDE DEF c
<1>4. ASSUME NEW k \in 1..n
      PROVE  (k \in T => c[k] = c[k - 1] + 1) /\ (k \notin T => c[k] = c[k - 1])
  <2>1. k \in 0..n /\ k - 1 \in 0..n
    BY <1>1
  <2>2. CASE k < lo
    BY <1>1, <1>2, <2>1, <2>2
  <2>3. CASE k = lo
    BY <1>1, <1>2, <2>1, <2>3
  <2>4. CASE k > lo /\ k <= hi
    BY <1>1, <1>2, <2>1, <2>4
  <2>5. CASE k > hi
    BY <1>1, <1>2, <2>1, <2>5
  <2>. QED BY <1>1, <2>2, <2>3, <2>4, <2>5
<1>5. c[0] = 0 /\ 0 \in 0..n
  BY <1>1, <1>2
<1>6. Counts(n, T, c)
  BY <1>3, <1>4, <1>5 DEF Counts
<1>7. Ranked(b, T, q, c)
  BY <1>6, AtIs DEF n
<1>. HIDE DEF q
<1>8. IsSeq(q) /\ c[n] = Len(q) /\ \A k \in 1..n : k \in T => q[c[k]] = b[k]
  BY <1>7 DEF Ranked, n
<1>9. c[n] = hi - lo + 1
  <2>1. n \in 0..n /\ (n <= hi => n = hi) /\ ~(n < lo)
    BY <1>1
  <2>. QED BY <1>1, <1>2, <2>1
<1>10. ASSUME NEW d \in 0..hi - lo PROVE q[d + 1] = b[lo + d]
  <2>. DEFINE k == lo + d
  <2>1. k \in 1..n /\ k \in T /\ k \in 0..n /\ ~(k < lo) /\ k <= hi /\ k - lo + 1 = d + 1
    BY <1>1
  <2>. HIDE DEF k
  <2>2. c[k] = d + 1
    BY <1>2, <2>1
  <2>3. q[c[k]] = b[k]
    BY <1>8, <2>1
  <2>. QED BY <2>2, <2>3 DEF k
<1>. QED BY <1>8, <1>9, <1>10 DEF q, PieceOf

\* The lines that come between two of a walk, with what stands there.
LEMMA WalkGrows ==
    ASSUME NEW a, NEW b, NEW s, NEW I, NEW J, Steps(a, b, s, I, J), NEW k \in 0..Len(s)
    PROVE  \A m \in 0..Len(s) : k <= m => J[k] <= J[m]
<1>. DEFINE r == Behind(s, J)
<1>1. /\ Counts(Len(s), NewEdits(s), r) /\ \A m \in 0..Len(s) : r[m] = J[m] - 1 /\ J[m] \in Nat
  BY NewCounts
<1>2. Len(s) \in Nat
  BY DEF Steps
<1>. HIDE DEF r
<1>3. \A m \in 0..Len(s) : k <= m => r[k] <= r[m]
  BY <1>1, <1>2, CountGrows
<1>. QED BY <1>1, <1>3

\* Every line of the candidate is that of an edit.
LEMMA EditOf ==
    ASSUME NEW a, NEW b, NEW s, NEW I, NEW J, Steps(a, b, s, I, J), NEW j \in 1..Len(b)
    PROVE  \E k \in 1..Len(s) : New(s[k]) /\ J[k - 1] = j /\ J[k] = j + 1
<1>. DEFINE r == Behind(s, J)
            v == j - 1
<1>1. /\ Counts(Len(s), NewEdits(s), r) /\ \A m \in 0..Len(s) : r[m] = J[m] - 1 /\ J[m] \in Nat
      /\ r[Len(s)] = Len(b)
  BY NewCounts
<1>2. Len(s) \in Nat /\ Len(b) \in Nat
  BY DEF Steps
<1>. HIDE DEF r
<1>3. v \in Nat /\ v < r[Len(s)] /\ v + 1 = j
  BY <1>1, <1>2
<1>. HIDE DEF v
<1>4. PICK k \in 1..Len(s) : k \in NewEdits(s) /\ r[k - 1] = v /\ r[k] = v + 1
  BY <1>1, <1>2, <1>3, CountHits
<1>5. k \in 0..Len(s) /\ k - 1 \in 0..Len(s)
  BY <1>2
<1>6. J[k - 1] = j /\ J[k] = j + 1
  <2>1. J[k - 1] - 1 = v /\ J[k] - 1 = v + 1 /\ J[k - 1] \in Nat /\ J[k] \in Nat
    BY <1>1, <1>4, <1>5
  <2>. QED BY <1>3, <2>1
<1>7. New(s[k])
  BY <1>4 DEF NewEdits
<1>. QED BY <1>6, <1>7

\* The lines of a section come one after the other.
LEMMA LinesTogether ==
    ASSUME NEW b, IsSeq(b), NEW bodies, IsSeq(bodies), bodies # <<>>,
           \A s \in 1..Len(bodies) : IsSeq(bodies[s]), NEW t, LinesOf(b, bodies, t) # {}
    PROVE  \E lo \in 1..Len(b) : \E hi \in lo..Len(b) : LinesOf(b, bodies, t) = lo..hi
<1>. DEFINE T == LinesOf(b, bodies, t)
            At1(k) == lineOf(bodies, k)
<1>1. Len(b) \in Nat
  BY SeqFacts
<1>2. T \in SUBSET Nat /\ T \in SUBSET (0..Len(b)) /\ T \in SUBSET (1..Len(b))
  BY <1>1 DEF LinesOf
<1>3. \A k \in 1..Len(b) : k \in T <=> At1(k) = t
  BY DEF LinesOf
<1>4. Len(bodies) \in Nat /\ \A k : At1(k) \in 1..Len(bodies)
  BY SeqFacts, LineOfIs
<1>5. \A i, j \in Nat : i <= j => At1(i) <= At1(j)
  BY LineOfGrows
<1>. HIDE DEF T, At1
<1>6. PICK lo \in T : \A k \in T : lo <= k
  BY <1>2, Least DEF T
<1>7. PICK hi \in T : \A k \in T : k <= hi
  BY <1>1, <1>2, Greatest DEF T
<1>8. lo \in 1..Len(b) /\ hi \in lo..Len(b)
  BY <1>1, <1>2, <1>6, <1>7
<1>9. ASSUME NEW k \in lo..hi PROVE k \in T
  <2>1. k \in 1..Len(b) /\ k \in Nat /\ lo \in Nat /\ hi \in Nat /\ lo <= k /\ k <= hi
    BY <1>1, <1>8
  <2>2. At1(lo) <= At1(k) /\ At1(k) <= At1(hi) /\ At1(lo) = t /\ At1(hi) = t
    BY <1>3, <1>5, <1>6, <1>7, <1>8, <2>1, <1>2
  <2>3. At1(k) \in Nat /\ At1(lo) \in Nat
    BY <1>4
  <2>4. At1(k) = t
    BY <2>2, <2>3
  <2>. QED BY <1>3, <2>1, <2>4
<1>10. ASSUME NEW k \in T PROVE k \in lo..hi
  BY <1>2, <1>6, <1>7
<1>11. T = lo..hi
  BY <1>9, <1>10
<1>. QED BY <1>8, <1>11 DEF T

\* A section none of whose lines changes stands in the old text as it is.
LEMMA UnchangedStands ==
    ASSUME NEW a, IsSeq(a), NEW b, IsSeq(b), NEW s, NEW I, NEW J, Steps(a, b, s, I, J),
           NEW bodies, IsSeq(bodies), bodies # <<>>, \A r \in 1..Len(bodies) : IsSeq(bodies[r]),
           NEW t, NEW o, o = Owners(s, bodies),
           Into(Marked(s, "+"), o, t) = {}, Into(Marked(s, "-"), o, t) = {}
    PROVE  StandsIn(Sifted(b, LinesOf(b, bodies, t)), a)
<1>. DEFINE T == LinesOf(b, bodies, t)
            run == Sifted(b, T)
<1>0. Len(a) \in Nat /\ Len(b) \in Nat /\ Len(s) \in Nat
  BY DEF Steps
<1>1. T \in SUBSET (1..Len(b)) /\ \A k \in T : lineOf(bodies, k) = t
  BY DEF LinesOf
<1>2. T # {} => \E lo \in 1..Len(b) : \E hi \in lo..Len(b) : T = lo..hi
  BY LinesTogether
<1>3. ASSUME NEW k \in 1..Len(s), o[k] = t PROVE ~IsChange(s[k].op)
  <2>1. s[k].op \in {" ", "-", "+"}
    BY OpIs
  <2>2. s[k].op # "+" /\ s[k].op # "-"
    BY <1>3 DEF Into, Marked
  <2>. QED BY <2>1, <2>2 DEF IsChange
<1>. HIDE DEF T
<1>4. CASE T = {}
  <2>1. IsSeq(run) /\ Len(run) = 0
    <3>1. IsSeq(run) /\ Len(run) = Cardinality(T)
      BY <1>1, CollectedLen
    <3>2. Cardinality(T) = 0
      BY <1>4, FS_EmptySet
    <3>. QED BY <3>1, <3>2
  <2>2. run = <<>>
    BY <2>1, NoneIs
  <2>. HIDE DEF run
  <2>3. SubSeq(a, 1, 0) = <<>>
    BY WholeIs
  <2>. DEFINE z == 0
  <2>4. z \in 0..Len(a) - Len(run) /\ z + 1 = 1 /\ z + Len(run) = 0
    BY <1>0, <2>1
  <2>. HIDE DEF z
  <2>5. SubSeq(a, z + 1, z + Len(run)) = run
    BY <2>2, <2>3, <2>4
  <2>6. StandsIn(run, a)
    BY <2>4, <2>5 DEF StandsIn
  <2>. QED BY <2>6 DEF run, T
<1>5. CASE T # {}
  <2>1. PICK lo \in 1..Len(b) : \E hi \in lo..Len(b) : T = lo..hi
    BY <1>2, <1>5
  <2>2. PICK hi \in lo..Len(b) : T = lo..hi
    BY <2>1
  <2>3. IsSeq(run) /\ Len(run) = hi - lo + 1 /\ \A d \in 0..hi - lo : run[d + 1] = b[lo + d]
    <3>1. PieceOf(b, lo, hi, Sifted(b, T))
      BY <2>2, PieceCollected
    <3>. HIDE DEF run
    <3>2. PieceOf(b, lo, hi, run)
      BY <3>1 DEF run
    <3>. QED BY <3>2 DEF PieceOf
  <2>. HIDE DEF run
  <2>4. lo \in Nat /\ hi \in Nat /\ lo <= hi /\ lo >= 1 /\ hi \in 1..Len(b)
    BY <1>0
  <2>5. PICK P \in 1..Len(s) : J[P - 1] = lo /\ J[P] = lo + 1
    BY EditOf
  <2>6. PICK Q \in 1..Len(s) : J[Q - 1] = hi /\ J[Q] = hi + 1
    BY <2>4, EditOf
  <2>7. P <= Q
    <3>1. ASSUME Q < P PROVE FALSE
      <4>1. Q \in 0..Len(s) /\ P - 1 \in 0..Len(s) /\ Q <= P - 1
        BY <1>0, <3>1
      <4>2. J[Q] <= J[P - 1]
        BY <4>1, WalkGrows
      <4>. QED BY <2>4, <2>5, <2>6, <4>2
    <3>. QED BY <1>0, <3>1
  <2>8. ASSUME NEW k \in P..Q PROVE ~IsChange(s[k].op)
    <3>1. k \in 1..Len(s) /\ k \in 0..Len(s) /\ P \in 0..Len(s)
          /\ Q \in 0..Len(s) /\ P <= k /\ k <= Q
      BY <1>0, <2>7
    <3>2. J[P] <= J[k] /\ J[k] <= J[Q]
      BY <3>1, WalkGrows
    <3>3. J[k] \in Nat
      BY <3>1 DEF Steps
    <3>4. J[k] > 1 /\ J[k] - 1 \in lo..hi
      BY <2>4, <2>5, <2>6, <3>2, <3>3
    <3>5. o[k] = lineOf(bodies, J[k] - 1)
      BY <3>1, <3>4, OwnerIs
    <3>6. o[k] = t
      BY <1>1, <2>2, <3>4, <3>5
    <3>. QED BY <1>3, <3>1, <3>6
  <2>. DEFINE x == P - 1
              u == hi - lo + 1
              i == I[x]
              m == i - 1
  <2>9. x \in 0..Len(s) /\ Q \in x..Len(s) /\ x + 1 = P /\ u \in Nat /\ u - 1 = hi - lo
    BY <1>0, <2>4, <2>7
  <2>10. J[x] = lo /\ J[Q] = hi + 1
    BY <2>5, <2>6
  <2>11. i \in 1..Len(a) + 1 /\ I[Q] \in 1..Len(a) + 1
    BY <2>9 DEF Steps
  <2>. HIDE DEF x
  <2>12. /\ I[Q] = I[x] + (Q - x) /\ J[Q] = J[x] + (Q - x)
         /\ \A d \in 0..Q - x - 1 : a[I[x] + d] = b[J[x] + d]
    <3>1. \A k \in x + 1..Q : ~IsChange(s[k].op)
      BY <2>8, <2>9
    <3>2. Together(a, b, I, J, x, Q)
      BY <2>9, <3>1, Still
    <3>. QED BY <3>2 DEF Together
  <2>13. Q - x = u
    BY <1>0, <2>4, <2>9, <2>10, <2>12
  <2>14. I[Q] = i + u /\ \A d \in 0..u - 1 : a[i + d] = b[lo + d]
    BY <2>10, <2>12, <2>13
  <2>. HIDE DEF i, u
  <2>15. m \in Nat /\ m + u <= Len(a) /\ m + 1 = i
    BY <1>0, <2>9, <2>11, <2>14
  <2>16. \A d \in Nat : i + d = m + (d + 1)
    BY <2>11
  <2>. HIDE DEF m
  <2>. DEFINE v == SubSeq(a, m + 1, m + u)
  <2>17. IsSeq(v) /\ Len(v) = u /\ \A k \in 1..u : v[k] = a[m + k]
    BY <2>9, <2>15, StretchIs
  <2>. HIDE DEF v
  <2>18. Len(run) = u
    BY <2>3 DEF u
  <2>19. ASSUME NEW k \in 1..u PROVE v[k] = run[k]
    <3>. DEFINE d == k - 1
    <3>1. d \in 0..u - 1 /\ d \in 0..hi - lo /\ d + 1 = k /\ d \in Nat
      BY <2>9
    <3>. HIDE DEF d
    <3>2. a[m + (d + 1)] = b[lo + d]
      BY <2>14, <2>16, <3>1
    <3>. QED BY <2>3, <2>17, <3>1, <3>2
  <2>20. v = run
    BY <2>3, <2>17, <2>18, <2>19, SameSeq
  <2>21. m \in 0..Len(a) - Len(run)
    BY <1>0, <2>9, <2>15, <2>18
  <2>22. SubSeq(a, m + 1, m + Len(run)) = run
    BY <2>18, <2>20 DEF v
  <2>23. StandsIn(run, a)
    BY <2>21, <2>22 DEF StandsIn
  <2>. QED BY <2>23 DEF run, T
<1>. QED BY <1>4, <1>5
-----------------------------------------------------------------------------
(* The difference is faithful.                                              *)

\* What the property asks of two texts, their hunks and the sections of the candidate.
Faithful(a, b, hs, files, bodies) ==
    /\ Patched(a, hs) = b
    /\ hs = <<>> <=> a = b
    /\ \A S \in Alignments(a, b) : Len(b) - Cardinality(S) >= Stat(hs).added
    /\ Total(files, "added") = Stat(hs).added /\ Total(files, "removed") = Stat(hs).removed
    /\ \A t \in 1..Len(bodies) :
          /\ files[t].status = "unchanged" => StandsIn(Sifted(b, LinesOf(b, bodies, t)), a)
          /\ files[t].status = "added" =>
                files[t].stat.added = Len(Sifted(b, LinesOf(b, bodies, t)))

\* The script adds no more lines than it must.
LEMMA ShortestIs ==
    ASSUME NEW a, IsSeq(a), NEW b, IsSeq(b), NEW c \in Nat, NEW S \in Alignments(a, b)
    PROVE  Len(b) - Cardinality(S) >= Stat(hunks(lcsScript(a, b), c)).added
<1>. DEFINE s == lcsScript(a, b)
            x == Cardinality(Marked(s, "+"))
            y == Cardinality(S)
            l == lengths(a, b)[<<1, 1>>]
            n == Len(b)
<1>1. PICK I, J : Walk(a, b, s, I, J)
  BY ScriptWalks
<1>. HIDE DEF s
<1>2. IsSeq(s)
  BY <1>1, WalkSteps DEF Steps
<1>3. Stat(hunks(s, c)).added = x /\ x \in Nat
  BY <1>2, StatIs, MarkedIs
<1>4. x + l = n
  <2>1. Cardinality({k \in 1..Len(s) : s[k].op = "+"}) + l = n
    BY <1>1, AddedAre
  <2>2. {k \in 1..Len(s) : s[k].op = "+"} = Marked(s, "+")
    BY DEF Marked
  <2>. HIDE DEF l, n
  <2>. QED BY <2>1, <2>2
<1>5. y \in Nat /\ y <= l
  BY AlignmentsFit
<1>6. n \in Nat /\ l \in Nat
  <2>1. Table(a, b, lengths(a, b))
    BY LengthsAre
  <2>2. n \in Nat /\ Len(a) \in Nat
    BY SeqFacts
  <2>3. <<1, 1>> \in Row(a) \X Row(b)
    BY <2>2 DEF Row
  <2>. QED BY <2>1, <2>2, <2>3 DEF Table
<1>. HIDE DEF x, y, l, n
<1>7. n - y >= x
  BY <1>3, <1>4, <1>5, <1>6
<1>. QED BY <1>3, <1>7 DEF n, y, s

\* What the status of a section says of its edits.
LEMMA StatusSays ==
    ASSUME NEW s, IsSeq(s), NEW bodies, NEW t, NEW c \in Nat, NEW file,
           file = FileChange(PerSec(s, bodies, t), c), NEW o, o = Owners(s, bodies)
    PROVE  /\ file.status = "unchanged" =>
                 Into(Marked(s, "+"), o, t) = {} /\ Into(Marked(s, "-"), o, t) = {}
           /\ file.status = "added" =>
                 Into(Marked(s, " "), o, t) = {} /\ Into(Marked(s, "-"), o, t) = {}
<1>. DEFINE q == PerSec(s, bodies, t)
            stat == Stat(hunks(q, c))
            same == \E k \in DOMAIN q : q[k].op = " "
<1>1. file.status = StatusOf(stat, same)
  BY Zenon DEF FileChange
<1>2. IsSeq(q) /\ \A op : Marked(q, op) = {} => Into(Marked(s, op), o, t) = {}
  BY PerSecCounts
<1>. HIDE DEF q
<1>3. stat.added = Cardinality(Marked(q, "+")) /\ stat.removed = Cardinality(Marked(q, "-"))
  BY <1>2, StatIs
<1>4. ASSUME NEW op, Cardinality(Marked(q, op)) = 0 PROVE Into(Marked(s, op), o, t) = {}
  <2>1. IsFiniteSet(Marked(q, op))
    BY <1>2, MarkedIs
  <2>2. Marked(q, op) = {}
    BY <1>4, <2>1, FS_EmptySet
  <2>. QED BY <1>2, <2>2
<1>5. ASSUME ~same PROVE Into(Marked(s, " "), o, t) = {}
  <2>1. DOMAIN q = 1..Len(q)
    BY <1>2, SeqFacts
  <2>2. Marked(q, " ") = {}
    BY <1>5, <2>1 DEF Marked
  <2>. QED BY <1>2, <2>2
<1>. HIDE DEF same, stat
<1>6. ASSUME file.status = "unchanged"
      PROVE  Into(Marked(s, "+"), o, t) = {} /\ Into(Marked(s, "-"), o, t) = {}
  <2>1. stat.added = 0 /\ stat.removed = 0
    BY <1>1, <1>6, StatusIs
  <2>. QED BY <1>3, <1>4, <2>1
<1>7. ASSUME file.status = "added"
      PROVE  Into(Marked(s, " "), o, t) = {} /\ Into(Marked(s, "-"), o, t) = {}
  <2>1. stat.removed = 0 /\ ~same
    BY <1>1, <1>7, StatusIs
  <2>. QED BY <1>3, <1>4, <1>5, <2>1
<1>. QED BY <1>6, <1>7

\* Of a text on disk and a candidate, any of them.
LEMMA DiffFaithful ==
    ASSUME NEW text, IsSeq(text), NEW bodies, IsSeq(bodies), bodies # <<>>,
           \A r \in 1..Len(bodies) : IsSeq(bodies[r]), NEW c \in Nat
    PROVE  Faithful(splitLines(text), splitLines(Logical(bodies)), Diff(text, Logical(bodies), c),
                    SectionDiff(text, bodies, c), bodies)
<1>. DEFINE a == splitLines(text)
            b == splitLines(Logical(bodies))
            s == lcsScript(a, b)
            hs == Diff(text, Logical(bodies), c)
            files == SectionDiff(text, bodies, c)
            o == Owners(s, bodies)
<1>1. IsSeq(Logical(bodies))
  <2>1. PICK f : Stacks(bodies, f)
    BY LogicalStacks
  <2>2. Len(bodies) \in Nat
    BY SeqFacts
  <2>3. Len(bodies) \in 0..Len(bodies)
    BY <2>2
  <2>. QED BY <2>1, <2>3 DEF Stacks
<1>2. IsSeq(a) /\ IsSeq(b)
  BY <1>1, LinesAre
<1>3. text = Logical(bodies) => a = b
  OBVIOUS
<1>4. hs = IF text = Logical(bodies) THEN <<>> ELSE hunks(s, c)
  BY Zenon DEF Diff
<1>5. \A t \in 1..Len(bodies) : files[t] = FileChange(PerSec(s, bodies, t), c)
  BY FilesAre
<1>6. ASSUME NEW r, r = s, IsSeq(r)
      PROVE  /\ Total(files, "added") = Stat(hunks(r, c)).added
             /\ Total(files, "removed") = Stat(hunks(r, c)).removed
  BY <1>6, TotalsAre
<1>. HIDE DEF a, b, files, hs
<1>7. PICK I, J : Walk(a, b, s, I, J)
  BY <1>2, ScriptWalks
<1>8. \A S \in Alignments(a, b) : Len(b) - Cardinality(S) >= Stat(hunks(s, c)).added
  BY <1>2, ShortestIs
<1>. HIDE DEF s
<1>9. Steps(a, b, s, I, J)
  BY <1>2, <1>7, WalkSteps
<1>10. IsSeq(s)
  BY <1>9 DEF Steps
<1>11. hunks(s, c) = <<>> <=> a = b
  BY <1>2, <1>7, NoHunkIsSame
<1>12. hs = hunks(s, c)
  BY <1>3, <1>4, <1>11
<1>13. Patched(a, hs) = b
  BY <1>2, <1>7, <1>12, PatchIs
<1>14. /\ Total(files, "added") = Stat(hs).added
       /\ Total(files, "removed") = Stat(hs).removed
  BY <1>6, <1>10, <1>12
<1>15. ASSUME NEW t \in 1..Len(bodies), files[t].status = "unchanged"
       PROVE  StandsIn(Sifted(b, LinesOf(b, bodies, t)), a)
  <2>1. Into(Marked(s, "+"), o, t) = {} /\ Into(Marked(s, "-"), o, t) = {}
    BY <1>5, <1>10, <1>15, StatusSays
  <2>. QED BY <1>2, <1>9, <2>1, UnchangedStands
<1>16. ASSUME NEW t \in 1..Len(bodies), files[t].status = "added"
       PROVE  files[t].stat.added = Len(Sifted(b, LinesOf(b, bodies, t)))
  <2>1. Into(Marked(s, " "), o, t) = {} /\ Into(Marked(s, "-"), o, t) = {}
    BY <1>5, <1>10, <1>16, StatusSays
  <2>2. Cardinality(Into(Marked(s, "+"), o, t)) = Len(Sifted(b, LinesOf(b, bodies, t)))
    <3>. DEFINE w == o
    <3>1. /\ w = Owners(s, bodies)
          /\ Into(Marked(s, " "), w, t) = {} /\ Into(Marked(s, "-"), w, t) = {}
      BY <2>1
    <3>. HIDE DEF w
    <3>2. AllNew(s, b, bodies, w, t)
      BY <1>2, <1>9, <3>1, AllInserted
    <3>. QED BY <3>2 DEF w, AllNew
  <2>3. files[t].stat.added = Cardinality(Into(Marked(s, "+"), o, t))
    BY <1>5, <1>10, SectionCounts
  <2>. QED BY <2>2, <2>3
<1>17. Faithful(a, b, hs, files, bodies)
  BY <1>8, <1>11, <1>12, <1>13, <1>14, <1>15, <1>16 DEF Faithful
<1>. QED BY <1>17 DEF a, b, hs, files
-----------------------------------------------------------------------------
(* The page.                                                                *)

\* What is a sequence to the assumption is one here.
LEMMA SequenceIs == ASSUME NEW s, IsSequence(s) PROVE IsSeq(s)
BY SeqIs DEF IsSequence

\* What the page may hold.
PageTypeOK == page \in [live : Texts \cup {<<>>}, bodies : Layouts, context : Contexts,
                        shown : BOOLEAN]

\* The page is empty at first, and its sides come from the files and the model.
LEMMA PageTyped == ChangesSpec => []PageTypeOK
<1>1. ChangesInit => PageTypeOK
  BY DEF ChangesInit, PageTypeOK
<1>2. PageTypeOK /\ [ChangesNext]_page => PageTypeOK'
  <2>. SUFFICES ASSUME PageTypeOK, [ChangesNext]_page PROVE PageTypeOK'
    OBVIOUS
  <2>1. CASE FilesChange
    BY <2>1 DEF FilesChange, PageTypeOK
  <2>2. CASE ModelChanges
    BY <2>2 DEF ModelChanges, PageTypeOK
  <2>3. CASE handleChanges
    BY <2>3 DEF handleChanges, PageTypeOK
  <2>4. CASE UNCHANGED page
    BY <2>4 DEF PageTypeOK
  <2>. QED BY <2>1, <2>2, <2>3, <2>4 DEF ChangesNext
<1>. QED BY <1>1, <1>2, PTL DEF ChangesSpec

\* Of any text on disk and any candidate, whose hashes may agree.
LEMMA SidesFaithful ==
    ASSUME NEW live, IsSeq(live), NEW bodies, IsSeq(bodies), bodies # <<>>,
           \A r \in 1..Len(bodies) : IsSeq(bodies[r]), NEW c \in Nat,
           NEW text, text = MaskPasswords(live), NEW own, own = Masked(bodies)
    PROVE  /\ Faithful(splitLines(text), splitLines(Logical(own)), Diff(text, Logical(own), c),
                       SectionDiff(text, own, c), own)
           /\ live = Logical(bodies) => Diff(text, Logical(own), c) = <<>>
           /\ DOMAIN own = 1..Len(own) /\ DOMAIN SectionDiff(text, own, c) = 1..Len(own)
           /\ DOMAIN splitLines(Logical(own)) = 1..Len(splitLines(Logical(own)))
<1>1. IsSeq(text)
  BY MaskIs
<1>2. /\ IsSeq(own) /\ own # <<>> /\ Len(own) = Len(bodies)
      /\ \A r \in 1..Len(bodies) : IsSeq(own[r])
  BY MaskedIs
<1>3. \A r \in 1..Len(own) : IsSeq(own[r])
  BY <1>2
<1>4. Faithful(splitLines(text), splitLines(Logical(own)), Diff(text, Logical(own), c),
               SectionDiff(text, own, c), own)
  BY <1>1, <1>2, <1>3, DiffFaithful
<1>5. ASSUME live = Logical(bodies) PROVE Diff(text, Logical(own), c) = <<>>
  <2>1. text = Logical(own)
    BY <1>5, MaskedLogical
  <2>. QED BY <2>1 DEF Diff
<1>6. DOMAIN own = 1..Len(own)
  BY <1>2, SeqFacts
<1>7. DOMAIN SectionDiff(text, own, c) = 1..Len(own)
  <2>1. DOMAIN SectionDiff(text, own, c) = DOMAIN own
    BY Zenon DEF SectionDiff
  <2>. QED BY <1>6, <2>1
<1>8. IsSeq(Logical(own))
  <2>1. PICK f : Stacks(own, f)
    BY <1>2, <1>3, LogicalStacks
  <2>2. Len(own) \in Nat
    BY <1>2, SeqFacts
  <2>3. Len(own) \in 0..Len(own)
    BY <2>2
  <2>. QED BY <2>1, <2>3 DEF Stacks
<1>9. DOMAIN splitLines(Logical(own)) = 1..Len(splitLines(Logical(own)))
  BY <1>8, LinesAre, SeqFacts
<1>. QED BY <1>4, <1>5, <1>6, <1>7, <1>9

\* What the page may hold is what the difference is faithful of.
LEMMA PageFaithful == PageTypeOK => DiffIsFaithful
<1>. SUFFICES ASSUME PageTypeOK PROVE DiffIsFaithful
  OBVIOUS
<1>. DEFINE live == page.live
            bodies == page.bodies
            c == page.context
            text == LiveText
            own == Candidate
            a == splitLines(text)
            b == splitLines(Logical(own))
            hs == Hunks
            files == Files
<1>1. live \in Texts \cup {<<>>} /\ bodies \in Layouts /\ c \in Nat
  BY ChangesAssumption DEF PageTypeOK
<1>2. IsSeq(live)
  BY <1>1, ChangesAssumption, SequenceIs, EmptyIs
<1>3. IsSeq(bodies) /\ bodies # <<>>
  BY <1>1, ChangesAssumption, SequenceIs
<1>4. \A r \in 1..Len(bodies) : IsSeq(bodies[r])
  <2>1. DOMAIN bodies = 1..Len(bodies)
    BY <1>3, SeqFacts
  <2>2. \A r \in DOMAIN bodies : IsSequence(bodies[r])
    BY <1>1, ChangesAssumption
  <2>. QED BY <2>1, <2>2, SequenceIs
<1>5. text = MaskPasswords(live) /\ own = Masked(bodies)
  BY DEF LiveText, Candidate, Masked
<1>6. hs = Diff(text, Logical(own), c) /\ files = SectionDiff(text, own, c)
  BY DEF Hunks, Files
<1>. HIDE DEF live, bodies, c, text, own
<1>7. /\ Faithful(a, b, Diff(text, Logical(own), c), SectionDiff(text, own, c), own)
      /\ live = Logical(bodies) => Diff(text, Logical(own), c) = <<>>
      /\ DOMAIN own = 1..Len(own) /\ DOMAIN SectionDiff(text, own, c) = 1..Len(own)
      /\ DOMAIN b = 1..Len(b)
  BY <1>1, <1>2, <1>3, <1>4, <1>5, SidesFaithful
<1>. HIDE DEF a, b, hs, files
<1>8. Faithful(a, b, hs, files, own)
  BY <1>6, <1>7
<1>9. \A t \in DOMAIN files : OwnLines(t) = Sifted(b, LinesOf(b, own, t))
  BY <1>7, Zenon DEF OwnLines, LinesOf, b, own
<1>10. InSync => hs = <<>>
  BY <1>6, <1>7 DEF InSync, live, bodies
<1>11. Identical <=> hs = <<>>
  BY DEF Identical, hs
<1>12. /\ Patched(a, hs) = b
       /\ hs = <<>> <=> a = b
       /\ \A S \in Alignments(a, b) : Len(b) - Cardinality(S) >= Stat(hs).added
       /\ Total(files, "added") = Stat(hs).added /\ Total(files, "removed") = Stat(hs).removed
  BY <1>8, Zenon DEF Faithful
<1>13. ASSUME NEW t \in DOMAIN files
       PROVE  /\ files[t].status = "unchanged" => StandsIn(OwnLines(t), a)
              /\ files[t].status = "added" => files[t].stat.added = Len(OwnLines(t))
  <2>1. t \in 1..Len(own)
    BY <1>6, <1>7
  <2>. QED BY <1>8, <1>9, <2>1, Zenon DEF Faithful
<1>. QED BY <1>10, <1>11, <1>12, <1>13, Zenon DEF DiffIsFaithful, a, b, hs, files, text, own

\* The patch of the page turns the lines on disk into those of the candidate with as few changes
\* as possible, none where they agree, its sections' counts add up, and what it says of each
\* section is so: lcsScript, hunks and SectionDiff of internal/render/diff.go, handleChanges of
\* internal/web/changes.go, for every text, layout and context.
THEOREM PageIsFaithful == ChangesSpec => []DiffIsFaithful
BY PageTyped, PageFaithful, PTL
=============================================================================
