---------------------------- MODULE ConfigProofs ----------------------------
(***************************************************************************)
(* What the renderer writes is a file BIRD finds every name in: each name  *)
(* once, before its use, but for the communities the lint tells of.  For   *)
(* all tables the handlers can leave behind.                               *)
(*                                                                         *)
(* The lemmas on sequences come first, which the proofs about routes cite  *)
(* too; then the symbols of statements and filters; then the sections, in  *)
(* the order of the file.                                                  *)
(***************************************************************************)
EXTENDS Lint, SequenceTheorems, WellFoundedInduction, FiniteSetTheorems, TLAPS

-----------------------------------------------------------------------------
(* Sequences.                                                               *)

\* A set of natural numbers that is not empty has a least one.
LEMMA Least ==
    ASSUME NEW S \in SUBSET Nat, S # {}
    PROVE  \E m \in S : \A k \in S : m <= k
<1>1. PICK m \in S : \A k \in S : ~(<<k, m>> \in OpToRel(<, Nat))
  BY WFMin, NatLessThanWellFounded, Zenon
<1>2. \A k \in S : ~(k < m)
  BY <1>1 DEF OpToRel
<1>. QED BY <1>2

\* What holds of 0 and carries over holds up to n.
LEMMA UpTo ==
    ASSUME NEW n \in Nat, NEW S, 0 \in S, \A k \in 0..n - 1 : k \in S => k + 1 \in S
    PROVE  \A k \in 0..n : k \in S
<1>. DEFINE T == {k \in 0..n : k \notin S}
<1>. SUFFICES ASSUME T # {} PROVE FALSE
  OBVIOUS
<1>1. T \in SUBSET Nat
  OBVIOUS
<1>2. PICK m \in T : \A k \in T : m <= k
  BY <1>1, Least
<1>3. m # 0 /\ m - 1 \in 0..n - 1 /\ m - 1 \notin T
  BY <1>2
<1>4. m - 1 \in S
  BY <1>3
<1>5. (m - 1) + 1 \in S
  BY <1>3, <1>4
<1>. QED BY <1>2, <1>5

IsSeq(s) == s \in Seq(Elements(s))

\* A sequence over a set is one over its own elements.
LEMMA SeqIs == ASSUME NEW S, NEW s \in Seq(S) PROVE IsSeq(s) /\ Elements(s) \subseteq S
<1>1. Len(s) \in Nat /\ DOMAIN s = 1..Len(s) /\ s \in [1..Len(s) -> S]
  BY LenProperties
<1>2. \A i \in 1..Len(s) : s[i] \in Elements(s)
  BY <1>1 DEF Elements
<1>3. s \in [1..Len(s) -> Elements(s)]
  BY <1>1, <1>2
<1>4. s \in Seq(Elements(s))
  BY <1>1, <1>3, IsASeq
<1>5. Elements(s) \subseteq S
  BY <1>1 DEF Elements
<1>. QED BY <1>4, <1>5 DEF IsSeq

\* The length, the elements and the places of two sequences put together.
LEMMA ConcatIs ==
    ASSUME NEW a, NEW b, IsSeq(a), IsSeq(b)
    PROVE  /\ IsSeq(a \o b) /\ Len(a) \in Nat /\ Len(b) \in Nat
           /\ Len(a \o b) = Len(a) + Len(b)
           /\ Elements(a \o b) = Elements(a) \cup Elements(b)
           /\ \A k \in 1..Len(a) : (a \o b)[k] = a[k]
           /\ \A k \in 1..Len(b) : (a \o b)[Len(a) + k] = b[k]
<1>. DEFINE S == Elements(a) \cup Elements(b)
<1>1. a \in Seq(S) /\ b \in Seq(S)
  BY SeqMonotonic DEF IsSeq
<1>. HIDE DEF S
<1>2. Len(a) \in Nat /\ Len(b) \in Nat /\ a \o b \in Seq(S) /\ Len(a \o b) = Len(a) + Len(b)
  BY <1>1, ConcatProperties, LenProperties
<1>3. \A i \in 1..Len(a) + Len(b) :
         (a \o b)[i] = IF i <= Len(a) THEN a[i] ELSE b[i - Len(a)]
  BY <1>1, ConcatProperties
<1>4. \A k \in 1..Len(a) : (a \o b)[k] = a[k]
  BY <1>2, <1>3
<1>5. \A k \in 1..Len(b) : (a \o b)[Len(a) + k] = b[k]
  BY <1>2, <1>3
<1>6. DOMAIN (a \o b) = 1..Len(a) + Len(b) /\ DOMAIN a = 1..Len(a) /\ DOMAIN b = 1..Len(b)
  BY <1>1, <1>2, LenProperties
<1>7. Elements(a \o b) = Elements(a) \cup Elements(b)
  <2>1. ASSUME NEW i \in 1..Len(a) + Len(b)
        PROVE  (a \o b)[i] \in Elements(a) \cup Elements(b)
    BY <1>2, <1>3, <1>6 DEF Elements
  <2>2. ASSUME NEW k \in 1..Len(a) PROVE a[k] \in Elements(a \o b)
    BY <1>2, <1>4, <1>6 DEF Elements
  <2>3. ASSUME NEW k \in 1..Len(b) PROVE b[k] \in Elements(a \o b)
    <3>1. Len(a) + k \in 1..Len(a) + Len(b) /\ (a \o b)[Len(a) + k] = b[k]
      BY <1>2, <1>5
    <3>. QED BY <3>1, <1>6 DEF Elements
  <2>4. Elements(a \o b) \subseteq Elements(a) \cup Elements(b)
    BY <2>1, <1>6 DEF Elements
  <2>5. Elements(a) \subseteq Elements(a \o b)
    BY <2>2, <1>6 DEF Elements
  <2>6. Elements(b) \subseteq Elements(a \o b)
    BY <2>3, <1>6 DEF Elements
  <2>. QED BY <2>4, <2>5, <2>6
<1>. QED BY <1>2, <1>4, <1>5, <1>7, SeqIs

\* A chain is run body by body.
LEMMA FlattenExists ==
    ASSUME NEW n \in Nat \ {0}, NEW seqs
    PROVE  \E f : f = [i \in 1..n |-> IF i = 1 THEN seqs[i] ELSE f[i - 1] \o seqs[i]]
<1>. DEFINE Good(m, f) == f = [i \in 1..m + 1 |-> IF i = 1 THEN seqs[i] ELSE f[i - 1] \o seqs[i]]
            S == {m \in 0..n - 1 : \E f : Good(m, f)}
<1>1. 0 \in S
  <2>. DEFINE g == [i \in 1..1 |-> seqs[1]]
  <2>1. \A i \in 1..0 + 1 : g[i] = IF i = 1 THEN seqs[i] ELSE g[i - 1] \o seqs[i]
    OBVIOUS
  <2>2. Good(0, g)
    BY <2>1
  <2>3. 0 \in 0..n - 1
    OBVIOUS
  <2>. HIDE DEF g
  <2>. QED BY <2>2, <2>3
<1>2. ASSUME NEW m \in 0..(n - 1) - 1, m \in S PROVE m + 1 \in S
  <2>1. PICK f : Good(m, f)
    BY <1>2
  <2>. DEFINE k == m + 2
              g == [i \in 1..k |-> IF i = k THEN f[k - 1] \o seqs[k] ELSE f[i]]
  <2>2. /\ k \in Nat /\ k > 1 /\ (m + 1) + 1 = k /\ m + 1 \in 0..n - 1 /\ k - 1 \in 1..m + 1
        /\ \A i \in 1..k : i = k \/ i \in 1..m + 1
    OBVIOUS
  <2>. HIDE DEF k
  <2>3. \A i \in 1..m + 1 : g[i] = f[i]
    BY <2>2
  <2>4. \A i \in 1..k : g[i] = IF i = 1 THEN seqs[i] ELSE g[i - 1] \o seqs[i]
    <3>. SUFFICES ASSUME NEW i \in 1..k
                  PROVE  g[i] = IF i = 1 THEN seqs[i] ELSE g[i - 1] \o seqs[i]
      OBVIOUS
    <3>1. CASE i = k
      <4>1. k \in 1..k /\ k - 1 \in 1..m + 1 /\ k # 1
        BY <2>2
      <4>2. g[k] = f[k - 1] \o seqs[k]
        BY <4>1
      <4>3. g[k - 1] = f[k - 1]
        BY <4>1, <2>3
      <4>. QED BY <4>1, <4>2, <4>3, <3>1
    <3>2. CASE i = 1
      <4>1. g[i] = f[i] /\ f[i] = seqs[i]
        BY <3>2, <2>1, <2>2, <2>3
      <4>. QED BY <4>1, <3>2
    <3>3. CASE i # k /\ i # 1
      <4>1. i \in 1..m + 1 /\ i - 1 \in 1..m + 1
        BY <3>3, <2>2
      <4>2. g[i] = f[i] /\ g[i - 1] = f[i - 1]
        BY <4>1, <2>3
      <4>3. f[i] = f[i - 1] \o seqs[i]
        BY <2>1, <3>3, <4>1
      <4>. QED BY <3>3, <4>2, <4>3
    <3>. QED BY <3>1, <3>2, <3>3
  <2>5. Good(m + 1, g)
    BY <2>2, <2>4
  <2>. HIDE DEF g
  <2>. QED BY <2>2, <2>5
<1>3. n - 1 \in S
  <2>. HIDE DEF S
  <2>1. n - 1 \in Nat
    OBVIOUS
  <2>2. \A k \in 0..n - 1 : k \in S
    BY <1>1, <1>2, <2>1, UpTo
  <2>. QED BY <2>2
<1>4. PICK f : Good(n - 1, f)
  BY <1>3
<1>5. (n - 1) + 1 = n
  OBVIOUS
<1>. QED BY <1>4, <1>5

\* The policies of a chain put together: FlattenSeq as the recursion it is defined by.
LEMMA FlattenIs ==
    ASSUME NEW n \in Nat, NEW seqs, DOMAIN seqs = 1..n, Len(seqs) = n, n # 0
    PROVE  \E f : /\ f[1] = seqs[1]
                  /\ \A i \in 2..n : f[i] = f[i - 1] \o seqs[i]
                  /\ Seqs!FlattenSeq(seqs) = f[n]
<1>. DEFINE f == CHOOSE g : g = [i \in 1..n |-> IF i = 1 THEN seqs[i] ELSE g[i - 1] \o seqs[i]]
<1>1. f = [i \in 1..n |-> IF i = 1 THEN seqs[i] ELSE f[i - 1] \o seqs[i]]
  <2>1. \E g : g = [i \in 1..n |-> IF i = 1 THEN seqs[i] ELSE g[i - 1] \o seqs[i]]
    <3>1. n \in Nat \ {0}
      OBVIOUS
    <3>. QED BY <3>1, FlattenExists
  <2>. QED BY <2>1, Zenon
<1>2. Seqs!FlattenSeq(seqs) = f[n]
  BY Zenon DEF Seqs!FlattenSeq
<1>. HIDE DEF f
<1>3. f[1] = seqs[1] /\ \A i \in 2..n : f[i] = f[i - 1] \o seqs[i]
  <2>1. 1 \in 1..n /\ \A i \in 2..n : i \in 1..n /\ i # 1
    OBVIOUS
  <2>2. \A i \in 1..n : f[i] = IF i = 1 THEN seqs[i] ELSE f[i - 1] \o seqs[i]
    BY <1>1
  <2>. QED BY <2>1, <2>2
<1>. QED BY <1>2, <1>3

\* The empty sequence.
LEMMA EmptyIs == IsSeq(<<>>) /\ Elements(<<>>) = {}
<1>1. <<>> \in Seq({0}) /\ <<>> \in Seq({1})
  OBVIOUS
<1>2. IsSeq(<<>>) /\ Elements(<<>>) \subseteq {0} /\ Elements(<<>>) \subseteq {1}
  BY <1>1, SeqIs
<1>. QED BY <1>2

\* A finite set as a sequence.
LEMMA SetIsSeq ==
    ASSUME NEW S, IsFiniteSet(S)
    PROVE  IsSeq(Seqs!SetToSeq(S)) /\ Elements(Seqs!SetToSeq(S)) = S
<1>. DEFINE n == Cardinality(S)
<1>1. n \in Nat /\ ExistsBijection(1..n, S)
  BY FS_CardinalityType
<1>2. PICK f : f \in Bijection(1..n, S)
  BY <1>1 DEF ExistsBijection
<1>3. f \in [1..n -> S] /\ \A a, b \in DOMAIN f : f[a] = f[b] => a = b
  BY <1>2 DEF Bijection, Injection, IsInjective
<1>4. Seqs!IsInjective(f)
  BY <1>3, Zenon DEF Seqs!IsInjective
<1>. DEFINE g == CHOOSE h \in [1..n -> S] : Seqs!IsInjective(h)
<1>5. g \in [1..n -> S] /\ Seqs!IsInjective(g) /\ Seqs!SetToSeq(S) = g
  <2>1. \E h : h \in [1..n -> S] /\ Seqs!IsInjective(h)
    BY <1>3, <1>4
  <2>2. g \in [1..n -> S] /\ Seqs!IsInjective(g)
    BY <2>1, Zenon
  <2>3. Seqs!SetToSeq(S) = g
    <3>1. Seqs!Cardinality(S) = Cardinality(S)
      BY DEF Seqs!Cardinality, Cardinality
    <3>. QED BY <3>1, Zenon DEF Seqs!SetToSeq
  <2>. QED BY <2>2, <2>3
<1>. HIDE DEF g
<1>6. g \in Surjection(1..n, S)
  <2>1. \A a, b \in 1..n : g[a] = g[b] => a = b
    <3>1. \A a, b \in DOMAIN g : g[a] = g[b] => a = b
      BY <1>5, Zenon DEF Seqs!IsInjective
    <3>. QED BY <1>5, <3>1
  <2>2. g \in Injection(1..n, S)
    BY <1>5, <2>1 DEF Injection, IsInjective
  <2>3. Cardinality(1..n) = n
    BY <1>1, FS_Interval
  <2>. QED BY <2>2, <2>3, FS_Injection
<1>7. \A x \in S : \E k \in 1..n : g[k] = x
  BY <1>6 DEF Surjection
<1>8. g \in Seq(S) /\ DOMAIN g = 1..n
  BY <1>1, <1>5
<1>9. S \subseteq Elements(g)
  BY <1>7, <1>8 DEF Elements
<1>. QED BY <1>5, <1>8, <1>9, SeqIs

\* The sequence of one statement.
LEMMA OneIs == ASSUME NEW e PROVE IsSeq(<<e>>) /\ Elements(<<e>>) = {e}
<1>1. <<e>> \in Seq({e}) /\ Len(<<e>>) = 1 /\ <<e>>[1] = e
  OBVIOUS
<1>2. DOMAIN <<e>> = 1..1
  OBVIOUS
<1>3. IsSeq(<<e>>) /\ Elements(<<e>>) \subseteq {e}
  BY <1>1, SeqIs
<1>4. e \in Elements(<<e>>)
  BY <1>1, <1>2 DEF Elements
<1>. QED BY <1>3, <1>4

Only(s, e) == IsSeq(s) /\ Elements(s) = {e}

\* A statement as the renderer writes it.
LEMMA StmtIs ==
    ASSUME NEW test, NEW arg, NEW do, NEW val, NEW syms
    PROVE  Only(Stmt(test, arg, do, val, syms),
                [test |-> test, arg |-> arg, do |-> do, val |-> val, uses |-> syms])
BY OneIs DEF Stmt, Only

\* The statements of two parts put together.
LEMMA Join ==
    ASSUME NEW a, NEW b, IsSeq(a), IsSeq(b)
    PROVE  IsSeq(a \o b) /\ Elements(a \o b) = Elements(a) \cup Elements(b)
BY ConcatIs

\* A part that is written only if it is asked for.
LEMMA OptIs ==
    ASSUME NEW given, NEW stmts, IsSeq(stmts)
    PROVE  /\ IsSeq(Opt(given, stmts)) /\ Elements(Opt(given, stmts)) \subseteq Elements(stmts)
           /\ given => Elements(Opt(given, stmts)) = Elements(stmts)
           /\ ~given => Elements(Opt(given, stmts)) = {}
BY EmptyIs DEF Opt

\* What is gathered from several sequences: all their elements, and no others.
Gathered(seqs) ==
    /\ IsSeq(Seqs!FlattenSeq(seqs))
    /\ Elements(Seqs!FlattenSeq(seqs)) = UNION {Elements(seqs[i]) : i \in 1..Len(seqs)}

\* FlattenSeq puts its parts one after the other.
LEMMA FlattenGathers ==
    ASSUME NEW T, NEW seqs \in Seq(T), NEW n, n = Len(seqs),
           \A i \in 1..n : IsSeq(seqs[i])
    PROVE  Gathered(seqs)
<1>. DEFINE Upto(k) == UNION {Elements(seqs[i]) : i \in 1..k}
<1>0. n \in Nat /\ DOMAIN seqs = 1..n
  BY LenProperties
<1>1. CASE n = 0
  <2>1. seqs = <<>>
    BY <1>1, EmptySeq
  <2>2. Seqs!FlattenSeq(seqs) = <<>>
    BY <1>1, <2>1, Zenon DEF Seqs!FlattenSeq
  <2>3. Upto(n) = {}
    BY <1>1
  <2>. QED BY <2>2, <2>3, EmptyIs DEF Gathered
<1>2. CASE n # 0
  <2>1. PICK f : /\ f[1] = seqs[1]
                 /\ \A i \in 2..n : f[i] = f[i - 1] \o seqs[i]
                 /\ Seqs!FlattenSeq(seqs) = f[n]
    <3>1. n \in Nat /\ DOMAIN seqs = 1..n /\ Len(seqs) = n /\ n # 0
      BY <1>0, <1>2
    <3>. QED BY <3>1, FlattenIs, Zenon
  <2>. DEFINE S == {k \in 0..n : k # 0 => IsSeq(f[k]) /\ Elements(f[k]) = Upto(k)}
  <2>2. 0 \in S
    BY <1>0
  <2>3. ASSUME NEW k \in 0..n - 1, k \in S PROVE k + 1 \in S
    <3>1. k + 1 \in 0..n /\ k + 1 \in 1..n /\ IsSeq(seqs[k + 1])
      BY <1>0, <2>3
    <3>2. CASE k = 0
      <4>1. Upto(1) = Elements(seqs[1])
        <5>1. 1..1 = {1}
          OBVIOUS
        <5>. QED BY <5>1
      <4>. QED BY <3>1, <3>2, <2>1, <4>1
    <3>3. CASE k # 0
      <4>1. k + 1 \in 2..n /\ (k + 1) - 1 = k /\ IsSeq(f[k]) /\ Elements(f[k]) = Upto(k)
        BY <1>0, <3>3, <2>3
      <4>2. f[k + 1] = f[k] \o seqs[k + 1]
        BY <4>1, <2>1
      <4>3. IsSeq(f[k + 1]) /\ Elements(f[k + 1]) = Elements(f[k]) \cup Elements(seqs[k + 1])
        BY <3>1, <4>1, <4>2, ConcatIs
      <4>4. Upto(k + 1) = Upto(k) \cup Elements(seqs[k + 1])
        <5>1. 1..k + 1 = 1..k \cup {k + 1}
          BY <1>0, <2>3
        <5>. QED BY <5>1
      <4>. QED BY <3>1, <4>1, <4>3, <4>4
    <3>. QED BY <3>2, <3>3
  <2>4. \A k \in 0..n : k \in S
    <3>. HIDE DEF S
    <3>. QED BY <1>0, <2>2, <2>3, UpTo
  <2>5. IsSeq(f[n]) /\ Elements(f[n]) = Upto(n)
    BY <1>0, <1>2, <2>4
  <2>. QED BY <2>1, <2>5 DEF Gathered
<1>. QED BY <1>1, <1>2

-----------------------------------------------------------------------------
(* The symbols of statements and filters.                                   *)

\* Every symbol that the statements mention is one of K.
Mentions(s, K) == IsSeq(s) /\ \A e \in Elements(s) : e.uses \subseteq K

\* No statements mention nothing.
LEMMA MentionsNone == ASSUME NEW K PROVE Mentions(<<>>, K)
BY EmptyIs DEF Mentions

\* The statement that the renderer writes mentions the symbols it is given.
LEMMA MentionsStmt ==
    ASSUME NEW test, NEW arg, NEW do, NEW val, NEW K, NEW syms \in SUBSET K
    PROVE  Mentions(Stmt(test, arg, do, val, syms), K)
<1>. DEFINE e == [test |-> test, arg |-> arg, do |-> do, val |-> val, uses |-> syms]
<1>1. e.uses = syms
  OBVIOUS
<1>. HIDE DEF e
<1>2. Only(Stmt(test, arg, do, val, syms), e)
  BY StmtIs DEF e
<1>. QED BY <1>1, <1>2 DEF Mentions, Only

\* So do its shorthands.
LEMMA MentionsShort ==
    ASSUME NEW test, NEW arg, NEW do, NEW val, NEW K, NEW syms \in SUBSET K
    PROVE  /\ Mentions(RejectIf(test, arg, syms), K)
           /\ Mentions(AcceptIf(test, arg, syms), K)
           /\ Mentions(Always(do, val, syms), K)
BY MentionsStmt DEF RejectIf, AcceptIf, Always

\* Two parts of a filter put together.
LEMMA MentionsJoin ==
    ASSUME NEW K, NEW a, NEW b, Mentions(a, K), Mentions(b, K)
    PROVE  Mentions(a \o b, K)
BY Join DEF Mentions

\* A part that is written only if it is asked for.
LEMMA MentionsOpt ==
    ASSUME NEW K, NEW given, NEW s, given => Mentions(s, K)
    PROVE  Mentions(Opt(given, s), K)
BY MentionsNone DEF Opt

\* What a list of statements uses, as Config collects it.
LEMMA UsesAre ==
    ASSUME NEW K, NEW s, Mentions(s, K)
    PROVE  UsesOf(s) \subseteq K
BY DEF Mentions, UsesOf, Elements

\* A statement for each member of a set.
LEMMA MentionsEach ==
    ASSUME NEW K, NEW S, IsFiniteSet(S), NEW g,
           DOMAIN g = DOMAIN Seqs!SetToSeq(S),
           g = [i \in DOMAIN g |-> g[i]],
           \A i \in DOMAIN g : Seqs!SetToSeq(S)[i] \in S => g[i].uses \subseteq K
    PROVE  Mentions(g, K)
<1>. DEFINE s == Seqs!SetToSeq(S)
<1>1. IsSeq(s) /\ Elements(s) = S
  BY SetIsSeq
<1>. HIDE DEF s
<1>2. Len(s) \in Nat /\ DOMAIN s = 1..Len(s)
  BY <1>1, LenProperties DEF IsSeq
<1>3. \A i \in DOMAIN s : s[i] \in S
  BY <1>1 DEF Elements
<1>4. g \in Seq({g[i] : i \in DOMAIN s})
  <2>. DEFINE T == {g[i] : i \in DOMAIN s}
  <2>1. g \in [1..Len(s) -> T]
    BY <1>2 DEF s
  <2>. HIDE DEF T
  <2>. QED BY <1>2, <2>1, IsASeq
<1>5. IsSeq(g) /\ Elements(g) \subseteq {g[i] : i \in DOMAIN s}
  BY <1>4, SeqIs
<1>6. \A e \in Elements(g) : e.uses \subseteq K
  BY <1>3, <1>5 DEF s
<1>. QED BY <1>5, <1>6 DEF Mentions

\* What the sections before the policies declare.
BaseNames(d) ==
    {"LOCAL_ASN", "FROM_UPSTREAM", "FROM_IX", "FROM_CUSTOMER", "RPKI_INVALID", "BOGON_ASNS",
     "BOGON_ASNS_EXCEPT_PRIVATE"}
        \cup CommunityNames(d) \cup NamesOf(Rendered(d))
        \cup NamesOf({s \in LiveRows(d, "asSets") : s.members # {}}) \cup RoaTables(d)
\* The communities that peers and policies name and nobody defines.
LostNames(d) == (PeerRefs(d) \cup PolicyRefs(d)) \ CommunityNames(d)
Told(d) == Symbols(BaseNames(d) \cup LostNames(d))

\* Tables with finitely many rows, of their kinds; no reference dangles; and the bogon sets are
\* there for the filters to name.
Orderly(d) ==
    /\ \A tb \in SymbolTables \cup {"policies", "routes"} : IsFiniteSet(DOMAIN d[tb])
    /\ LiveRows(d, "peers") \subseteq Peer /\ LiveRows(d, "policies") \subseteq Policy
    /\ \A p \in LiveRows(d, "peers") : PoliciesExist(d, p.chain)
    /\ \A p \in LiveRows(d, "policies") : SetsExist(d, p)
    /\ \A f \in Families : \E i \in Named(d.sets, BogonSet(f)) :
          ~d.sets[i].disabled /\ d.sets[i].entries # {}

\* A prefix set that is neither switched off nor empty is declared, and so is an AS set with
\* members.
LEMMA SetsAreDeclared ==
    ASSUME NEW d
    PROVE  /\ \A i \in Live(d.sets) : ~d.sets[i].disabled /\ d.sets[i].entries # {} =>
                  d.sets[i].name \in BaseNames(d)
           /\ \A i \in Live(d.asSets) : d.asSets[i].members # {} =>
                  d.asSets[i].name \in BaseNames(d)
BY DEF BaseNames, Rendered, LiveRows, NamesOf

\* The bogon set that a filter names is declared.
LEMMA BogonsAreDeclared ==
    ASSUME NEW d, Orderly(d), NEW f \in Families
    PROVE  BogonSet(f) \in BaseNames(d)
<1>1. PICK i \in Named(d.sets, BogonSet(f)) : ~d.sets[i].disabled /\ d.sets[i].entries # {}
  BY DEF Orderly
<1>2. i \in Live(d.sets) /\ d.sets[i].name = BogonSet(f)
  BY DEF Named
<1>. QED BY <1>1, <1>2, SetsAreDeclared

\* The ROA table that a filter names is declared, since a policy that validates is refused
\* without a server.
LEMMA TablesAreDeclared ==
    ASSUME NEW d, ~RefusedUnwritten(d), NEW i \in Live(d.policies), d.policies[i].rov # "off",
           NEW f \in Families
    PROVE  RoaTable(f) \in BaseNames(d)
<1>1. Feeding(d) # {}
  BY DEF RefusedUnwritten, checkRPKI, Validating
<1>2. Enabled(d, "servers") # {}
  BY <1>1 DEF Feeding, Enabled, LiveRows
<1>. QED BY <1>2 DEF BaseNames, RoaTables

\* A community that is named is declared, or lost.
LEMMA CommunitiesAreTold ==
    ASSUME NEW d
    PROVE  /\ \A i \in Live(d.policies) : d.policies[i].comm # None =>
                  Symbols({d.policies[i].comm}) \subseteq Told(d)
           /\ \A i \in Live(d.peers) :
                  /\ \A n \in d.peers[i].shape.importComms : Symbols({n}) \subseteq Told(d)
                  /\ \A n \in d.peers[i].shape.exportComms : Symbols({n}) \subseteq Told(d)
<1>. DEFINE K == BaseNames(d) \cup LostNames(d)
<1>1. \A n \in K : Symbols({n}) \subseteq Told(d)
  BY DEF Told, Symbols
<1>2. \A n : n \in PeerRefs(d) \cup PolicyRefs(d) => n \in K
  BY DEF BaseNames, LostNames
<1>. HIDE DEF K
<1>3. \A i \in Live(d.policies) : d.policies[i].comm # None => d.policies[i].comm \in K
  BY <1>2 DEF PolicyRefs
<1>4. ASSUME NEW i \in Live(d.peers),
             NEW n \in d.peers[i].shape.importComms \cup d.peers[i].shape.exportComms
      PROVE  n \in K
  BY <1>2 DEF PeerRefs, CommunityRefs, CommunityFields
<1>. QED BY <1>1, <1>3, <1>4

\* A name of the base as a symbol.
LEMMA BaseIsTold ==
    ASSUME NEW d, NEW n \in BaseNames(d)
    PROVE  Symbols({n}) \subseteq Told(d)
BY DEF Told, Symbols

-----------------------------------------------------------------------------
(* What a policy mentions.                                                  *)

\* A policy the renderer writes.
Written(d, pol) ==
    /\ \E i \in Live(d.policies) : pol = d.policies[i]
    /\ pol \in Policy /\ SetsExist(d, pol) /\ ~PolicyRefused(d, pol)

\* A policy of tables that are not refused is written.
LEMMA PoliciesAreWritten ==
    ASSUME NEW d, Orderly(d), ~RefusedUnwritten(d), NEW i \in Live(d.policies)
    PROVE  Written(d, d.policies[i])
BY DEF Written, Orderly, RefusedUnwritten, LiveRows

\* The bogon veto.
LEMMA BogonMentions ==
    ASSUME NEW d, Orderly(d), NEW pol, NEW f \in Families
    PROVE  Mentions(BogonRule(d, pol, f), Told(d))
<1>1. Symbols({BogonSet(f)}) \subseteq Told(d)
  BY BogonsAreDeclared, BaseIsTold
<1>2. Mentions(RejectIf("in", SetNamed(d, BogonSet(f)), Symbols({BogonSet(f)})), Told(d))
  BY <1>1, MentionsShort
<1>. QED BY <1>2, MentionsOpt DEF BogonRule

\* The community a policy looks for.
LEMMA MatchMentions ==
    ASSUME NEW d, NEW pol, Written(d, pol), NEW verdict
    PROVE  Mentions(MatchRule(d, pol, verdict), Told(d))
<1>. DEFINE ref == communityRefExpr(d, pol.comm)
            s == Stmt("carries", ref.values, verdict, None, ref.names)
<1>1. pol.comm # None => ref.names \subseteq Told(d)
  BY CommunitiesAreTold DEF Written, communityRefExpr
<1>. HIDE DEF ref
<1>2. pol.comm # None => Mentions(s, Told(d))
  BY <1>1, MentionsStmt
<1>3. MatchRule(d, pol, verdict) = Opt(pol.comm # None, s)
  BY DEF MatchRule, ref
<1>4. Mentions(Opt(pol.comm # None, s), Told(d))
  BY <1>2, MentionsOpt
<1>. QED BY <1>3, <1>4, Zenon

\* The allow-list of a policy that is open for the family.
LEMMA AllowMentions ==
    ASSUME NEW d, NEW pol, Written(d, pol), pol.dir = "import", NEW f, ~ClosedFor(d, pol, f)
    PROVE  Mentions(AllowRule(d, pol), Told(d))
<1>1. ASSUME pol.allow # None PROVE Symbols({AllowSet(d, pol).name}) \subseteq Told(d)
  <2>1. /\ pol.allow \in Live(d.sets) /\ ~AllowSet(d, pol).disabled
        /\ AllowSet(d, pol).entries # {}
    BY <1>1 DEF Written, SetsExist, PolicyRefused, AllowMissing, ClosedFor
  <2>2. AllowSet(d, pol).name \in BaseNames(d)
    BY <2>1, SetsAreDeclared DEF AllowSet
  <2>. QED BY <2>2, BaseIsTold
<1>2. pol.allow # None =>
         Mentions(RejectIf("not in", AllowSet(d, pol).entries, Symbols({AllowSet(d, pol).name})),
                  Told(d))
  BY <1>1, MentionsShort
<1>. QED BY <1>2, MentionsOpt DEF AllowRule

\* The AS set a policy compares the origin with.
LEMMA OriginMentions ==
    ASSUME NEW d, NEW pol, Written(d, pol), pol.dir = "import",
           NEW f \in Families, ~ClosedFor(d, pol, f)
    PROVE  Mentions(OriginRule(d, pol), Told(d))
<1>. DEFINE set == d.asSets[pol.origin]
            s == RejectIf("origin not in", set.members, Symbols({set.name}))
<1>1. ASSUME pol.origin # None PROVE Symbols({set.name}) \subseteq Told(d)
  <2>1. pol.origin \in Live(d.asSets) /\ d.asSets[pol.origin].members # {}
    BY <1>1 DEF Written, SetsExist, PolicyRefused, OriginMissing
  <2>2. set.name \in BaseNames(d)
    BY <2>1, SetsAreDeclared
  <2>. QED BY <2>2, BaseIsTold
<1>2. OriginRule(d, pol) = Opt(pol.origin # None, s)
  BY DEF OriginRule
<1>. HIDE DEF set
<1>3. pol.origin # None => Mentions(s, Told(d))
  BY <1>1, MentionsShort
<1>4. Mentions(Opt(pol.origin # None, s), Told(d))
  BY <1>3, MentionsOpt
<1>. QED BY <1>2, <1>4, Zenon

\* The names birdy defines itself.
LEMMA OwnNames ==
    ASSUME NEW d,
           NEW n \in {"LOCAL_ASN", "FROM_UPSTREAM", "FROM_IX", "FROM_CUSTOMER", "RPKI_INVALID",
                      "BOGON_ASNS", "BOGON_ASNS_EXCEPT_PRIVATE"}
    PROVE  Symbols({n}) \subseteq Told(d)
<1>1. n \in BaseNames(d)
  BY DEF BaseNames
<1>. QED BY <1>1, BaseIsTold

\* Route origin validation.
LEMMA ROVMentions ==
    ASSUME NEW d, NEW pol, Written(d, pol), ~RefusedUnwritten(d), NEW f \in Families
    PROVE  Mentions(ROVRule(d, pol, f), Told(d))
<1>. DEFINE log == Stmt("invalid", None, "add", {RPKI_INVALID(d)},
                        Symbols({RoaTable(f), "RPKI_INVALID"}))
            reject == RejectIf("invalid", None, Symbols({RoaTable(f)}))
<1>1. ASSUME pol.rov # "off"
      PROVE  /\ Symbols({RoaTable(f)}) \subseteq Told(d)
             /\ Symbols({RoaTable(f), "RPKI_INVALID"}) \subseteq Told(d)
  <2>1. Symbols({RoaTable(f)}) \subseteq Told(d)
    BY <1>1, TablesAreDeclared, BaseIsTold DEF Written
  <2>2. Symbols({"RPKI_INVALID"}) \subseteq Told(d)
    BY OwnNames
  <2>. QED BY <2>1, <2>2 DEF Symbols
<1>2. pol.rov # "off" => Mentions(log, Told(d)) /\ Mentions(reject, Told(d))
  BY <1>1, MentionsStmt, MentionsShort
<1>3. \/ pol.rov = "reject" /\ ROVRule(d, pol, f) = reject
      \/ pol.rov = "log" /\ ROVRule(d, pol, f) = log
      \/ ROVRule(d, pol, f) = <<>>
  BY DEF ROVRule, Written, Policy
<1>. HIDE DEF log, reject
<1>. QED BY <1>2, <1>3, MentionsNone

\* The lists of AS numbers.
LEMMA PathMentions ==
    ASSUME NEW d, NEW pol
    PROVE  Mentions(PathRule(d, pol), Told(d))
<1>. DEFINE u == Opt(pol.rules.pathLen > 0, RejectIf("longer path", pol.rules.pathLen, {}))
            v == Opt(pol.rules.ownASN, RejectIf("path has", {d.router.asn}, {}))
            all == RejectIf("path has", ASNsOf(BogonASNs(d)), Symbols({"BOGON_ASNS"}))
            some == RejectIf("path has", ASNsOf(NotPrivate(BogonASNs(d))),
                             Symbols({"BOGON_ASNS_EXCEPT_PRIVATE"}))
            w == CASE pol.rules.bogonASNs = "all" -> all
                   [] pol.rules.bogonASNs = "exceptPrivate" -> some
                   [] OTHER -> <<>>
<1>1. Mentions(u, Told(d)) /\ Mentions(v, Told(d))
  BY MentionsShort, MentionsOpt
<1>2. Mentions(all, Told(d)) /\ Mentions(some, Told(d))
  BY OwnNames, MentionsShort
<1>3. PathRule(d, pol) = (u \o v) \o w
  BY DEF PathRule
<1>. HIDE DEF u, v, all, some
<1>4. Mentions(w, Told(d))
  BY <1>2, MentionsNone
<1>. HIDE DEF w
<1>5. Mentions(u \o v, Told(d))
  BY <1>1, MentionsJoin
<1>. QED BY <1>3, <1>4, <1>5, MentionsJoin

\* The rules that mention nothing.
LEMMA PlainMentions ==
    ASSUME NEW d, NEW pol, pol \in Policy, NEW f, NEW K
    PROVE  /\ Mentions(BlackholeRule(d, pol), K) /\ Mentions(DefaultRule(pol), K)
           /\ Mentions(LengthRule(pol, f), K)
           /\ Mentions(Opt(pol.rules.pref > 0, Always("prefer", pol.rules.pref, {})), K)
<1>1. Mentions(BlackholeRule(d, pol), K)
  BY MentionsStmt, MentionsOpt DEF BlackholeRule
<1>2. Mentions(DefaultRule(pol), K)
  <2>1. \/ DefaultRule(pol) = RejectIf("default", None, {})
        \/ DefaultRule(pol) = RejectIf("not default", None, {})
        \/ DefaultRule(pol) = <<>>
    BY DEF DefaultRule
  <2>2. /\ Mentions(RejectIf("default", None, {}), K)
        /\ Mentions(RejectIf("not default", None, {}), K) /\ Mentions(<<>>, K)
    BY MentionsShort, MentionsNone
  <2>. QED BY <2>1, <2>2, Zenon
<1>3. Mentions(LengthRule(pol, f), K)
  <2>. DEFINE b == pol.rules.lens[f]
              t == IF pol.rules.default = "accept" THEN "length but default" ELSE "length"
  <2>1. LengthRule(pol, f) =
           Opt(pol.rules.default # "only" /\ (b.min > 0 \/ b.max > 0), RejectIf(t, b, {}))
    BY DEF LengthRule
  <2>. HIDE DEF b, t
  <2>. QED BY <2>1, MentionsShort, MentionsOpt
<1>4. Mentions(Opt(pol.rules.pref > 0, Always("prefer", pol.rules.pref, {})), K)
  BY MentionsShort, MentionsOpt
<1>. QED BY <1>1, <1>2, <1>3, <1>4

\* An import policy mentions what is declared before it, and communities that are lost.
LEMMA ImportMentions ==
    ASSUME NEW d, Orderly(d), ~RefusedUnwritten(d), NEW pol, Written(d, pol),
           pol.dir = "import", NEW f \in Families
    PROVE  Mentions(writeImportBody(d, pol, f), Told(d))
<1>. DEFINE K == Told(d)
            s1 == BlackholeRule(d, pol)
            s2 == DefaultRule(pol)
            s3 == LengthRule(pol, f)
            s4 == BogonRule(d, pol, f)
            s5 == MatchRule(d, pol, "reject")
            s6 == AllowRule(d, pol)
            s7 == OriginRule(d, pol)
            s8 == ROVRule(d, pol, f)
            s9 == PathRule(d, pol)
            s10 == Opt(pol.rules.pref > 0, Always("prefer", pol.rules.pref, {}))
<1>1. CASE ClosedFor(d, pol, f)
  <2>1. Mentions(Always("reject", None, {}), K)
    BY MentionsShort
  <2>. QED BY <1>1, <2>1 DEF writeImportBody
<1>2. CASE ~ClosedFor(d, pol, f)
  <2>1. Mentions(s1, K) /\ Mentions(s2, K) /\ Mentions(s3, K) /\ Mentions(s10, K)
    BY PlainMentions DEF Written
  <2>2. Mentions(s4, K) /\ Mentions(s5, K) /\ Mentions(s6, K) /\ Mentions(s7, K)
          /\ Mentions(s8, K) /\ Mentions(s9, K)
    BY <1>2, BogonMentions, MatchMentions, AllowMentions, OriginMentions, ROVMentions,
       PathMentions
  <2>3. writeImportBody(d, pol, f)
           = ((((((((s1 \o s2) \o s3) \o s4) \o s5) \o s6) \o s7) \o s8) \o s9) \o s10
    BY <1>2 DEF writeImportBody
  <2>. HIDE DEF s1, s2, s3, s4, s5, s6, s7, s8, s9, s10, K
  <2>4. Mentions(((s1 \o s2) \o s3) \o s4, K)
    BY <2>1, <2>2, MentionsJoin
  <2>5. Mentions(((((s1 \o s2) \o s3) \o s4) \o s5) \o s6, K)
    BY <2>2, <2>4, MentionsJoin
  <2>6. Mentions(((((((s1 \o s2) \o s3) \o s4) \o s5) \o s6) \o s7) \o s8, K)
    BY <2>2, <2>5, MentionsJoin
  <2>7. Mentions(((((((((s1 \o s2) \o s3) \o s4) \o s5) \o s6) \o s7) \o s8) \o s9) \o s10, K)
    BY <2>1, <2>2, <2>6, MentionsJoin
  <2>. QED BY <2>3, <2>7 DEF K
<1>. QED BY <1>1, <1>2

\* The sets a policy announces are declared: the others are left out.
LEMMA AnnounceMentions ==
    ASSUME NEW d, Orderly(d), NEW pol, Written(d, pol), NEW f
    PROVE  Mentions(AnnounceRule(d, pol, f), Told(d))
<1>. DEFINE S == Announced(d, pol, f)
            sets == Seqs!SetToSeq(S)
            e(s) == AcceptIf("in", d.sets[s].entries, Symbols({d.sets[s].name}))[1]
            g == [i \in DOMAIN sets |-> e(sets[i])]
<1>1. S \subseteq Live(d.sets) /\ IsFiniteSet(S)
  <2>1. S \subseteq Live(d.sets)
    BY DEF Announced, Written, SetsExist
  <2>2. IsFiniteSet(DOMAIN d.sets)
    BY DEF Orderly, SymbolTables
  <2>3. S \subseteq DOMAIN d.sets
    BY <2>1 DEF Live
  <2>. QED BY <2>1, <2>2, <2>3, FS_Subset
<1>2. ASSUME NEW s \in S PROVE e(s).uses \subseteq Told(d)
  <2>1. e(s).uses = Symbols({d.sets[s].name})
    BY DEF AcceptIf, Stmt
  <2>2. d.sets[s].name \in BaseNames(d)
    BY <1>1, SetsAreDeclared DEF Announced
  <2>. QED BY <2>1, <2>2, BaseIsTold
<1>3. AnnounceRule(d, pol, f) = g
  BY DEF AnnounceRule
<1>. HIDE DEF S, e
<1>4. DOMAIN g = DOMAIN Seqs!SetToSeq(S) /\ g = [i \in DOMAIN g |-> g[i]]
  OBVIOUS
<1>5. \A i \in DOMAIN g : Seqs!SetToSeq(S)[i] \in S => g[i].uses \subseteq Told(d)
  BY <1>2
<1>. HIDE DEF g
<1>. QED BY <1>1, <1>3, <1>4, <1>5, MentionsEach

\* The names of the roles' tags.
LEMMA RoleTags ==
    ASSUME NEW role \in {"upstream", "ix", "customer"}
    PROVE  roleTag[role].name \in {"FROM_UPSTREAM", "FROM_IX", "FROM_CUSTOMER"}
<1>1. CASE role = "upstream"
  BY <1>1 DEF roleTag
<1>2. CASE role = "ix"
  BY <1>2 DEF roleTag
<1>3. CASE role = "customer"
  BY <1>3 DEF roleTag
<1>. QED BY <1>1, <1>2, <1>3

\* Where a route came from.
LEMMA ProvenanceMentions ==
    ASSUME NEW d, NEW pol, NEW role \in {"upstream", "ix", "customer"}
    PROVE  Mentions(ProvenanceRule(d, pol, role), Told(d))
<1>1. Symbols({roleTag[role].name}) \subseteq Told(d)
  BY RoleTags, OwnNames
<1>2. Mentions(AcceptIf("carries", {TagOf(d, role)}, Symbols({roleTag[role].name})), Told(d))
  BY <1>1, MentionsShort
<1>. QED BY <1>2, MentionsOpt DEF ProvenanceRule

\* So does an export policy.
LEMMA ExportMentions ==
    ASSUME NEW d, Orderly(d), NEW pol, Written(d, pol), NEW f \in Families
    PROVE  Mentions(writeExportBody(d, pol, f), Told(d))
<1>. DEFINE K == Told(d)
            s1 == BogonRule(d, pol, f)
            all == Always("accept", None, {})
            s2 == Opt("default" \in pol.sources, AcceptIf("default", None, {}))
            s3 == AnnounceRule(d, pol, f)
            s4 == ProvenanceRule(d, pol, "upstream")
            s5 == ProvenanceRule(d, pol, "ix")
            s6 == ProvenanceRule(d, pol, "customer")
            s7 == MatchRule(d, pol, "accept")
<1>1. /\ Mentions(s1, K) /\ Mentions(all, K) /\ Mentions(s2, K) /\ Mentions(s3, K)
      /\ Mentions(s4, K) /\ Mentions(s5, K) /\ Mentions(s6, K) /\ Mentions(s7, K)
  BY BogonMentions, MentionsShort, MentionsOpt, AnnounceMentions, ProvenanceMentions,
     MatchMentions
<1>2. \/ writeExportBody(d, pol, f) = s1 \o all
      \/ writeExportBody(d, pol, f) = s1 \o (((((s2 \o s3) \o s4) \o s5) \o s6) \o s7)
  BY DEF writeExportBody
<1>. HIDE DEF K, all, s1, s2, s3, s4, s5, s6, s7
<1>3. Mentions(s1 \o all, K)
  BY <1>1, MentionsJoin
<1>4. Mentions(((s2 \o s3) \o s4) \o s5, K)
  BY <1>1, MentionsJoin
<1>5. Mentions(((((s2 \o s3) \o s4) \o s5) \o s6) \o s7, K)
  BY <1>1, <1>4, MentionsJoin
<1>6. Mentions(s1 \o (((((s2 \o s3) \o s4) \o s5) \o s6) \o s7), K)
  BY <1>1, <1>5, MentionsJoin
<1>. QED BY <1>2, <1>3, <1>6 DEF K

\* What the functions of a policy use is declared before them, or told.
LEMMA PolicyUses ==
    ASSUME NEW d, Orderly(d), ~RefusedUnwritten(d), NEW i \in Live(d.policies), NEW f \in Families
    PROVE  UsesOf(PolicyBody(d, i, f)) \subseteq Told(d)
<1>. DEFINE pol == d.policies[i]
<1>1. Written(d, pol) /\ pol.dir \in {"import", "export"}
  BY PoliciesAreWritten DEF Written, Policy
<1>2. \/ pol.dir = "import" /\ PolicyBody(d, i, f) = writeImportBody(d, pol, f)
      \/ PolicyBody(d, i, f) = writeExportBody(d, pol, f)
  BY DEF PolicyBody
<1>. HIDE DEF pol
<1>3. Mentions(PolicyBody(d, i, f), Told(d))
  BY <1>1, <1>2, ImportMentions, ExportMentions
<1>. QED BY <1>3, UsesAre

-----------------------------------------------------------------------------
(* What a session mentions.                                                 *)

\* The communities a session adds.
LEMMA AddMentions ==
    ASSUME NEW d, NEW names, IsFiniteSet(names),
           \A n \in names : Symbols({n}) \subseteq Told(d)
    PROVE  Mentions(AddCommunities(d, names), Told(d))
<1>. DEFINE ns == Seqs!SetToSeq(names)
            e(n) == LET ref == communityRefExpr(d, n)
                    IN Always("add", ref.values, ref.names)[1]
            g == [i \in DOMAIN ns |-> e(ns[i])]
<1>1. \A n \in names : e(n).uses \subseteq Told(d)
  <2>1. \A n : e(n).uses = Symbols({n})
    BY DEF communityRefExpr, Always, Stmt
  <2>. QED BY <2>1
<1>2. AddCommunities(d, names) = g
  BY DEF AddCommunities
<1>. HIDE DEF e
<1>3. DOMAIN g = DOMAIN Seqs!SetToSeq(names) /\ g = [i \in DOMAIN g |-> g[i]]
  OBVIOUS
<1>4. \A i \in DOMAIN g : Seqs!SetToSeq(names)[i] \in names => g[i].uses \subseteq Told(d)
  BY <1>1
<1>. HIDE DEF g
<1>. QED BY <1>2, <1>3, <1>4, MentionsEach

\* The communities of a session are finitely many, and each is declared or lost.
LEMMA SessionNames ==
    ASSUME NEW d, Orderly(d), IsFiniteSet(Names), NEW i \in Live(d.peers)
    PROVE  /\ Mentions(AddCommunities(d, d.peers[i].shape.importComms), Told(d))
           /\ Mentions(AddCommunities(d, d.peers[i].shape.exportComms), Told(d))
<1>1. d.peers[i].shape \in Shape
  BY DEF Orderly, LiveRows, Peer
<1>2. d.peers[i].shape.importComms \subseteq Names /\ d.peers[i].shape.exportComms \subseteq Names
  BY <1>1 DEF Shape
<1>3. IsFiniteSet(d.peers[i].shape.importComms) /\ IsFiniteSet(d.peers[i].shape.exportComms)
  BY <1>2, FS_Subset
<1>. QED BY <1>3, CommunitiesAreTold, AddMentions

\* The head of an import filter.
LEMMA ImportHeadMentions ==
    ASSUME NEW d, Orderly(d), IsFiniteSet(Names), NEW i \in Live(d.peers)
    PROVE  Mentions(ImportHead(d, d.peers[i]), Told(d))
<1>. DEFINE p == d.peers[i]
            K == Told(d)
            role == p.shape.role
            s1 == Opt(p.shape.firstAS, RejectIf("first not", p.asn, {}))
            s2 == Opt(p.shape.originOnly, RejectIf("origin not in", {p.asn}, {}))
            s3 == Opt(~IsIBGP(p.shape), Always("strip", d.router.asn, {}))
            s4 == AddCommunities(d, p.shape.importComms)
            s5 == Opt(~IsIBGP(p.shape), Always("add", {TagOf(d, role)},
                                               Symbols({roleTag[role].name})))
<1>1. Mentions(s1, K) /\ Mentions(s2, K) /\ Mentions(s3, K)
  BY MentionsShort, MentionsOpt
<1>2. Mentions(s4, K)
  BY SessionNames
<1>3. Mentions(s5, K)
  <2>1. p.shape \in Shape
    BY DEF Orderly, LiveRows, Peer
  <2>2. ~IsIBGP(p.shape) => role \in {"upstream", "ix", "customer"}
    BY <2>1 DEF Shape, Roles, IsIBGP
  <2>. HIDE DEF role
  <2>3. ~IsIBGP(p.shape) => Symbols({roleTag[role].name}) \subseteq K
    BY <2>2, RoleTags, OwnNames
  <2>4. ~IsIBGP(p.shape) =>
           Mentions(Always("add", {TagOf(d, role)}, Symbols({roleTag[role].name})), K)
    BY <2>3, MentionsShort
  <2>. QED BY <2>4, MentionsOpt
<1>4. ImportHead(d, p) = (((s1 \o s2) \o s3) \o s4) \o s5
  BY DEF ImportHead
<1>. HIDE DEF s1, s2, s3, s4, s5, K
<1>5. Mentions((s1 \o s2) \o s3, K)
  BY <1>1, MentionsJoin
<1>6. Mentions((((s1 \o s2) \o s3) \o s4) \o s5, K)
  BY <1>2, <1>3, <1>5, MentionsJoin
<1>. QED BY <1>4, <1>6 DEF K

\* And of an export filter.
LEMMA ExportHeadMentions ==
    ASSUME NEW d, Orderly(d), IsFiniteSet(Names), NEW i \in Live(d.peers)
    PROVE  Mentions(ExportHead(d, d.peers[i]), Told(d))
<1>. DEFINE p == d.peers[i]
            K == Told(d)
            n == p.shape.prepend
            e == Always("prepend", d.router.asn, Symbols({"LOCAL_ASN"}))[1]
            s1 == Opt(p.drained, Always("add", {GRACEFUL_SHUTDOWN}, {}))
            s2 == [k \in 1..n |-> Always("prepend", d.router.asn, Symbols({"LOCAL_ASN"}))[1]]
            s3 == AddCommunities(d, p.shape.exportComms)
<1>1. Mentions(s1, K)
  BY MentionsShort, MentionsOpt
<1>2. Mentions(s3, K)
  BY SessionNames
<1>3. Mentions(s2, K)
  <2>1. e.uses \subseteq K
    <3>1. e.uses = Symbols({"LOCAL_ASN"})
      BY DEF Always, Stmt
    <3>. QED BY <3>1, OwnNames
  <2>2. n \in Nat
    <3>1. p.shape \in Shape
      BY DEF Orderly, LiveRows, Peer
    <3>. QED BY <3>1 DEF Shape
  <2>3. s2 = [k \in 1..n |-> e]
    OBVIOUS
  <2>. HIDE DEF e, n, s2
  <2>4. s2 \in Seq({e})
    BY <2>2, <2>3
  <2>5. IsSeq(s2) /\ Elements(s2) \subseteq {e}
    BY <2>4, SeqIs
  <2>. QED BY <2>1, <2>5 DEF Mentions
<1>4. ExportHead(d, p) = (s1 \o s2) \o s3
  BY DEF ExportHead
<1>. HIDE DEF s1, s2, s3, K
<1>. QED BY <1>1, <1>2, <1>3, <1>4, MentionsJoin DEF K

-----------------------------------------------------------------------------
(* Sections put together.                                                   *)

Uses(secs) == UNION {e.uses : e \in Elements(secs)}
Declared(secs) == UNION {Elements(e.declares) : e \in Elements(secs)}
\* Sections, each of which declares a sequence of symbols.
AreSections(secs) == IsSeq(secs) /\ \A e \in Elements(secs) : IsSeq(e.declares)

\* One section.
LEMMA SectionIs ==
    ASSUME NEW group, NEW n, NEW declared, NEW used, IsSeq(declared)
    PROVE  /\ AreSections(Section(group, n, declared, used))
           /\ Declared(Section(group, n, declared, used)) = Elements(declared)
           /\ Uses(Section(group, n, declared, used)) = used
<1>. DEFINE e == [path |-> <<group, n>>, declares |-> declared, uses |-> used]
            s == Section(group, n, declared, used)
<1>1. e.declares = declared /\ e.uses = used
  OBVIOUS
<1>2. s = <<e>>
  BY DEF Section
<1>. HIDE DEF e, s
<1>3. IsSeq(s) /\ Elements(s) = {e}
  BY <1>2, OneIs
<1>4. AreSections(s) /\ Declared(s) = Elements(declared) /\ Uses(s) = used
  BY <1>1, <1>3 DEF AreSections, Declared, Uses
<1>. QED BY <1>4 DEF s

\* Sections added to a file may use what is declared before them: what is used and not
\* declared stays within K.
LEMMA Appended ==
    ASSUME NEW K, NEW a, NEW b, AreSections(a), AreSections(b), Undefined(a) \subseteq K,
           Uses(b) \subseteq K \cup Declared(a)
    PROVE  /\ AreSections(a \o b) /\ Undefined(a \o b) \subseteq K
           /\ Declared(a \o b) = Declared(a) \cup Declared(b)
<1>. DEFINE c == a \o b
            m == Len(a)
            Upto(s, i) == UNION {Elements(s[j].declares) : j \in 1..i}
<1>1. IsSeq(a) /\ IsSeq(b)
  BY DEF AreSections
<1>2. /\ IsSeq(c) /\ m \in Nat /\ Len(b) \in Nat /\ Len(c) = m + Len(b)
      /\ Elements(c) = Elements(a) \cup Elements(b)
      /\ \A k \in 1..m : c[k] = a[k]
      /\ \A k \in 1..Len(b) : c[m + k] = b[k]
  BY <1>1, ConcatIs
<1>. HIDE DEF c
<1>3. AreSections(c) /\ Declared(c) = Declared(a) \cup Declared(b)
  BY <1>2 DEF AreSections, Declared
<1>4. DOMAIN a = 1..m /\ DOMAIN b = 1..Len(b) /\ DOMAIN c = 1..m + Len(b)
  BY <1>1, <1>2, LenProperties DEF IsSeq
<1>. HIDE DEF m
<1>5. ASSUME NEW i \in 1..m PROVE c[i].uses \ Upto(c, i) \subseteq K
  <2>1. \A j \in 1..i : c[j] = a[j]
    BY <1>2
  <2>2. Upto(c, i) = Upto(a, i) /\ c[i] = a[i]
    BY <1>2, <2>1
  <2>3. a[i].uses \ Upto(a, i) \subseteq Undefined(a)
    BY <1>4 DEF Undefined
  <2>. QED BY <2>2, <2>3
<1>6. ASSUME NEW k \in 1..Len(b) PROVE c[m + k].uses \ Upto(c, m + k) \subseteq K
  <2>1. c[m + k].uses \subseteq Uses(b)
    BY <1>2, <1>4 DEF Uses, Elements
  <2>2. \A j \in 1..m : j \in 1..m + k /\ c[j] = a[j]
    BY <1>2
  <2>3. Declared(a) \subseteq Upto(c, m + k)
    BY <2>2, <1>4 DEF Declared, Elements
  <2>. QED BY <2>1, <2>3
<1>7. \A i \in 1..m + Len(b) : i \in 1..m \/ (i - m \in 1..Len(b) /\ m + (i - m) = i)
  BY <1>2
<1>8. \A i \in DOMAIN c : c[i].uses \ Upto(c, i) \subseteq K
  <2>. SUFFICES ASSUME NEW i \in 1..m + Len(b) PROVE c[i].uses \ Upto(c, i) \subseteq K
    BY <1>4
  <2>. QED BY <1>5, <1>6, <1>7
<1>9. Undefined(c) \subseteq K
  BY <1>8 DEF Undefined
<1>. QED BY <1>3, <1>9 DEF c

\* A section for each member of a set.
LEMMA EachIs ==
    ASSUME NEW S, IsFiniteSet(S), NEW h, \A x \in S : AreSections(h[x])
    PROVE  LET s == Seqs!SetToSeq(S)
               all == Seqs!FlattenSeq([i \in DOMAIN s |-> h[s[i]]])
           IN /\ AreSections(all)
              /\ Declared(all) = UNION {Declared(h[x]) : x \in S}
              /\ Uses(all) = UNION {Uses(h[x]) : x \in S}
<1>. DEFINE s == Seqs!SetToSeq(S)
            g == [i \in DOMAIN s |-> h[s[i]]]
            all == Seqs!FlattenSeq(g)
<1>1. IsSeq(s) /\ Elements(s) = S
  BY SetIsSeq
<1>. HIDE DEF s
<1>2. Len(s) \in Nat /\ DOMAIN s = 1..Len(s)
  BY <1>1, LenProperties DEF IsSeq
<1>3. \A i \in 1..Len(s) : s[i] \in S /\ g[i] = h[s[i]]
  BY <1>1, <1>2 DEF Elements
<1>4. \A x \in S : \E i \in 1..Len(s) : x = s[i]
  BY <1>1, <1>2 DEF Elements
<1>5. DOMAIN g = 1..Len(s) /\ g \in [1..Len(s) -> {h[x] : x \in S}]
  BY <1>2, <1>3
<1>. HIDE DEF g
<1>6. g \in Seq({h[x] : x \in S}) /\ Len(g) = Len(s)
  BY <1>2, <1>5, IsASeq, LenProperties
<1>7. \A i \in 1..Len(s) : IsSeq(g[i])
  BY <1>3 DEF AreSections
<1>8. Gathered(g)
  BY <1>6, <1>7, FlattenGathers
<1>9. IsSeq(all) /\ Elements(all) = UNION {Elements(g[i]) : i \in 1..Len(s)}
  BY <1>6, <1>8 DEF Gathered
<1>10. UNION {Elements(g[i]) : i \in 1..Len(s)} = UNION {Elements(h[x]) : x \in S}
  <2>1. ASSUME NEW i \in 1..Len(s) PROVE Elements(g[i]) \in {Elements(h[x]) : x \in S}
    BY <1>3
  <2>2. ASSUME NEW x \in S PROVE Elements(h[x]) \in {Elements(g[i]) : i \in 1..Len(s)}
    BY <1>3, <1>4
  <2>. QED BY <2>1, <2>2
<1>. HIDE DEF all
<1>11. AreSections(all)
  BY <1>9, <1>10 DEF AreSections
<1>12. /\ \A e \in Elements(all) : \E x \in S : e \in Elements(h[x])
       /\ \A x \in S : Elements(h[x]) \subseteq Elements(all)
  BY <1>9, <1>10
<1>13. Declared(all) = UNION {Declared(h[x]) : x \in S}
  <2>1. ASSUME NEW e \in Elements(all)
        PROVE  Elements(e.declares) \subseteq UNION {Declared(h[x]) : x \in S}
    <3>1. PICK x \in S : e \in Elements(h[x])
      BY <1>12
    <3>2. Elements(e.declares) \subseteq Declared(h[x])
      BY <3>1 DEF Declared
    <3>. QED BY <3>2
  <2>2. ASSUME NEW x \in S PROVE Declared(h[x]) \subseteq Declared(all)
    BY <1>12 DEF Declared
  <2>3. Declared(all) \subseteq UNION {Declared(h[x]) : x \in S}
    BY <2>1 DEF Declared
  <2>. QED BY <2>2, <2>3
<1>14. Uses(all) = UNION {Uses(h[x]) : x \in S}
  <2>1. ASSUME NEW e \in Elements(all)
        PROVE  e.uses \subseteq UNION {Uses(h[x]) : x \in S}
    <3>1. PICK x \in S : e \in Elements(h[x])
      BY <1>12
    <3>2. e.uses \subseteq Uses(h[x])
      BY <3>1 DEF Uses
    <3>. QED BY <3>2
  <2>2. ASSUME NEW x \in S PROVE Uses(h[x]) \subseteq Uses(all)
    BY <1>12 DEF Uses
  <2>3. Uses(all) \subseteq UNION {Uses(h[x]) : x \in S}
    BY <2>1 DEF Uses
  <2>. QED BY <2>2, <2>3
<1>. QED BY <1>11, <1>13, <1>14 DEF all, g, s

\* The symbols that names are declared as.
LEMMA DefinesIs ==
    ASSUME NEW s, IsSeq(s)
    PROVE  IsSeq(Defines(s)) /\ Elements(Defines(s)) = Symbols(Elements(s))
<1>. DEFINE g == [i \in DOMAIN s |-> Symbol(s[i])]
            S == Symbols(Elements(s))
<1>1. Defines(s) = g
  BY DEF Defines
<1>2. Len(s) \in Nat /\ DOMAIN s = 1..Len(s)
  BY LenProperties DEF IsSeq
<1>3. \A i \in 1..Len(s) : s[i] \in Elements(s)
  BY <1>2 DEF Elements
<1>4. g \in [1..Len(s) -> S]
  BY <1>2, <1>3 DEF Symbols
<1>5. DOMAIN g = 1..Len(s) /\ \A i \in 1..Len(s) : g[i] = Symbol(s[i])
  BY <1>2
<1>. HIDE DEF g
<1>6. g \in Seq(S)
  BY <1>2, <1>4, IsASeq
<1>7. IsSeq(g) /\ Elements(g) \subseteq S
  BY <1>6, SeqIs
<1>8. S \subseteq Elements(g)
  <2>1. ASSUME NEW n \in Elements(s) PROVE Symbol(n) \in Elements(g)
    <3>1. PICK i \in 1..Len(s) : s[i] = n
      BY <1>2 DEF Elements
    <3>. QED BY <3>1, <1>5 DEF Elements
  <2>. QED BY <2>1 DEF Symbols
<1>. QED BY <1>1, <1>7, <1>8

\* So are those of a set of names.
LEMMA DeclareIs ==
    ASSUME NEW names, IsFiniteSet(names)
    PROVE  IsSeq(Declare(names)) /\ Elements(Declare(names)) = Symbols(names)
BY SetIsSeq, DefinesIs DEF Declare

\* The sequence of two symbols.
LEMMA TwoAre ==
    ASSUME NEW a, NEW b
    PROVE  IsSeq(<<a, b>>) /\ Elements(<<a, b>>) = {a, b}
<1>. DEFINE s == <<a, b>>
<1>1. s \in Seq({a, b}) /\ Len(s) = 2 /\ DOMAIN s = 1..2 /\ s[1] = a /\ s[2] = b
  OBVIOUS
<1>. HIDE DEF s
<1>2. IsSeq(s) /\ Elements(s) \subseteq {a, b}
  BY <1>1, SeqIs
<1>3. 1 \in DOMAIN s /\ 2 \in DOMAIN s
  BY <1>1
<1>4. a \in Elements(s) /\ b \in Elements(s)
  BY <1>1, <1>3 DEF Elements
<1>. QED BY <1>2, <1>4 DEF s

\* What a function makes of finitely many things is finitely many.
LEMMA ImageIsFinite ==
    ASSUME NEW S, IsFiniteSet(S), NEW h, DOMAIN h = S, h = [x \in S |-> h[x]]
    PROVE  IsFiniteSet({h[x] : x \in S})
<1>1. h \in Surjection(S, {h[x] : x \in S})
  BY DEF Surjection
<1>. QED BY <1>1, FS_Surjection

\* Tables of finitely many rows, and what is made of their rows.
LEMMA RowsAreFinite ==
    ASSUME NEW d, Orderly(d), NEW tb \in SymbolTables \cup {"policies", "routes"}
    PROVE  IsFiniteSet(Live(d[tb])) /\ IsFiniteSet(LiveRows(d, tb))
<1>1. IsFiniteSet(DOMAIN d[tb])
  BY DEF Orderly
<1>2. Live(d[tb]) \subseteq DOMAIN d[tb]
  BY DEF Live
<1>3. IsFiniteSet(Live(d[tb]))
  BY <1>1, <1>2, FS_Subset
<1>4. IsFiniteSet({d[tb][i] : i \in Live(d[tb])})
  <2>. DEFINE S == Live(d[tb])
              h == [i \in S |-> d[tb][i]]
  <2>1. DOMAIN h = S /\ h = [i \in S |-> h[i]] /\ \A i \in S : h[i] = d[tb][i]
    OBVIOUS
  <2>. HIDE DEF h
  <2>2. IsFiniteSet({h[i] : i \in S})
    BY <1>3, <2>1, ImageIsFinite
  <2>3. {h[i] : i \in S} = {d[tb][i] : i \in S}
    BY <2>1
  <2>. QED BY <2>2, <2>3
<1>. QED BY <1>3, <1>4 DEF LiveRows

\* The names of some rows of a table.
LEMMA NamesAreFinite ==
    ASSUME NEW d, Orderly(d), NEW tb \in SymbolTables \cup {"policies", "routes"},
           NEW rows, rows \subseteq LiveRows(d, tb)
    PROVE  IsFiniteSet(rows) /\ IsFiniteSet(NamesOf(rows))
<1>1. IsFiniteSet(rows)
  BY RowsAreFinite, FS_Subset
<1>2. IsFiniteSet({row.name : row \in rows})
  <2>. DEFINE h == [row \in rows |-> row.name]
  <2>1. DOMAIN h = rows /\ h = [row \in rows |-> h[row]] /\ \A row \in rows : h[row] = row.name
    OBVIOUS
  <2>. HIDE DEF h
  <2>2. IsFiniteSet({h[row] : row \in rows})
    BY <1>1, <2>1, ImageIsFinite
  <2>3. {h[row] : row \in rows} = {row.name : row \in rows}
    BY <2>1
  <2>. QED BY <2>2, <2>3
<1>. QED BY <1>1, <1>2 DEF NamesOf

\* Sections that declare D and leave nothing undefined but what is in K.
Offering(K, secs, D) ==
    AreSections(secs) /\ Undefined(secs) \subseteq K /\ D \subseteq Declared(secs)

\* A section that uses nothing, as the first of a file.
LEMMA Begins ==
    ASSUME NEW K, NEW a, AreSections(a), Uses(a) = {}, NEW D, D \subseteq Declared(a)
    PROVE  Offering(K, a, D)
<1>1. \A i \in DOMAIN a : a[i].uses = {}
  BY DEF Uses, Elements
<1>2. Undefined(a) = {}
  BY <1>1 DEF Undefined
<1>. QED BY <1>2 DEF Offering

\* Sections added to a file.
LEMMA GoesOn ==
    ASSUME NEW K, NEW a, NEW D, Offering(K, a, D), NEW b, AreSections(b),
           Uses(b) \subseteq K \cup D, NEW E, E \subseteq Declared(b)
    PROVE  Offering(K, a \o b, D \cup E)
BY Appended DEF Offering

-----------------------------------------------------------------------------
(* The sections of the file.                                                *)

\* A section that declares names and uses nothing, or tables that are declared.
Declaring(secs, names) == AreSections(secs) /\ Symbols(names) \subseteq Declared(secs)
Apart(secs, names) == Declaring(secs, names) /\ Uses(secs) = {}

\* A section that declares a sequence of symbols.
LEMMA PlainOf ==
    ASSUME NEW group, NEW n, NEW v, IsSeq(v), NEW names, Symbols(names) \subseteq Elements(v)
    PROVE  Apart(Section(group, n, v, {}), names)
BY SectionIs DEF Apart, Declaring

\* A section of a set of names.
LEMMA PlainIs ==
    ASSUME NEW group, NEW n, NEW names, IsFiniteSet(names)
    PROVE  Apart(Section(group, n, Declare(names), {}), names)
BY DeclareIs, SectionIs DEF Apart, Declaring

\* The names birdy always defines.
LEMMA OwnSections ==
    ASSUME NEW d, Orderly(d)
    PROVE  /\ Apart(writeGlobals(d), {"LOCAL_ASN"})
           /\ Apart(writeCommunities(d), {"FROM_UPSTREAM", "FROM_IX", "FROM_CUSTOMER",
                                          "RPKI_INVALID"} \cup CommunityNames(d))
           /\ Apart(writeBogonASNs(d), {"BOGON_ASNS", "BOGON_ASNS_EXCEPT_PRIVATE"})
           /\ Apart(writeBaseProtocols(d), {})
<1>1. Apart(writeGlobals(d), {"LOCAL_ASN"})
  <2>. DEFINE s == <<"LOCAL_ASN">>
  <2>1. IsSeq(s) /\ Elements(s) = {"LOCAL_ASN"}
    BY OneIs
  <2>. HIDE DEF s
  <2>2. IsSeq(Defines(s)) /\ Symbols({"LOCAL_ASN"}) \subseteq Elements(Defines(s))
    BY <2>1, DefinesIs
  <2>. DEFINE v == Defines(s)
  <2>. HIDE DEF v
  <2>3. Apart(Section("globals", "", v, {}), {"LOCAL_ASN"})
    BY <2>2, PlainOf DEF v
  <2>. QED BY <2>3 DEF writeGlobals, s, v
<1>2. Apart(writeBogonASNs(d), {"BOGON_ASNS", "BOGON_ASNS_EXCEPT_PRIVATE"})
  BY TwoAre, DefinesIs, SectionIs DEF writeBogonASNs, Apart, Declaring
<1>3. Apart(writeBaseProtocols(d), {})
  <2>. DEFINE s == <<"direct1", "kernel4", "kernel6">>
  <2>1. s \in Seq({"direct1", "kernel4", "kernel6"})
    OBVIOUS
  <2>. HIDE DEF s
  <2>2. IsSeq(s)
    BY <2>1, SeqIs
  <2>3. Apart(Section("protocols", "base", Defines(s), {}), {})
    BY <2>2, DefinesIs, SectionIs DEF Apart, Declaring, Symbols
  <2>. QED BY <2>3 DEF writeBaseProtocols, s
<1>4. Apart(writeCommunities(d), {"FROM_UPSTREAM", "FROM_IX", "FROM_CUSTOMER", "RPKI_INVALID"}
                                     \cup CommunityNames(d))
  <2>. DEFINE S == {"FROM_UPSTREAM", "FROM_IX", "FROM_CUSTOMER", "RPKI_INVALID"}
              s == <<"FROM_UPSTREAM", "FROM_IX", "FROM_CUSTOMER", "RPKI_INVALID">>
              t == NamesOf(LiveRows(d, "communities"))
              v == Defines(s) \o Declare(t)
  <2>1. /\ s \in Seq(S) /\ DOMAIN s = 1..4 /\ s[1] = "FROM_UPSTREAM" /\ s[2] = "FROM_IX"
        /\ s[3] = "FROM_CUSTOMER" /\ s[4] = "RPKI_INVALID"
    OBVIOUS
  <2>. HIDE DEF s
  <2>2. IsSeq(s)
    BY <2>1, SeqIs
  <2>3. S \subseteq Elements(s)
    <3>1. 1 \in DOMAIN s /\ 2 \in DOMAIN s /\ 3 \in DOMAIN s /\ 4 \in DOMAIN s
      BY <2>1
    <3>. QED BY <2>1, <3>1 DEF Elements
  <2>4. IsSeq(Declare(t)) /\ Elements(Declare(t)) = Symbols(t)
    <3>1. IsFiniteSet(t)
      BY NamesAreFinite DEF SymbolTables
    <3>. QED BY <3>1, DeclareIs
  <2>5. t = CommunityNames(d)
    BY DEF NamesOf, LiveRows, CommunityNames
  <2>. HIDE DEF t
  <2>6. IsSeq(Defines(s)) /\ Elements(Defines(s)) = Symbols(Elements(s))
    BY <2>2, DefinesIs
  <2>7. IsSeq(v) /\ Elements(v) = Symbols(Elements(s)) \cup Symbols(t)
    BY <2>4, <2>6, Join
  <2>8. Symbols(S \cup CommunityNames(d)) \subseteq Elements(v)
    BY <2>3, <2>5, <2>7 DEF Symbols
  <2>. HIDE DEF v, S
  <2>9. Apart(Section("communities", "", v, {}), S \cup CommunityNames(d))
    BY <2>7, <2>8, PlainOf
  <2>. QED BY <2>9 DEF writeCommunities, v, s, t, S
<1>. QED BY <1>1, <1>2, <1>3, <1>4

\* The sections that are made of the rows of tables.
LEMMA RowSections ==
    ASSUME NEW d, Orderly(d)
    PROVE  /\ Apart(writeSets(d), NamesOf(Rendered(d)))
           /\ Apart(writeASSets(d), NamesOf({s \in LiveRows(d, "asSets") : s.members # {}}))
           /\ Apart(writeRPKITables(d), RoaTables(d))
           /\ Apart(writeBFDProtocol(d), {})
           /\ Apart(writeBMP(d), {})
           /\ Apart(writeOriginators(d), {})
           /\ Apart(writeStaticRoutes(d), {})
           /\ Declaring(writeRPKIProtocols(d), {})
           /\ Uses(writeRPKIProtocols(d)) = Symbols(RoaTables(d))
<1>0. \A secs, names : Apart(secs, names) => Apart(secs, {})
  BY DEF Apart, Declaring, Symbols
<1>1. Apart(writeSets(d), NamesOf(Rendered(d)))
  <2>1. Rendered(d) \subseteq LiveRows(d, "sets")
    BY DEF Rendered
  <2>2. IsFiniteSet(NamesOf(Rendered(d)))
    BY <2>1, NamesAreFinite DEF SymbolTables
  <2>. QED BY <2>2, PlainIs DEF writeSets
<1>2. Apart(writeASSets(d), NamesOf({s \in LiveRows(d, "asSets") : s.members # {}}))
  <2>. DEFINE rows == {s \in LiveRows(d, "asSets") : s.members # {}}
  <2>1. rows \subseteq LiveRows(d, "asSets")
    OBVIOUS
  <2>2. IsFiniteSet(NamesOf(rows))
    BY <2>1, NamesAreFinite DEF SymbolTables
  <2>. HIDE DEF rows
  <2>3. Apart(Section("sets", "as", Declare(NamesOf(rows)), {}), NamesOf(rows))
    BY <2>2, PlainIs
  <2>. QED BY <2>3 DEF writeASSets, rows
<1>3. Apart(writeRPKITables(d), RoaTables(d))
  <2>1. RoaTables(d) \subseteq {"rpki4"} \cup {"rpki6"}
    BY DEF RoaTables, RoaTable
  <2>2. IsFiniteSet({"rpki4"} \cup {"rpki6"})
    BY FS_Singleton, FS_Union
  <2>3. IsFiniteSet(RoaTables(d))
    BY <2>1, <2>2, FS_Subset
  <2>. QED BY <2>3, PlainIs DEF writeRPKITables
<1>4. Apart(writeBFDProtocol(d), {})
  <2>. DEFINE names == {n \in {"bfd1"} : \E p \in LiveRows(d, "peers") : p.shape.bfd}
  <2>1. IsFiniteSet(names)
    <3>1. names \subseteq {"bfd1"} /\ IsFiniteSet({"bfd1"})
      BY FS_Singleton
    <3>. QED BY <3>1, FS_Subset
  <2>. HIDE DEF names
  <2>2. Apart(Section("protocols", "bfd", Declare(names), {}), names)
    BY <2>1, PlainIs
  <2>. QED BY <1>0, <2>2 DEF writeBFDProtocol, names
<1>5. ASSUME NEW tb \in {"stations", "servers"}
      PROVE  IsFiniteSet(NamesOf(Enabled(d, tb)))
  <2>1. Enabled(d, tb) \subseteq LiveRows(d, tb)
    BY DEF Enabled
  <2>. QED BY <2>1, NamesAreFinite DEF SymbolTables
<1>6. Apart(writeBMP(d), {})
  <2>1. Apart(writeBMP(d), NamesOf(Enabled(d, "stations")))
    BY <1>5, PlainIs DEF writeBMP
  <2>. QED BY <1>0, <2>1
<1>7. Declaring(writeRPKIProtocols(d), {}) /\ Uses(writeRPKIProtocols(d)) = Symbols(RoaTables(d))
  <2>. DEFINE v == Declare(NamesOf(Enabled(d, "servers")))
  <2>1. IsSeq(v)
    BY <1>5, DeclareIs
  <2>. HIDE DEF v
  <2>2. writeRPKIProtocols(d) = Section("rpki", "servers", v, Symbols(RoaTables(d)))
    BY DEF writeRPKIProtocols, v
  <2>3. Symbols({}) = {}
    BY DEF Symbols
  <2>. QED BY <2>1, <2>2, <2>3, SectionIs DEF Declaring
<1>8. Apart(writeOriginators(d), {})
  <2>. DEFINE S == Originators(d)
              h == [s \in S |-> DerivedSymbol("originate", "", s.name)]
              v == Seqs!SetToSeq({DerivedSymbol("originate", "", s.name) : s \in S})
  <2>1. IsFiniteSet(S)
    <3>1. S \subseteq LiveRows(d, "sets")
      BY DEF Originators, Rendered
    <3>. QED BY <3>1, NamesAreFinite DEF SymbolTables
  <2>2. /\ DOMAIN h = S /\ h = [s \in S |-> h[s]]
        /\ \A s \in S : h[s] = DerivedSymbol("originate", "", s.name)
    OBVIOUS
  <2>. HIDE DEF h
  <2>3. IsFiniteSet({h[s] : s \in S})
    BY <2>1, <2>2, ImageIsFinite
  <2>4. {h[s] : s \in S} = {DerivedSymbol("originate", "", s.name) : s \in S}
    BY <2>2
  <2>5. IsSeq(v)
    BY <2>3, <2>4, SetIsSeq
  <2>. HIDE DEF v
  <2>6. Apart(Section("sets", "originators", v, {}), {})
    BY <2>5, SectionIs DEF Apart, Declaring, Symbols
  <2>. QED BY <2>6 DEF writeOriginators, v
<1>9. Apart(writeStaticRoutes(d), {})
  <2>. DEFINE names == {StaticName(r.family) : r \in Enabled(d, "routes")}
  <2>1. IsFiniteSet(names)
    <3>1. names \subseteq {"static_v4"} \cup {"static_v6"}
      BY DEF StaticName
    <3>2. IsFiniteSet({"static_v4"} \cup {"static_v6"})
      BY FS_Singleton, FS_Union
    <3>. QED BY <3>1, <3>2, FS_Subset
  <2>. HIDE DEF names
  <2>2. Apart(Section("static", "", Declare(names), {}), names)
    BY <2>1, PlainIs
  <2>. QED BY <1>0, <2>2 DEF writeStaticRoutes, names
<1>. QED BY <1>1, <1>2, <1>3, <1>4, <1>6, <1>7, <1>8, <1>9

\* The sections before the policies.
FileHead(d) ==
    writeGlobals(d) \o writeCommunities(d) \o writeSets(d) \o writeASSets(d) \o writeBogonASNs(d)
        \o writeRPKITables(d) \o writeBaseProtocols(d) \o writeBFDProtocol(d) \o writeBMP(d)
        \o writeRPKIProtocols(d) \o writeOriginators(d) \o writeStaticRoutes(d)

\* They declare what the filters of policies and sessions name, and leave nothing undefined.
LEMMA HeadIs ==
    ASSUME NEW d, Orderly(d), NEW K
    PROVE  Offering(K, FileHead(d), Symbols(BaseNames(d)))
<1>. DEFINE n2 == {"FROM_UPSTREAM", "FROM_IX", "FROM_CUSTOMER", "RPKI_INVALID"}
                      \cup CommunityNames(d)
            n3 == NamesOf(Rendered(d))
            n4 == NamesOf({s \in LiveRows(d, "asSets") : s.members # {}})
            n5 == {"BOGON_ASNS", "BOGON_ASNS_EXCEPT_PRIVATE"}
            n6 == RoaTables(d)
            D1 == Symbols({"LOCAL_ASN"})
            D2 == D1 \cup Symbols(n2)
            D3 == D2 \cup Symbols(n3)
            D4 == D3 \cup Symbols(n4)
            D5 == D4 \cup Symbols(n5)
            D6 == D5 \cup Symbols(n6)
            f6 == writeGlobals(d) \o writeCommunities(d) \o writeSets(d) \o writeASSets(d)
                      \o writeBogonASNs(d) \o writeRPKITables(d)
            f9 == f6 \o writeBaseProtocols(d) \o writeBFDProtocol(d) \o writeBMP(d)
            f12 == f9 \o writeRPKIProtocols(d) \o writeOriginators(d) \o writeStaticRoutes(d)
<1>1. ASSUME NEW a, NEW D, Offering(K, a, D), NEW b, NEW names, Declaring(b, names),
             Uses(b) \subseteq D
      PROVE  Offering(K, a \o b, D \cup Symbols(names))
  BY <1>1, GoesOn DEF Declaring
<1>2. ASSUME NEW a, NEW D, Offering(K, a, D), NEW b, NEW names, Apart(b, names)
      PROVE  Offering(K, a \o b, D \cup Symbols(names))
  BY <1>1, <1>2 DEF Apart
<1>3. ASSUME NEW a, NEW D, Offering(K, a, D), NEW b, Apart(b, {})
      PROVE  Offering(K, a \o b, D)
  <2>1. D \cup Symbols({}) = D
    BY DEF Symbols
  <2>2. Offering(K, a \o b, D \cup Symbols({}))
    BY <1>2, <1>3
  <2>. QED BY <2>1, <2>2
<1>4. Offering(K, writeGlobals(d), D1)
  BY OwnSections, Begins DEF Apart, Declaring
<1>5. Offering(K, f6, D6)
  <2>. DEFINE g2 == writeGlobals(d) \o writeCommunities(d)
              g3 == g2 \o writeSets(d)
              g4 == g3 \o writeASSets(d)
              g5 == g4 \o writeBogonASNs(d)
  <2>0. /\ Apart(writeCommunities(d), n2) /\ Apart(writeSets(d), n3) /\ Apart(writeASSets(d), n4)
        /\ Apart(writeBogonASNs(d), n5) /\ Apart(writeRPKITables(d), n6)
    BY OwnSections, RowSections
  <2>. HIDE DEF n2, n3, n4, n5, n6, D1
  <2>1. Offering(K, g2, D2)
    BY <1>2, <1>4, <2>0
  <2>. HIDE DEF g2, D2
  <2>2. Offering(K, g3, D3)
    BY <1>2, <2>0, <2>1
  <2>. HIDE DEF g3, D3
  <2>3. Offering(K, g4, D4)
    BY <1>2, <2>0, <2>2
  <2>. HIDE DEF g4, D4
  <2>4. Offering(K, g5, D5)
    BY <1>2, <2>0, <2>3
  <2>. HIDE DEF g5, D5
  <2>5. Offering(K, g5 \o writeRPKITables(d), D6)
    BY <1>2, <2>0, <2>4
  <2>. QED BY <2>5 DEF g5, g4, g3, g2
<1>6. Symbols(n6) \subseteq D6
  OBVIOUS
<1>7. Symbols(BaseNames(d)) \subseteq D6
  <2>1. BaseNames(d) = {"LOCAL_ASN"} \cup n2 \cup n3 \cup n4 \cup n5 \cup n6
    BY DEF BaseNames
  <2>. HIDE DEF n2, n3, n4, n5, n6
  <2>. QED BY <2>1 DEF Symbols
<1>. HIDE DEF D6, f6
<1>8. Offering(K, f9, D6)
  <2>1. Apart(writeBaseProtocols(d), {}) /\ Apart(writeBFDProtocol(d), {}) /\ Apart(writeBMP(d), {})
    BY OwnSections, RowSections
  <2>2. Offering(K, f6 \o writeBaseProtocols(d), D6)
    BY <1>3, <1>5, <2>1
  <2>3. Offering(K, (f6 \o writeBaseProtocols(d)) \o writeBFDProtocol(d), D6)
    BY <1>3, <2>1, <2>2
  <2>. QED BY <1>3, <2>1, <2>3
<1>. HIDE DEF f9
<1>9. Offering(K, f12, D6)
  <2>1. /\ Declaring(writeRPKIProtocols(d), {}) /\ Uses(writeRPKIProtocols(d)) \subseteq D6
        /\ Apart(writeOriginators(d), {}) /\ Apart(writeStaticRoutes(d), {})
    BY <1>6, RowSections
  <2>2. Offering(K, f9 \o writeRPKIProtocols(d), D6)
    <3>1. D6 \cup Symbols({}) = D6
      BY DEF Symbols
    <3>2. Offering(K, f9 \o writeRPKIProtocols(d), D6 \cup Symbols({}))
      BY <1>1, <1>8, <2>1
    <3>. QED BY <3>1, <3>2
  <2>3. Offering(K, (f9 \o writeRPKIProtocols(d)) \o writeOriginators(d), D6)
    BY <1>3, <2>1, <2>2
  <2>. QED BY <1>3, <2>1, <2>3
<1>10. FileHead(d) = f12
  BY DEF FileHead, f9, f6
<1>. QED BY <1>7, <1>9, <1>10 DEF Offering

\* The functions of the policies, and the templates that are linked.
Functions(d) == {policyFunc(d.policies[i], f) : i \in Live(d.policies), f \in Families}
TemplateNames(d) == {d.templates[t].name : t \in usedTemplates(d)}

ThePolicies(d) == EachOf(Live(d.policies), LAMBDA id : writePolicy(d, id))
TheTemplates(d) == EachOf(usedTemplates(d), LAMBDA t : writeTemplate(d, d.templates[t]))
ThePeers(d) == EachOf(LiveRows(d, "peers"), LAMBDA p : writePeer(d, p))

\* The policies declare their functions.
LEMMA PoliciesSay ==
    ASSUME NEW d, Orderly(d), ~RefusedUnwritten(d)
    PROVE  /\ AreSections(ThePolicies(d)) /\ Functions(d) \subseteq Declared(ThePolicies(d))
           /\ Uses(ThePolicies(d)) \subseteq Told(d)
<1>. DEFINE S == Live(d.policies)
            s == Seqs!SetToSeq(S)
            h == [i \in S |-> writePolicy(d, i)]
            all == Seqs!FlattenSeq([k \in DOMAIN s |-> h[s[k]]])
<1>1. IsFiniteSet(S)
  BY RowsAreFinite
<1>2. \A k \in DOMAIN s : s[k] \in S
  BY <1>1, SetIsSeq DEF Elements
<1>3. ASSUME NEW i \in S
      PROVE  /\ AreSections(writePolicy(d, i))
             /\ \A f \in Families : policyFunc(d.policies[i], f) \in Declared(writePolicy(d, i))
             /\ Uses(writePolicy(d, i)) \subseteq Told(d)
  <2>. DEFINE pol == d.policies[i]
              v == <<policyFunc(pol, "ipv4"), policyFunc(pol, "ipv6")>>
              u == UNION {UsesOf(PolicyBody(d, i, f)) : f \in Families}
  <2>1. IsSeq(v) /\ Elements(v) = {policyFunc(pol, "ipv4"), policyFunc(pol, "ipv6")}
    BY TwoAre
  <2>2. u \subseteq Told(d)
    BY PolicyUses
  <2>3. writePolicy(d, i) = Section("policies", pol.name, v, u)
    BY DEF writePolicy
  <2>4. \A f \in Families : policyFunc(pol, f) \in Elements(v)
    BY <2>1 DEF Families
  <2>. HIDE DEF v, u, pol
  <2>5. AreSections(writePolicy(d, i)) /\ Declared(writePolicy(d, i)) = Elements(v)
          /\ Uses(writePolicy(d, i)) = u
    BY <2>1, <2>3, SectionIs
  <2>. QED BY <2>2, <2>4, <2>5 DEF pol
<1>4. \A i \in S : h[i] = writePolicy(d, i)
  OBVIOUS
<1>5. ThePolicies(d) = all
  <2>1. [k \in DOMAIN s |-> writePolicy(d, s[k])] = [k \in DOMAIN s |-> h[s[k]]]
    BY <1>2, <1>4
  <2>2. ThePolicies(d) = Seqs!FlattenSeq([k \in DOMAIN s |-> writePolicy(d, s[k])])
    BY DEF ThePolicies, EachOf
  <2>. QED BY <2>1, <2>2
<1>. HIDE DEF h
<1>6. /\ AreSections(all) /\ Declared(all) = UNION {Declared(h[i]) : i \in S}
      /\ Uses(all) = UNION {Uses(h[i]) : i \in S}
  BY <1>1, <1>3, <1>4, EachIs
<1>. HIDE DEF all
<1>7. Uses(all) \subseteq Told(d)
  BY <1>3, <1>4, <1>6
<1>8. Functions(d) \subseteq Declared(all)
  BY <1>3, <1>4, <1>6 DEF Functions
<1>. QED BY <1>5, <1>6, <1>7, <1>8

\* The templates declare their names.
LEMMA TemplatesSay ==
    ASSUME NEW d, Orderly(d)
    PROVE  /\ AreSections(TheTemplates(d))
           /\ Symbols(TemplateNames(d)) \subseteq Declared(TheTemplates(d))
           /\ Uses(TheTemplates(d)) \subseteq Told(d)
<1>. DEFINE S == usedTemplates(d)
            s == Seqs!SetToSeq(S)
            h == [i \in S |-> writeTemplate(d, d.templates[i])]
            all == Seqs!FlattenSeq([k \in DOMAIN s |-> h[s[k]]])
<1>1. IsFiniteSet(S)
  <2>1. S \subseteq Live(d.templates)
    BY DEF usedTemplates
  <2>2. IsFiniteSet(Live(d.templates))
    BY RowsAreFinite DEF SymbolTables
  <2>. QED BY <2>1, <2>2, FS_Subset
<1>2. \A k \in DOMAIN s : s[k] \in S
  BY <1>1, SetIsSeq DEF Elements
<1>3. ASSUME NEW i \in S
      PROVE  LET e == writeTemplate(d, d.templates[i])
             IN /\ AreSections(e) /\ Symbol(d.templates[i].name) \in Declared(e)
                /\ Uses(e) \subseteq Told(d)
  <2>. DEFINE t == d.templates[i]
              v == <<Symbol(t.name)>>
  <2>1. IsSeq(v) /\ Elements(v) = {Symbol(t.name)}
    BY OneIs
  <2>2. Symbols({"LOCAL_ASN"}) \subseteq Told(d)
    BY OwnNames
  <2>3. writeTemplate(d, t) = Section("templates", t.name, v, Symbols({"LOCAL_ASN"}))
    BY DEF writeTemplate
  <2>. HIDE DEF v
  <2>. QED BY <2>1, <2>2, <2>3, SectionIs
<1>4. \A i \in S : h[i] = writeTemplate(d, d.templates[i])
  OBVIOUS
<1>5. TheTemplates(d) = all
  <2>1. [k \in DOMAIN s |-> writeTemplate(d, d.templates[s[k]])] = [k \in DOMAIN s |-> h[s[k]]]
    BY <1>2, <1>4
  <2>2. TheTemplates(d)
           = Seqs!FlattenSeq([k \in DOMAIN s |-> writeTemplate(d, d.templates[s[k]])])
    BY DEF TheTemplates, EachOf
  <2>. QED BY <2>1, <2>2
<1>. HIDE DEF h, S
<1>6. /\ AreSections(all) /\ Declared(all) = UNION {Declared(h[i]) : i \in S}
      /\ Uses(all) = UNION {Uses(h[i]) : i \in S}
  BY <1>1, <1>3, <1>4, EachIs
<1>. HIDE DEF all
<1>7. Uses(all) \subseteq Told(d)
  BY <1>3, <1>4, <1>6
<1>8. Symbols(TemplateNames(d)) \subseteq Declared(all)
  BY <1>3, <1>4, <1>6 DEF TemplateNames, Symbols, S
<1>. QED BY <1>5, <1>6, <1>7, <1>8

\* What a session uses: what is declared before the policies, or lost, the functions of its
\* policies, and its template.
LEMMA PeerSays ==
    ASSUME NEW d, Orderly(d), IsFiniteSet(Names), NEW i \in Live(d.peers)
    PROVE  LET e == writePeer(d, d.peers[i])
           IN AreSections(e)
                /\ Uses(e) \subseteq Told(d) \cup Functions(d) \cup Symbols(TemplateNames(d))
<1>. DEFINE p == d.peers[i]
            K == Told(d) \cup Functions(d) \cup Symbols(TemplateNames(d))
            v1 == Opt(HasImportFilter(p), <<FilterName(p, "in")>>)
            v2 == Opt(HasExportFilter(p), <<FilterName(p, "out")>>)
            v == (v1 \o v2) \o <<Symbol(p.name)>>
            u1 == Symbols({"LOCAL_ASN"} \cup Inherits(d, p))
            u2 == UsesOf(Opt(HasImportFilter(p), ImportHead(d, p)))
            u3 == UsesOf(Opt(HasExportFilter(p), ExportHead(d, p)))
            u4 == Calls(d, p, p.chain.imports)
            u5 == Calls(d, p, p.chain.exports)
            u == u1 \cup u2 \cup u3 \cup u4 \cup u5
<1>1. IsSeq(v)
  <2>1. IsSeq(v1) /\ IsSeq(v2) /\ IsSeq(<<Symbol(p.name)>>)
    BY OneIs, OptIs
  <2>. HIDE DEF v1, v2
  <2>2. IsSeq(v1 \o v2)
    BY <2>1, Join
  <2>. QED BY <2>1, <2>2, Join
<1>2. u1 \subseteq K
  <2>1. Symbols({"LOCAL_ASN"}) \subseteq Told(d)
    BY OwnNames
  <2>2. Inherits(d, p) \subseteq TemplateNames(d)
    BY DEF Inherits, TemplateNames
  <2>. QED BY <2>1, <2>2 DEF Symbols
<1>3. u2 \subseteq Told(d) /\ u3 \subseteq Told(d)
  <2>1. Mentions(ImportHead(d, p), Told(d)) /\ Mentions(ExportHead(d, p), Told(d))
    BY ImportHeadMentions, ExportHeadMentions
  <2>2. /\ Mentions(Opt(HasImportFilter(p), ImportHead(d, p)), Told(d))
        /\ Mentions(Opt(HasExportFilter(p), ExportHead(d, p)), Told(d))
    BY <2>1, MentionsOpt
  <2>. QED BY <2>2, UsesAre
<1>4. u4 \subseteq Functions(d) /\ u5 \subseteq Functions(d)
  <2>1. PoliciesExist(d, p.chain) /\ p.fam \in Families
    BY DEF Orderly, LiveRows, Peer
  <2>. QED BY <2>1 DEF PoliciesExist, Calls, Functions
<1>5. writePeer(d, p) = Section("peers", p.name, v, u)
  BY DEF writePeer
<1>6. u \subseteq K
  BY <1>2, <1>3, <1>4
<1>. HIDE DEF v, u, K
<1>7. AreSections(writePeer(d, p)) /\ Uses(writePeer(d, p)) \subseteq K
  BY <1>1, <1>5, <1>6, SectionIs
<1>. QED BY <1>7 DEF K

\* So do the sessions together.
LEMMA PeersSay ==
    ASSUME NEW d, Orderly(d), IsFiniteSet(Names)
    PROVE  /\ AreSections(ThePeers(d))
           /\ Uses(ThePeers(d)) \subseteq Told(d) \cup Functions(d) \cup Symbols(TemplateNames(d))
<1>. DEFINE S == LiveRows(d, "peers")
            s == Seqs!SetToSeq(S)
            K == Told(d) \cup Functions(d) \cup Symbols(TemplateNames(d))
            h == [p \in S |-> writePeer(d, p)]
            all == Seqs!FlattenSeq([k \in DOMAIN s |-> h[s[k]]])
<1>1. IsFiniteSet(S)
  BY RowsAreFinite DEF SymbolTables
<1>2. \A k \in DOMAIN s : s[k] \in S
  BY <1>1, SetIsSeq DEF Elements
<1>3. ASSUME NEW p \in S PROVE AreSections(writePeer(d, p)) /\ Uses(writePeer(d, p)) \subseteq K
  <2>1. PICK i \in Live(d.peers) : p = d.peers[i]
    BY DEF LiveRows
  <2>. QED BY <2>1, PeerSays
<1>4. \A p \in S : h[p] = writePeer(d, p)
  OBVIOUS
<1>5. ThePeers(d) = all
  <2>1. [k \in DOMAIN s |-> writePeer(d, s[k])] = [k \in DOMAIN s |-> h[s[k]]]
    BY <1>2, <1>4
  <2>2. ThePeers(d) = Seqs!FlattenSeq([k \in DOMAIN s |-> writePeer(d, s[k])])
    BY DEF ThePeers, EachOf
  <2>. QED BY <2>1, <2>2
<1>. HIDE DEF h, S, K
<1>6. AreSections(all) /\ Uses(all) = UNION {Uses(h[p]) : p \in S}
  BY <1>1, <1>3, <1>4, EachIs
<1>. HIDE DEF all
<1>7. Uses(all) \subseteq K
  BY <1>3, <1>4, <1>6
<1>. QED BY <1>5, <1>6, <1>7 DEF K

\* What the file leaves undefined are communities that are lost.
LEMMA OnlyLostAreUndefined ==
    ASSUME NEW d, Orderly(d), IsFiniteSet(Names), ~RefusedUnwritten(d)
    PROVE  /\ AreSections(Sections(d))
           /\ Undefined(Sections(d)) \subseteq Symbols(LostNames(d))
<1>. DEFINE K == Symbols(LostNames(d))
            D1 == Symbols(BaseNames(d))
            D2 == D1 \cup Functions(d)
            D3 == D2 \cup Symbols(TemplateNames(d))
            f1 == FileHead(d)
            f2 == f1 \o ThePolicies(d)
            f3 == f2 \o TheTemplates(d)
<1>1. Told(d) = K \cup D1
  BY DEF Told, Symbols
<1>2. Offering(K, f1, D1)
  BY HeadIs
<1>3. Sections(d) = f3 \o ThePeers(d)
  BY DEF Sections, FileHead, ThePolicies, TheTemplates, ThePeers
<1>. HIDE DEF K, D1, f1
<1>4. Offering(K, f2, D2)
  BY <1>1, <1>2, PoliciesSay, GoesOn
<1>. HIDE DEF D2, f2
<1>5. D1 \subseteq D2 /\ Functions(d) \subseteq D2
  BY DEF D2
<1>6. Offering(K, f3, D3)
  BY <1>1, <1>4, <1>5, TemplatesSay, GoesOn
<1>7. D2 \subseteq D3 /\ Symbols(TemplateNames(d)) \subseteq D3
  OBVIOUS
<1>. HIDE DEF D3, f3
<1>8. Uses(ThePeers(d)) \subseteq K \cup D3
  BY <1>1, <1>5, <1>7, PeersSay
<1>9. Offering(K, f3 \o ThePeers(d), D3 \cup {})
  BY <1>6, <1>8, PeersSay, GoesOn
<1>. QED BY <1>3, <1>9 DEF Offering, K

-----------------------------------------------------------------------------
(* A file that is accepted loads, or the lint tells why not.                *)

\* Every name is declared once: checkSymbols counts them.
LEMMA OnlyOnce ==
    ASSUME NEW secs, AreSections(secs), ~checkSymbols(secs)
    PROVE  DeclaredTwice(secs) = {}
<1>. DEFINE g == [i \in DOMAIN secs |-> secs[i].declares]
            all == Seqs!FlattenSeq(g)
            n == Len(all)
<1>1. Len(secs) \in Nat /\ DOMAIN secs = 1..Len(secs)
  BY LenProperties DEF AreSections, IsSeq
<1>2. \A i \in 1..Len(secs) : g[i] = secs[i].declares /\ IsSeq(g[i])
  BY <1>1 DEF AreSections, Elements
<1>3. g \in [1..Len(secs) -> {g[i] : i \in 1..Len(secs)}]
  BY <1>1
<1>4. DeclaredIn(secs) = all
  BY DEF DeclaredIn
<1>. HIDE DEF g
<1>5. g \in Seq({g[i] : i \in 1..Len(secs)}) /\ Len(g) = Len(secs)
  BY <1>1, <1>3, IsASeq, LenProperties
<1>6. IsSeq(all)
  BY <1>2, <1>5, FlattenGathers DEF Gathered
<1>. HIDE DEF all
<1>7. birdSymbols \cap Elements(all) = {} /\ Cardinality(Elements(all)) = Len(all)
  BY <1>4 DEF checkSymbols
<1>8. n \in Nat /\ DOMAIN all = 1..n /\ all \in [1..n -> Elements(all)]
  BY <1>6, LenProperties DEF IsSeq
<1>9. all \in Surjection(1..n, Elements(all))
  BY <1>8 DEF Surjection, Elements
<1>10. IsFiniteSet(1..n) /\ Cardinality(1..n) = n
  BY <1>8, FS_Interval
<1>11. all \in Injection(1..n, Elements(all))
  BY <1>7, <1>9, <1>10, FS_Surjection
<1>12. \A j, k \in 1..n : all[j] = all[k] => j = k
  BY <1>8, <1>11 DEF Injection, IsInjective
<1>13. \A j \in DOMAIN all : \A k \in 1..(j - 1) : all[k] # all[j]
  BY <1>8, <1>12
<1>14. {all[i] : i \in {j \in DOMAIN all : \E k \in 1..(j - 1) : all[k] = all[j]}} = {}
  BY <1>13
<1>. QED BY <1>4, <1>7, <1>14 DEF DeclaredTwice

\* The lint names every community that peers or policies name and nobody defines.
LEMMA LostAreReported ==
    ASSUME NEW d, NEW n \in LostNames(d)
    PROVE  \E w \in LintReport(d) : w.finding.sev = "danger" /\ n \in w.finding.about
<1>. DEFINE A(p) == {Danger(p.name, "import community", {m}) :
                         m \in p.shape.importComms \ CommunityNames(d)}
            B(p) == {Danger(p.name, "export community", {m}) :
                         m \in p.shape.exportComms \ CommunityNames(d)}
            C == {Danger(None, "matched community", {pol.name, pol.comm}) :
                     pol \in {q \in LintPolicies(d) : q.comm \notin CommunityNames(d) \cup {None}}}
<1>1. DanglingCommunities(d) = (UNION {A(p) \cup B(p) : p \in LintPeers(d)}) \cup C
  BY Zenon DEF DanglingCommunities
<1>0. ASSUME NEW p \in LintPeers(d) PROVE A(p) \cup B(p) \subseteq DanglingCommunities(d)
  <2>. HIDE DEF A, B, C
  <2>. DEFINE S == {A(q) \cup B(q) : q \in LintPeers(d)}
  <2>1. A(p) \cup B(p) \in S
    OBVIOUS
  <2>. HIDE DEF S
  <2>2. A(p) \cup B(p) \subseteq UNION S
    BY <2>1
  <2>. QED BY <1>1, <2>2 DEF S
<1>2. \E peer, what, about : n \in about /\ Danger(peer, what, about) \in DanglingCommunities(d)
  <2>1. CASE n \in PeerRefs(d)
    <3>1. PICK i \in Live(d.peers) :
             n \in d.peers[i].shape.importComms \cup d.peers[i].shape.exportComms
      BY <2>1 DEF PeerRefs, CommunityRefs, CommunityFields
    <3>2. PICK p \in LintPeers(d) : n \in p.shape.importComms \cup p.shape.exportComms
      BY <3>1 DEF LintPeers, LiveRows
    <3>3. n \notin CommunityNames(d)
      BY DEF LostNames
    <3>4. CASE n \in p.shape.importComms
      <4>1. Danger(p.name, "import community", {n}) \in A(p)
        BY <3>3, <3>4
      <4>. HIDE DEF A, B, C
      <4>2. Danger(p.name, "import community", {n}) \in DanglingCommunities(d)
        BY <1>0, <4>1
      <4>3. n \in {n}
        OBVIOUS
      <4>. QED BY <4>2, <4>3, Zenon
    <3>5. CASE n \in p.shape.exportComms
      <4>1. Danger(p.name, "export community", {n}) \in B(p)
        BY <3>3, <3>5
      <4>. HIDE DEF A, B, C
      <4>2. Danger(p.name, "export community", {n}) \in DanglingCommunities(d)
        BY <1>0, <4>1
      <4>3. n \in {n}
        OBVIOUS
      <4>. QED BY <4>2, <4>3, Zenon
    <3>. QED BY <3>2, <3>4, <3>5
  <2>2. CASE n \in PolicyRefs(d)
    <3>1. PICK i \in Live(d.policies) : n = d.policies[i].comm /\ n # None
      BY <2>2 DEF PolicyRefs
    <3>2. PICK pol \in LintPolicies(d) : n = pol.comm
      BY <3>1 DEF LintPolicies, LiveRows
    <3>3. n \notin CommunityNames(d)
      BY DEF LostNames
    <3>4. Danger(None, "matched community", {pol.name, pol.comm}) \in C
      BY <3>1, <3>2, <3>3
    <3>. HIDE DEF A, B, C
    <3>5. Danger(None, "matched community", {pol.name, pol.comm}) \in DanglingCommunities(d)
      BY <1>1, <3>4
    <3>6. n \in {pol.name, pol.comm}
      BY <3>2
    <3>. QED BY <3>5, <3>6, Zenon
  <2>. QED BY <2>1, <2>2 DEF LostNames
<1>3. PICK peer, what, about :
         n \in about /\ Danger(peer, what, about) \in DanglingCommunities(d)
  BY <1>2
<1>. DEFINE w == Danger(peer, what, about)
<1>4. w \in Findings(d)
  BY <1>3 DEF Findings
<1>. DEFINE told == [finding |-> [w EXCEPT !.peer = None],
                     peers |-> IF Folded(d, Findings(d), w)
                               THEN {v.peer : v \in SameFor(d, Findings(d), w)}
                               ELSE {w.peer} \ {None}]
<1>5. told \in LintReport(d)
  BY <1>4 DEF LintReport, foldByTemplate
<1>6. told.finding.sev = "danger" /\ told.finding.about = about
  BY DEF Danger, Finding
<1>. QED BY <1>3, <1>5, <1>6

\* What an accepted file declares, it declares once; what it leaves undefined, the lint names.
THEOREM FileLoads ==
    ASSUME NEW d, Orderly(d), IsFiniteSet(Names), ~RefusedUnwritten(d),
           ~checkSymbols(Sections(d))
    PROVE  /\ DeclaredTwice(Sections(d)) = {}
           /\ \A x \in Undefined(Sections(d)) :
                 \E w \in LintReport(d) :
                     w.finding.sev = "danger" /\ x[3] \in w.finding.about
<1>1. DeclaredTwice(Sections(d)) = {}
  BY OnlyLostAreUndefined, OnlyOnce
<1>2. ASSUME NEW x \in Undefined(Sections(d)) PROVE \E n \in LostNames(d) : x[3] = n
  <2>1. PICK n \in LostNames(d) : x = Symbol(n)
    BY OnlyLostAreUndefined DEF Symbols
  <2>. QED BY <2>1 DEF Symbol
<1>. QED BY <1>1, <1>2, LostAreReported

=============================================================================
