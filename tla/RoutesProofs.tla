---------------------------- MODULE RoutesProofs ----------------------------
(***************************************************************************)
(* What the generated filters do to routes, for every catalog the forms    *)
(* can leave, every route and any number of internal sessions: the vetoes  *)
(* of an import chain hold, a route leaves only by permission, and the     *)
(* lint is right about the sessions it calls deaf.                         *)
(*                                                                         *)
(* The theory of running statements comes first; then what an import       *)
(* policy, a chain and an import filter do; then the export side; then the *)
(* invariant and the properties; the lint last.                            *)
(***************************************************************************)
EXTENDS Routes, ConfigProofs

-----------------------------------------------------------------------------
(* Running a sequence of statements.                                        *)

\* The states a run goes through.
Steps(stmts, start) ==
    CHOOSE out : out = [k \in 0..Len(stmts) |->
                           IF k = 0 THEN start ELSE Execute(out[k - 1], stmts[k])]

\* A run ends where its steps do: the recursive function of Run, named.
LEMMA RunsSteps == ASSUME NEW stmts, NEW start
                   PROVE  Run(stmts, start) = Steps(stmts, start)[Len(stmts)]
BY Zenon DEF Run, Steps

Walks(f, n, stmts, start) ==
    /\ DOMAIN f = 0..n /\ f[0] = start
    /\ \A k \in 1..n : f[k] = Execute(f[k - 1], stmts[k])

\* Some function takes the first n steps, for every n.
LEMMA WalkExists ==
    ASSUME NEW n \in Nat, NEW stmts, NEW start
    PROVE  \E f : /\ f = [k \in 0..n |-> IF k = 0 THEN start ELSE Execute(f[k - 1], stmts[k])]
                  /\ Walks(f, n, stmts, start)
<1>. DEFINE Good(m, f) == f = [k \in 0..m |-> IF k = 0 THEN start ELSE Execute(f[k - 1], stmts[k])]
<1>. DEFINE S == {m \in 0..n : \E f : Good(m, f)}
<1>1. 0 \in S
  <2>. DEFINE g == [k \in 0..0 |-> start]
  <2>1. \A k \in 0..0 : g[k] = IF k = 0 THEN start ELSE Execute(g[k - 1], stmts[k])
    OBVIOUS
  <2>2. Good(0, g)
    BY <2>1
  <2>3. 0 \in 0..n
    OBVIOUS
  <2>. HIDE DEF g
  <2>. QED BY <2>2, <2>3
<1>2. ASSUME NEW m \in 0..n - 1, m \in S PROVE m + 1 \in S
  <2>1. PICK f : Good(m, f)
    BY <1>2
  <2>. DEFINE g == [k \in 0..m + 1 |-> IF k = m + 1 THEN Execute(f[m], stmts[m + 1]) ELSE f[k]]
  <2>2. \A k \in 0..m : g[k] = f[k]
    OBVIOUS
  <2>3. \A k \in 0..m + 1 : g[k] = IF k = 0 THEN start ELSE Execute(g[k - 1], stmts[k])
    <3>. SUFFICES ASSUME NEW k \in 0..m + 1
                  PROVE  g[k] = IF k = 0 THEN start ELSE Execute(g[k - 1], stmts[k])
      OBVIOUS
    <3>1. CASE k = m + 1
      <4>1. g[k] = Execute(f[m], stmts[k]) /\ k - 1 = m /\ g[m] = f[m] /\ k # 0
        BY <3>1, <2>2
      <4>. QED BY <4>1
    <3>2. CASE k = 0
      BY <3>2, <2>1, <2>2
    <3>3. CASE k # 0 /\ k # m + 1
      <4>1. k \in 0..m /\ k - 1 \in 0..m /\ g[k] = f[k] /\ g[k - 1] = f[k - 1]
        BY <3>3, <2>2
      <4>2. f[k] = Execute(f[k - 1], stmts[k])
        BY <2>1, <3>3, <4>1
      <4>. QED BY <3>3, <4>1, <4>2
    <3>. QED BY <3>1, <3>2, <3>3
  <2>4. Good(m + 1, g)
    BY <2>3
  <2>5. m + 1 \in 0..n
    OBVIOUS
  <2>. HIDE DEF g
  <2>. QED BY <2>4, <2>5
<1>3. n \in S
  <2>. HIDE DEF S
  <2>1. \A k \in 0..n : k \in S
    BY <1>1, <1>2, UpTo
  <2>. QED BY <2>1
<1>4. PICK f : Good(n, f)
  BY <1>3
<1>5. Walks(f, n, stmts, start)
  BY <1>4 DEF Walks
<1>. QED BY <1>4, <1>5

\* So the steps of a run are what their recursion says.
LEMMA StepsWalk ==
    ASSUME NEW stmts, Len(stmts) \in Nat, NEW start
    PROVE  Walks(Steps(stmts, start), Len(stmts), stmts, start)
<1>. DEFINE f == Steps(stmts, start)
<1>1. f = [k \in 0..Len(stmts) |-> IF k = 0 THEN start ELSE Execute(f[k - 1], stmts[k])]
  <2>1. \E g : g = [k \in 0..Len(stmts) |-> IF k = 0 THEN start ELSE Execute(g[k - 1], stmts[k])]
    BY WalkExists
  <2>. QED BY <2>1, Zenon DEF Steps
<1>. HIDE DEF f
<1>. QED BY <1>1 DEF Walks, f

\* Whatever goes through the statements one by one is the run.
LEMMA RunIs ==
    ASSUME NEW stmts, Len(stmts) \in Nat, NEW start, NEW f, f[0] = start,
           \A k \in 1..Len(stmts) : f[k] = Execute(f[k - 1], stmts[k])
    PROVE  Run(stmts, start) = f[Len(stmts)]
<1>. DEFINE n == Len(stmts)
            g == Steps(stmts, start)
            S == {k \in 0..n : f[k] = g[k]}
<1>1. Walks(g, n, stmts, start)
  BY StepsWalk
<1>. HIDE DEF g
<1>2. 0 \in S
  BY <1>1 DEF Walks
<1>3. ASSUME NEW k \in 0..n - 1, k \in S PROVE k + 1 \in S
  <2>1. k + 1 \in 1..n /\ (k + 1) - 1 = k /\ f[k] = g[k]
    BY <1>3
  <2>2. f[k + 1] = Execute(f[k], stmts[k + 1]) /\ g[k + 1] = Execute(g[k], stmts[k + 1])
    BY <1>1, <2>1 DEF Walks
  <2>. QED BY <2>1, <2>2
<1>4. n \in S
  <2>. HIDE DEF S
  <2>1. \A k \in 0..n : k \in S
    BY <1>2, <1>3, UpTo
  <2>. QED BY <2>1
<1>. QED BY <1>4, RunsSteps DEF g

\* A filter without statements leaves the route alone.
LEMMA RunEmpty == ASSUME NEW o PROVE Run(<<>>, o) = o
<1>1. Run(<<>>, o) = [k \in 0..0 |-> o][Len(<<>>)]
  <2>. DEFINE f == [k \in 0..0 |-> o]
  <2>1. f[0] = o /\ Len(<<>>) = 0
    OBVIOUS
  <2>. HIDE DEF f
  <2>. QED BY <2>1, RunIs
<1>. QED BY <1>1

\* A filter of one statement executes it.
LEMMA RunOne == ASSUME NEW s, NEW o PROVE Run(<<s>>, o) = Execute(o, s)
<1>. DEFINE f == [k \in 0..1 |-> IF k = 0 THEN o ELSE Execute(o, s)]
<1>1. f[0] = o /\ f[1] = Execute(f[0], s) /\ Len(<<s>>) = 1 /\ <<s>>[1] = s
  OBVIOUS
<1>2. \A k \in 1..1 : k = 1 /\ k - 1 = 0
  OBVIOUS
<1>3. f[1] = Execute(o, s)
  OBVIOUS
<1>. HIDE DEF f
<1>4. Run(<<s>>, o) = f[1]
  BY <1>1, <1>2, RunIs
<1>. QED BY <1>3, <1>4

\* Statements put one after the other run one after the other: a policy that neither accepts
\* nor rejects returns to the session's filter.
LEMMA RunConcat ==
    ASSUME NEW a, NEW b, IsSeq(a), IsSeq(b), NEW o
    PROVE  Run(a \o b, o) = Run(b, Run(a, o))
<1>. DEFINE m == Len(a)
            n == Len(b)
            f == Steps(a, o)
            g == Steps(b, Run(a, o))
            h == [k \in 0..m + n |-> IF k <= m THEN f[k] ELSE g[k - m]]
<1>1. /\ m \in Nat /\ n \in Nat /\ Len(a \o b) = m + n
      /\ \A k \in 1..m : (a \o b)[k] = a[k]
      /\ \A k \in 1..n : (a \o b)[m + k] = b[k]
  BY ConcatIs
<1>2. Walks(f, m, a, o) /\ Walks(g, n, b, Run(a, o))
  BY <1>1, StepsWalk
<1>3. f[m] = Run(a, o) /\ g[n] = Run(b, Run(a, o))
  BY RunsSteps
<1>. HIDE DEF f, g, m, n
<1>4. h[0] = o
  BY <1>1, <1>2 DEF Walks
<1>5. \A k \in 0..n : h[m + k] = g[k]
  <2>. SUFFICES ASSUME NEW k \in 0..n PROVE h[m + k] = g[k]
    OBVIOUS
  <2>1. m + k \in 0..m + n /\ (m + k) - m = k
    BY <1>1
  <2>2. CASE k = 0
    BY <2>2, <1>1, <1>2, <1>3 DEF Walks
  <2>3. CASE k # 0
    BY <2>3, <2>1, <1>1
  <2>. QED BY <2>2, <2>3
<1>6. \A k \in 0..m : h[k] = f[k]
  BY <1>1
<1>. HIDE DEF h
<1>7. ASSUME NEW k \in 1..m + n PROVE h[k] = Execute(h[k - 1], (a \o b)[k])
  <2>1. CASE k <= m
    <3>1. k \in 1..m /\ k - 1 \in 0..m /\ k \in 0..m
      BY <2>1, <1>1
    <3>2. h[k] = f[k] /\ h[k - 1] = f[k - 1] /\ (a \o b)[k] = a[k]
      BY <3>1, <1>6, <1>1
    <3>. QED BY <3>1, <3>2, <1>2 DEF Walks
  <2>2. CASE ~(k <= m)
    <3>. DEFINE j == k - m
    <3>1. j \in 1..n /\ j - 1 \in 0..n /\ j \in 0..n /\ k = m + j /\ k - 1 = m + (j - 1)
      BY <2>2, <1>1
    <3>2. h[k] = g[j] /\ h[k - 1] = g[j - 1] /\ (a \o b)[k] = b[j]
      BY <3>1, <1>5, <1>1
    <3>3. g[j] = Execute(g[j - 1], b[j])
      BY <3>1, <1>2 DEF Walks
    <3>. QED BY <3>2, <3>3
  <2>. QED BY <2>1, <2>2
<1>8. h[m + n] = g[n]
  BY <1>1, <1>5
<1>9. Run(a \o b, o) = h[Len(a \o b)]
  <2>1. Len(a \o b) \in Nat /\ 1..Len(a \o b) = 1..m + n
    BY <1>1
  <2>2. \A k \in 1..Len(a \o b) : h[k] = Execute(h[k - 1], (a \o b)[k])
    BY <1>7, <2>1
  <2>. QED BY <1>4, <2>1, <2>2, RunIs
<1>. QED BY <1>1, <1>3, <1>8, <1>9

\* What no statement breaks, a run does not.
LEMMA RunKeeps ==
    ASSUME NEW s, IsSeq(s), NEW S, NEW o \in S,
           \A x \in S, e \in Elements(s) : Execute(x, e) \in S
    PROVE  Run(s, o) \in S
<1>. DEFINE n == Len(s)
            f == Steps(s, o)
            T == {k \in 0..n : f[k] \in S}
<1>1. n \in Nat /\ DOMAIN s = 1..n
  BY LenProperties DEF IsSeq
<1>2. Walks(f, n, s, o)
  BY <1>1, StepsWalk
<1>. HIDE DEF f, n
<1>3. 0 \in T
  BY <1>1, <1>2 DEF Walks
<1>4. ASSUME NEW k \in 0..n - 1, k \in T PROVE k + 1 \in T
  <2>1. k + 1 \in 1..n /\ (k + 1) - 1 = k /\ f[k] \in S /\ k + 1 \in 0..n
    BY <1>1, <1>4
  <2>2. f[k + 1] = Execute(f[k], s[k + 1]) /\ s[k + 1] \in Elements(s)
    BY <1>1, <1>2, <2>1 DEF Walks, Elements
  <2>3. f[k + 1] \in S
    BY <2>1, <2>2
  <2>. QED BY <2>1, <2>3
<1>5. n \in T
  <2>. HIDE DEF T
  <2>1. \A k \in 0..n : k \in T
    BY <1>1, <1>3, <1>4, UpTo
  <2>. QED BY <1>1, <2>1
<1>. QED BY <1>5, RunsSteps DEF f, n

Chained(seqs, o) ==
    \E F : /\ F[0] = o /\ \A i \in 1..Len(seqs) : F[i] = Run(seqs[i], F[i - 1])
           /\ Run(Seqs!FlattenSeq(seqs), o) = F[Len(seqs)]

\* A chain runs its parts in their order; its statements are theirs (FlattenGathers).
LEMMA RunChain ==
    ASSUME NEW T, NEW seqs \in Seq(T), NEW n, n = Len(seqs),
           \A i \in 1..n : IsSeq(seqs[i]), NEW o
    PROVE  Chained(seqs, o)
<1>0. n \in Nat /\ DOMAIN seqs = 1..n
  BY LenProperties
<1>1. CASE n = 0
  <2>1. Seqs!FlattenSeq(seqs) = seqs
    <3>1. Len(seqs) = 0
      BY <1>1
    <3>2. seqs = <<>>
      BY <3>1, EmptySeq
    <3>. QED BY <3>1, <3>2, Zenon DEF Seqs!FlattenSeq
  <2>2. seqs = <<>>
    BY <1>1, EmptySeq
  <2>. DEFINE F == [i \in 0..0 |-> o]
  <2>4. F[0] = o /\ \A i \in 1..0 : FALSE
    OBVIOUS
  <2>. HIDE DEF F
  <2>. QED BY <1>1, <2>1, <2>2, <2>4, RunEmpty DEF Chained
<1>2. CASE n # 0
  <2>1. PICK f : /\ f[1] = seqs[1]
                 /\ \A i \in 2..n : f[i] = f[i - 1] \o seqs[i]
                 /\ Seqs!FlattenSeq(seqs) = f[n]
    <3>1. n \in Nat /\ DOMAIN seqs = 1..n /\ Len(seqs) = n /\ n # 0
      BY <1>0, <1>2
    <3>. QED BY <3>1, FlattenIs, Zenon
  <2>. DEFINE Made(i) == IsSeq(f[i])
              S == {i \in 0..n : i # 0 => Made(i)}
  <2>2. 0 \in S
    OBVIOUS
  <2>3. ASSUME NEW k \in 0..n - 1, k \in S PROVE k + 1 \in S
    <3>1. CASE k = 0
      BY <1>0, <3>1, <2>1, <1>2
    <3>2. CASE k # 0
      <4>1. /\ k + 1 \in 2..n /\ k + 1 \in 1..n /\ (k + 1) - 1 = k
            /\ Made(k) /\ IsSeq(seqs[k + 1])
        BY <1>0, <3>2, <2>3
      <4>2. f[k + 1] = f[k] \o seqs[k + 1]
        BY <4>1, <2>1
      <4>3. IsSeq(f[k + 1])
        BY <4>1, <4>2, ConcatIs
      <4>4. Made(k + 1)
        BY <4>1, <4>3
      <4>. QED BY <4>1, <4>4
    <3>. QED BY <3>1, <3>2
  <2>4. \A k \in 0..n : k \in S
    <3>. HIDE DEF S
    <3>. QED BY <2>2, <2>3, UpTo
  <2>5. \A k \in 1..n : Made(k)
    BY <2>4
  <2>. DEFINE F == [i \in 0..n |-> IF i = 0 THEN o ELSE Run(f[i], o)]
  <2>6. F[0] = o /\ F[n] = Run(f[n], o)
    BY <1>2
  <2>7. ASSUME NEW i \in 1..n PROVE F[i] = Run(seqs[i], F[i - 1])
    <3>1. CASE i = 1
      BY <3>1, <2>1
    <3>2. CASE i # 1
      <4>1. i \in 2..n /\ i - 1 \in 1..n
        BY <3>2
      <4>2. F[i] = Run(f[i], o) /\ F[i - 1] = Run(f[i - 1], o)
        BY <4>1
      <4>3. f[i] = f[i - 1] \o seqs[i] /\ IsSeq(f[i - 1]) /\ IsSeq(seqs[i])
        BY <4>1, <2>1, <2>5
      <4>. HIDE DEF F
      <4>. QED BY <4>2, <4>3, RunConcat
    <3>. QED BY <3>1, <3>2
  <2>8. n \in 1..n
    BY <1>2
  <2>. HIDE DEF F
  <2>. QED BY <2>1, <2>5, <2>6, <2>7, <2>8 DEF Chained
<1>. QED BY <1>1, <1>2

-----------------------------------------------------------------------------
(* What a run amounts to: either no statement stopped it, or one did.       *)
Open(r) == [verdict |-> "open", route |-> r]
Left(e, x) == [verdict |-> Verdict(e.do), route |-> Effect(e.do, e.val, x)]
Stops(e, x) == Holds(e.test, e.arg, x) /\ Verdict(e.do) # "open"
Lets(e, x) == Holds(e.test, e.arg, x) => Verdict(e.do) = "open"

\* Whatever routes a run that is still open can be at, it let each statement act on one of
\* them, or it was stopped by one of them.
LEMMA RunStory ==
    ASSUME NEW s, IsSeq(s), NEW S, NEW r \in S,
           \A e \in Elements(s), x \in S :
               Holds(e.test, e.arg, x) /\ Verdict(e.do) = "open" => Effect(e.do, e.val, x) \in S
    PROVE  \/ /\ \E x \in S : Run(s, Open(r)) = Open(x)
              /\ \A e \in Elements(s) : \E x \in S : Lets(e, x)
           \/ \E e \in Elements(s), x \in S : Stops(e, x) /\ Run(s, Open(r)) = Left(e, x)
<1>. DEFINE n == Len(s)
            f == Steps(s, Open(r))
            Goes(k) == /\ \E x \in S : f[k] = Open(x)
                       /\ \A j \in 1..k : \E x \in S : Lets(s[j], x)
            Stopped(k) == \E e \in Elements(s), x \in S : Stops(e, x) /\ f[k] = Left(e, x)
            T == {k \in 0..n : Goes(k) \/ Stopped(k)}
<1>1. n \in Nat /\ DOMAIN s = 1..n
  BY LenProperties DEF IsSeq
<1>2. Walks(f, n, s, Open(r))
  BY <1>1, StepsWalk
<1>. HIDE DEF f, n
<1>3. 0 \in T
  <2>1. f[0] = Open(r)
    BY <1>2 DEF Walks
  <2>. QED BY <1>1, <2>1
<1>4. ASSUME NEW k \in 0..n - 1, k \in T PROVE k + 1 \in T
  <2>1. k + 1 \in 1..n /\ (k + 1) - 1 = k /\ k + 1 \in 0..n
    BY <1>1, <1>4
  <2>. DEFINE e == s[k + 1]
  <2>2. f[k + 1] = Execute(f[k], e) /\ e \in Elements(s)
    BY <1>1, <1>2, <2>1 DEF Walks, Elements
  <2>3. CASE Stopped(k)
    <3>1. PICK a \in Elements(s), x \in S : Stops(a, x) /\ f[k] = Left(a, x)
      BY <2>3
    <3>2. f[k].verdict # "open"
      BY <3>1 DEF Left, Stops
    <3>3. f[k + 1] = f[k]
      BY <2>2, <3>2 DEF Execute
    <3>4. Stopped(k + 1)
      BY <3>1, <3>3
    <3>. QED BY <2>1, <3>4
  <2>4. CASE Goes(k)
    <3>1. PICK x \in S : f[k] = Open(x)
      BY <2>4
    <3>2. f[k].verdict = "open" /\ f[k].route = x
      BY <3>1 DEF Open
    <3>3. CASE ~Holds(e.test, e.arg, x)
      <4>1. f[k + 1] = Open(x) /\ Lets(e, x)
        BY <2>2, <3>1, <3>2, <3>3 DEF Execute, Lets
      <4>2. \A j \in 1..k + 1 : j \in 1..k \/ j = k + 1
        BY <2>1
      <4>3. Goes(k + 1)
        BY <4>1, <4>2, <2>4
      <4>. QED BY <2>1, <4>3
    <3>4. CASE Holds(e.test, e.arg, x) /\ Verdict(e.do) = "open"
      <4>1. f[k + 1] = Open(Effect(e.do, e.val, x)) /\ Lets(e, x)
        BY <2>2, <3>2, <3>4 DEF Execute, Lets, Open
      <4>2. Effect(e.do, e.val, x) \in S
        BY <2>2, <3>4
      <4>3. \A j \in 1..k + 1 : j \in 1..k \/ j = k + 1
        BY <2>1
      <4>4. Goes(k + 1)
        BY <4>1, <4>2, <4>3, <2>4
      <4>. QED BY <2>1, <4>4
    <3>5. CASE Stops(e, x)
      <4>1. f[k + 1] = Left(e, x)
        BY <2>2, <3>2, <3>5 DEF Execute, Stops, Left
      <4>2. Stopped(k + 1)
        BY <4>1, <2>2, <3>5
      <4>. QED BY <2>1, <4>2
    <3>. QED BY <3>3, <3>4, <3>5 DEF Stops
  <2>. QED BY <1>4, <2>3, <2>4
<1>5. n \in T
  <2>. HIDE DEF T
  <2>1. \A k \in 0..n : k \in T
    BY <1>1, <1>3, <1>4, UpTo
  <2>. QED BY <1>1, <2>1
<1>6. Run(s, Open(r)) = f[n]
  BY RunsSteps DEF f, n
<1>7. CASE Goes(n)
  <2>1. \A e \in Elements(s) : \E x \in S : Lets(e, x)
    BY <1>1, <1>7 DEF Elements
  <2>. QED BY <1>6, <1>7, <2>1
<1>8. CASE Stopped(n)
  BY <1>6, <1>8
<1>. QED BY <1>5, <1>7, <1>8

\* After the verdict nothing happens.
LEMMA RunStopped ==
    ASSUME NEW s, IsSeq(s), NEW o, o.verdict # "open"
    PROVE  Run(s, o) = o
<1>1. \A x \in {o}, e \in Elements(s) : Execute(x, e) \in {o}
  <2>1. \A e : Execute(o, e) = o
    BY DEF Execute
  <2>. QED BY <2>1
<1>2. Run(s, o) \in {o}
  <2>1. o \in {o}
    OBVIOUS
  <2>. QED BY <1>1, <2>1, RunKeeps, Zenon
<1>. QED BY <1>2

-----------------------------------------------------------------------------
(* Statements.                                                              *)

\* The tests of BIRD's expressions, one by one.
LEMMA HoldsIs ==
    ASSUME NEW a, NEW x
    PROVE  /\ Holds("always", a, x)
           /\ Holds("default", a, x) <=> IsDefault(x.net)
           /\ Holds("not default", a, x) <=> ~IsDefault(x.net)
           /\ Holds("blackhole", a, x) <=> BLACKHOLE \in x.comms /\ IsHost(x.net)
           /\ Holds("blackhole in", a, x) <=> /\ BLACKHOLE \in x.comms /\ IsHost(x.net)
                                              /\ x.net \in NetsBelow(a)
           /\ Holds("length", a, x) <=> OutOf(a, x.net.len)
           /\ Holds("length but default", a, x) <=> ~IsDefault(x.net) /\ OutOf(a, x.net.len)
           /\ Holds("in", a, x) <=> x.net \in NetsOf(a)
           /\ Holds("not in", a, x) <=> x.net \notin NetsOf(a)
           /\ Holds("carries", a, x) <=> a \cap x.comms # {}
           /\ Holds("origin not in", a, x) <=> Origin(x) \cap a = {}
           /\ Holds("first not", a, x) <=> a \notin First(x)
           /\ Holds("invalid", a, x) <=> \E o \in Origin(x) : <<x.net, o>> \in RPKIInvalid
           /\ Holds("longer path", a, x) <=> Len(x.path) > a
           /\ Holds("path has", a, x) <=> Elements(x.path) \cap a # {}
<1>1. Holds("always", a, x)
  BY DEF Holds
<1>2. Holds("default", a, x) <=> IsDefault(x.net)
  BY DEF Holds
<1>3. Holds("not default", a, x) <=> ~IsDefault(x.net)
  BY DEF Holds
<1>4. Holds("blackhole", a, x) <=> BLACKHOLE \in x.comms /\ IsHost(x.net)
  BY DEF Holds
<1>5. Holds("blackhole in", a, x) <=> /\ BLACKHOLE \in x.comms /\ IsHost(x.net)
                                      /\ x.net \in NetsBelow(a)
  BY DEF Holds
<1>6. Holds("length", a, x) <=> OutOf(a, x.net.len)
  BY DEF Holds
<1>7. Holds("length but default", a, x) <=> ~IsDefault(x.net) /\ OutOf(a, x.net.len)
  BY DEF Holds
<1>8. Holds("in", a, x) <=> x.net \in NetsOf(a)
  BY DEF Holds
<1>9. Holds("not in", a, x) <=> x.net \notin NetsOf(a)
  BY DEF Holds
<1>10. Holds("carries", a, x) <=> a \cap x.comms # {}
  BY DEF Holds
<1>11. Holds("origin not in", a, x) <=> Origin(x) \cap a = {}
  BY DEF Holds
<1>12. Holds("first not", a, x) <=> a \notin First(x)
  BY DEF Holds
<1>13. Holds("invalid", a, x) <=> \E o \in Origin(x) : <<x.net, o>> \in RPKIInvalid
  BY DEF Holds
<1>14. Holds("longer path", a, x) <=> Len(x.path) > a
  BY DEF Holds
<1>15. Holds("path has", a, x) <=> Elements(x.path) \cap a # {}
  BY DEF Holds
<1>. QED BY <1>1, <1>2, <1>3, <1>4, <1>5, <1>6, <1>7, <1>8, <1>9, <1>10, <1>11, <1>12, <1>13,
            <1>14, <1>15

\* What each statement decides.
LEMMA VerdictIs ==
    /\ Verdict("accept") = "accept" /\ Verdict("discard") = "accept"
    /\ Verdict("reject") = "reject" /\ Verdict("add") = "open" /\ Verdict("strip") = "open"
    /\ Verdict("prefer") = "open" /\ Verdict("prepend") = "open"
BY DEF Verdict

\* What each statement changes.
LEMMA EffectIs ==
    ASSUME NEW v, NEW x
    PROVE  /\ Effect("add", v, x) = [x EXCEPT !.comms = @ \cup v]
           /\ Effect("strip", v, x) = [x EXCEPT !.comms = {c \in @ : ~(c.large /\ c.asn = v)}]
           /\ Effect("prefer", v, x) = [x EXCEPT !.pref = v]
           /\ Effect("prepend", v, x) = [x EXCEPT !.path = <<v>> \o @]
           /\ Effect("discard", v, x) = [x EXCEPT !.hole = TRUE]
           /\ Effect("accept", v, x) = x /\ Effect("reject", v, x) = x
<1>1. Effect("add", v, x) = [x EXCEPT !.comms = @ \cup v]
  BY DEF Effect
<1>2. Effect("strip", v, x) = [x EXCEPT !.comms = {c \in @ : ~(c.large /\ c.asn = v)}]
  BY DEF Effect
<1>3. Effect("prefer", v, x) = [x EXCEPT !.pref = v]
  BY DEF Effect
<1>4. Effect("prepend", v, x) = [x EXCEPT !.path = <<v>> \o @]
  BY DEF Effect
<1>5. Effect("discard", v, x) = [x EXCEPT !.hole = TRUE]
  BY DEF Effect
<1>6. Effect("accept", v, x) = x /\ Effect("reject", v, x) = x
  BY DEF Effect
<1>. QED BY <1>1, <1>2, <1>3, <1>4, <1>5, <1>6

-----------------------------------------------------------------------------
(* The statements of an import policy.                                      *)

\* What a statement of an import policy may be.
ImportStmt(d, pol, e) ==
    \/ e.do = "reject"
    \/ /\ e.do = "discard" /\ pol.rules.blackhole
       /\ IF pol.allow = None THEN e.test = "blackhole"
          ELSE e.test = "blackhole in" /\ e.arg = AllowSet(d, pol).entries
    \/ e.do = "add" /\ e.test = "invalid" /\ e.val = {RPKI_INVALID(d)}
    \/ e.do = "prefer" /\ pol.rules.pref > 0 /\ e.val = pol.rules.pref

Within(a, s) == Elements(a) \subseteq Elements(s)
Part(d, pol, s) == IsSeq(s) /\ \A e \in Elements(s) : ImportStmt(d, pol, e)
RejectsOn(s, test, arg) == \E e \in Elements(s) : e.test = test /\ e.arg = arg /\ e.do = "reject"

\* Two parts of an import policy put together.
LEMMA PartJoin ==
    ASSUME NEW d, NEW pol, NEW a, NEW b, Part(d, pol, a), Part(d, pol, b)
    PROVE  Part(d, pol, a \o b) /\ Within(a, a \o b) /\ Within(b, a \o b)
BY Join DEF Part, Within

\* What rejects in a part rejects in the whole.
LEMMA WithinRejects ==
    ASSUME NEW a, NEW s, Within(a, s), NEW test, NEW arg, RejectsOn(a, test, arg)
    PROVE  RejectsOn(s, test, arg)
BY DEF Within, RejectsOn

\* An optional part of an import policy.
LEMMA PartOpt ==
    ASSUME NEW d, NEW pol, NEW given, NEW s, given => Part(d, pol, s), IsSeq(s)
    PROVE  Part(d, pol, Opt(given, s)) /\ (given => Elements(Opt(given, s)) = Elements(s))
BY OptIs DEF Part

\* A rejecting statement of an import policy.
LEMMA RejectIs ==
    ASSUME NEW d, NEW pol, NEW test, NEW arg, NEW syms
    PROVE  /\ Part(d, pol, RejectIf(test, arg, syms))
           /\ \A e \in Elements(RejectIf(test, arg, syms)) : e.do = "reject"
           /\ RejectsOn(RejectIf(test, arg, syms), test, arg)
<1>. DEFINE e == [test |-> test, arg |-> arg, do |-> "reject", val |-> None, uses |-> syms]
<1>1. Only(RejectIf(test, arg, syms), e)
  BY StmtIs DEF RejectIf
<1>. QED BY <1>1 DEF Only, Part, RejectsOn, ImportStmt

\* The blackhole rule (BlackholeRule).
LEMMA BlackholePart ==
    ASSUME NEW d, NEW pol PROVE Part(d, pol, BlackholeRule(d, pol))
<1>. DEFINE s == IF pol.allow = None THEN Stmt("blackhole", None, "discard", None, {})
                 ELSE Stmt("blackhole in", AllowSet(d, pol).entries, "discard", None, {})
<1>1. CASE pol.allow = None
  <2>1. IsSeq(s) /\ (pol.rules.blackhole => Part(d, pol, s))
    BY <1>1, StmtIs DEF Part, ImportStmt, Only
  <2>. HIDE DEF s
  <2>2. Part(d, pol, Opt(pol.rules.blackhole, s))
    BY <2>1, PartOpt
  <2>. QED BY <2>2 DEF BlackholeRule, s
<1>2. CASE pol.allow # None
  <2>1. IsSeq(s) /\ (pol.rules.blackhole => Part(d, pol, s))
    <3>. DEFINE a == AllowSet(d, pol).entries
                e == [test |-> "blackhole in", arg |-> a, do |-> "discard", val |-> None,
                      uses |-> {}]
    <3>1. s = Stmt("blackhole in", a, "discard", None, {})
      BY <1>2
    <3>2. pol.rules.blackhole => ImportStmt(d, pol, e)
      BY <1>2 DEF ImportStmt
    <3>3. Only(s, e)
      BY <3>1, StmtIs
    <3>. HIDE DEF s, e
    <3>. QED BY <3>2, <3>3 DEF Part, Only
  <2>. HIDE DEF s
  <2>2. Part(d, pol, Opt(pol.rules.blackhole, s))
    BY <2>1, PartOpt
  <2>. QED BY <2>2 DEF BlackholeRule, s
<1>. QED BY <1>1, <1>2

\* The default-route rule (DefaultRule).
LEMMA DefaultPart ==
    ASSUME NEW d, NEW pol
    PROVE  /\ Part(d, pol, DefaultRule(pol))
           /\ pol.rules.default = "reject" => RejectsOn(DefaultRule(pol), "default", None)
           /\ pol.rules.default = "only" => RejectsOn(DefaultRule(pol), "not default", None)
<1>1. CASE pol.rules.default = "reject"
  BY <1>1, RejectIs DEF DefaultRule
<1>2. CASE pol.rules.default = "only"
  BY <1>2, RejectIs DEF DefaultRule
<1>3. CASE pol.rules.default \notin {"reject", "only"}
  <2>1. DefaultRule(pol) = <<>>
    BY <1>3 DEF DefaultRule
  <2>. QED BY <1>3, <2>1, EmptyIs DEF Part
<1>. QED BY <1>1, <1>2, <1>3

Bounded(pol, f) == pol.rules.lens[f].min > 0 \/ pol.rules.lens[f].max > 0

\* The prefix-length rule (LengthRule).
LEMMA LengthPart ==
    ASSUME NEW d, NEW pol, NEW f
    PROVE  /\ Part(d, pol, LengthRule(pol, f))
           /\ Bounded(pol, f) /\ pol.rules.default # "only" =>
                  \/ RejectsOn(LengthRule(pol, f), "length", pol.rules.lens[f])
                  \/ RejectsOn(LengthRule(pol, f), "length but default", pol.rules.lens[f])
<1>. DEFINE t == IF pol.rules.default = "accept" THEN "length but default" ELSE "length"
            s == RejectIf(t, pol.rules.lens[f], {})
<1>1. t \in {"length", "length but default"}
  OBVIOUS
<1>. HIDE DEF t
<1>2. Part(d, pol, s) /\ RejectsOn(s, t, pol.rules.lens[f])
  BY RejectIs
<1>. HIDE DEF s
<1>3. LengthRule(pol, f) = Opt(pol.rules.default # "only" /\ Bounded(pol, f), s)
  BY DEF LengthRule, Bounded, s, t
<1>4. /\ Part(d, pol, LengthRule(pol, f))
      /\ Bounded(pol, f) /\ pol.rules.default # "only" =>
             Elements(LengthRule(pol, f)) = Elements(s)
  <2>. DEFINE g == pol.rules.default # "only" /\ Bounded(pol, f)
  <2>1. IsSeq(s)
    BY <1>2 DEF Part
  <2>. HIDE DEF g
  <2>2. Part(d, pol, Opt(g, s)) /\ (g => Elements(Opt(g, s)) = Elements(s))
    BY <1>2, <2>1, PartOpt
  <2>. QED BY <1>3, <2>2 DEF g
<1>. QED BY <1>1, <1>2, <1>4 DEF RejectsOn

\* A rule that is written or not.
LEMMA OptReject ==
    ASSUME NEW d, NEW pol, NEW given, NEW test, NEW arg, NEW syms
    PROVE  /\ Part(d, pol, Opt(given, RejectIf(test, arg, syms)))
           /\ given => RejectsOn(Opt(given, RejectIf(test, arg, syms)), test, arg)
<1>1. Part(d, pol, RejectIf(test, arg, syms)) /\ RejectsOn(RejectIf(test, arg, syms), test, arg)
  BY RejectIs
<1>2. /\ Part(d, pol, Opt(given, RejectIf(test, arg, syms)))
      /\ given => Elements(Opt(given, RejectIf(test, arg, syms))) =
                      Elements(RejectIf(test, arg, syms))
  BY <1>1, PartOpt DEF Part
<1>. QED BY <1>1, <1>2 DEF RejectsOn

\* The bogon rule (BogonRule).
LEMMA BogonPart ==
    ASSUME NEW d, NEW pol, NEW f
    PROVE  /\ Part(d, pol, BogonRule(d, pol, f))
           /\ pol.bogons => RejectsOn(BogonRule(d, pol, f), "in", SetNamed(d, BogonSet(f)))
BY OptReject DEF BogonRule

\* The rule on a community (MatchRule).
LEMMA MatchPart ==
    ASSUME NEW d, NEW pol
    PROVE  /\ Part(d, pol, MatchRule(d, pol, "reject"))
           /\ pol.comm # None =>
                  RejectsOn(MatchRule(d, pol, "reject"), "carries", communityByName(d, pol.comm))
<1>. DEFINE v == communityByName(d, pol.comm)
            ns == Symbols({pol.comm})
<1>1. MatchRule(d, pol, "reject") = Opt(pol.comm # None, RejectIf("carries", v, ns))
  BY DEF MatchRule, communityRefExpr, RejectIf
<1>. HIDE DEF v, ns
<1>2. /\ Part(d, pol, MatchRule(d, pol, "reject"))
      /\ pol.comm # None => RejectsOn(MatchRule(d, pol, "reject"), "carries", v)
  BY <1>1, OptReject
<1>. QED BY <1>2 DEF v

\* The allow-list (AllowRule).
LEMMA AllowPart ==
    ASSUME NEW d, NEW pol
    PROVE  /\ Part(d, pol, AllowRule(d, pol))
           /\ pol.allow # None =>
                  RejectsOn(AllowRule(d, pol), "not in", AllowSet(d, pol).entries)
BY OptReject DEF AllowRule

\* The AS set of the origin (OriginRule).
LEMMA OriginPart ==
    ASSUME NEW d, NEW pol
    PROVE  /\ Part(d, pol, OriginRule(d, pol))
           /\ pol.origin # None =>
                  RejectsOn(OriginRule(d, pol), "origin not in", d.asSets[pol.origin].members)
BY OptReject DEF OriginRule

\* The ROA check (ROVRule): it rejects or marks.
LEMMA ROVPart ==
    ASSUME NEW d, NEW pol, NEW f
    PROVE  /\ Part(d, pol, ROVRule(d, pol, f))
           /\ pol.rov = "reject" => RejectsOn(ROVRule(d, pol, f), "invalid", None)
<1>1. CASE pol.rov = "reject"
  BY <1>1, RejectIs DEF ROVRule
<1>2. CASE pol.rov = "log"
  <2>. DEFINE syms == Symbols({RoaTable(f), "RPKI_INVALID"})
  <2>1. ROVRule(d, pol, f) = Stmt("invalid", None, "add", {RPKI_INVALID(d)}, syms)
    BY <1>2 DEF ROVRule
  <2>. HIDE DEF syms
  <2>. DEFINE e == [test |-> "invalid", arg |-> None, do |-> "add", val |-> {RPKI_INVALID(d)},
                    uses |-> syms]
  <2>2. ImportStmt(d, pol, e)
    BY DEF ImportStmt
  <2>3. Only(ROVRule(d, pol, f), e)
    BY <2>1, StmtIs
  <2>. HIDE DEF e
  <2>. QED BY <1>2, <2>2, <2>3 DEF Part, Only
<1>3. CASE pol.rov \notin {"reject", "log"}
  <2>1. ROVRule(d, pol, f) = <<>>
    BY <1>3 DEF ROVRule
  <2>. QED BY <1>3, <2>1, EmptyIs DEF Part
<1>. QED BY <1>1, <1>2, <1>3

\* The path rules (PathRule).
LEMMA PathPart ==
    ASSUME NEW d, NEW pol
    PROVE  /\ Part(d, pol, PathRule(d, pol))
           /\ pol.rules.pathLen > 0 =>
                  RejectsOn(PathRule(d, pol), "longer path", pol.rules.pathLen)
           /\ pol.rules.ownASN => RejectsOn(PathRule(d, pol), "path has", {d.router.asn})
           /\ pol.rules.bogonASNs = "all" =>
                  RejectsOn(PathRule(d, pol), "path has", ASNsOf(BogonASNs(d)))
           /\ pol.rules.bogonASNs = "exceptPrivate" =>
                  RejectsOn(PathRule(d, pol), "path has", ASNsOf(NotPrivate(BogonASNs(d))))
<1>. DEFINE len == Opt(pol.rules.pathLen > 0, RejectIf("longer path", pol.rules.pathLen, {}))
            own == Opt(pol.rules.ownASN, RejectIf("path has", {d.router.asn}, {}))
            bogus == CASE pol.rules.bogonASNs = "all" ->
                          RejectIf("path has", ASNsOf(BogonASNs(d)), Symbols({"BOGON_ASNS"}))
                   [] pol.rules.bogonASNs = "exceptPrivate" ->
                          RejectIf("path has", ASNsOf(NotPrivate(BogonASNs(d))),
                                   Symbols({"BOGON_ASNS_EXCEPT_PRIVATE"}))
                   [] OTHER -> <<>>
<1>1. /\ Part(d, pol, len)
      /\ pol.rules.pathLen > 0 => RejectsOn(len, "longer path", pol.rules.pathLen)
  BY OptReject
<1>2. Part(d, pol, own) /\ (pol.rules.ownASN => RejectsOn(own, "path has", {d.router.asn}))
  BY OptReject
<1>3. /\ Part(d, pol, bogus)
      /\ pol.rules.bogonASNs = "all" => RejectsOn(bogus, "path has", ASNsOf(BogonASNs(d)))
      /\ pol.rules.bogonASNs = "exceptPrivate" =>
             RejectsOn(bogus, "path has", ASNsOf(NotPrivate(BogonASNs(d))))
  <2>1. CASE pol.rules.bogonASNs = "all"
    BY <2>1, RejectIs
  <2>2. CASE pol.rules.bogonASNs = "exceptPrivate"
    BY <2>2, RejectIs
  <2>3. CASE pol.rules.bogonASNs \notin {"all", "exceptPrivate"}
    <3>1. bogus = <<>>
      BY <2>3
    <3>. HIDE DEF bogus
    <3>. QED BY <2>3, <3>1, EmptyIs DEF Part
  <2>. QED BY <2>1, <2>2, <2>3
<1>4. PathRule(d, pol) = (len \o own) \o bogus
  BY DEF PathRule
<1>. HIDE DEF len, own, bogus
<1>5. Part(d, pol, len \o own) /\ Within(len, len \o own) /\ Within(own, len \o own)
  <2>1. Part(d, pol, len) /\ Part(d, pol, own)
    BY <1>1, <1>2
  <2>. QED BY <2>1, PartJoin
<1>6. /\ Part(d, pol, (len \o own) \o bogus)
      /\ Within(len \o own, (len \o own) \o bogus) /\ Within(bogus, (len \o own) \o bogus)
  <2>1. Part(d, pol, len \o own) /\ Part(d, pol, bogus)
    BY <1>3, <1>5
  <2>. QED BY <2>1, PartJoin
<1>. QED BY <1>1, <1>2, <1>3, <1>4, <1>5, <1>6, WithinRejects

-----------------------------------------------------------------------------
(* A route in the policies of a chain: it keeps its net and its path, and   *)
(* gains at most the mark of what a ROA contradicts.                        *)

Contradicted(d, r) ==
    {m \in {RPKI_INVALID(d)} : \E o \in Origin(r) : <<r.net, o>> \in RPKIInvalid}

Near(r, paths, more, prefs) ==
    {[net |-> r.net, path |-> l, comms |-> c, pref |-> q, hole |-> r.hole] :
        l \in paths, c \in {c \in SUBSET (r.comms \cup more) : r.comms \subseteq c}, q \in prefs}
Kin(d, r, prefs) == Near(r, {r.path}, Contradicted(d, r), prefs)

Whole(x) ==
    x = [net |-> x.net, path |-> x.path, comms |-> x.comms, pref |-> x.pref, hole |-> x.hole]
IsNear(r, paths, more, prefs, x) ==
    /\ Whole(x) /\ x.net = r.net /\ x.path \in paths /\ x.hole = r.hole
    /\ r.comms \subseteq x.comms /\ x.comms \subseteq r.comms \cup more
    /\ x.pref \in prefs
IsKin(d, r, prefs, x) ==
    /\ Whole(x) /\ x.net = r.net /\ x.path = r.path /\ x.hole = r.hole
    /\ r.comms \subseteq x.comms /\ x.comms \subseteq r.comms \cup Contradicted(d, r)
    /\ x.pref \in prefs

\* Near, field by field.
LEMMA NearIs == ASSUME NEW r, NEW paths, NEW more, NEW prefs, NEW x
                PROVE  x \in Near(r, paths, more, prefs) <=> IsNear(r, paths, more, prefs, x)
<1>1. ASSUME x \in Near(r, paths, more, prefs) PROVE IsNear(r, paths, more, prefs, x)
  BY <1>1 DEF Near, IsNear, Whole
<1>2. ASSUME IsNear(r, paths, more, prefs, x) PROVE x \in Near(r, paths, more, prefs)
  <2>. DEFINE c == x.comms
              q == x.pref
              l == x.path
  <2>1. x = [net |-> r.net, path |-> l, comms |-> c, pref |-> q, hole |-> r.hole]
    BY <1>2 DEF IsNear, Whole
  <2>2. /\ c \in {b \in SUBSET (r.comms \cup more) : r.comms \subseteq b} /\ q \in prefs
        /\ l \in paths
    BY <1>2 DEF IsNear
  <2>. HIDE DEF c, q, l
  <2>. QED BY <2>1, <2>2 DEF Near
<1>. QED BY <1>1, <1>2

\* Kin, field by field.
LEMMA KinIs == ASSUME NEW d, NEW r, NEW prefs, NEW x
               PROVE  x \in Kin(d, r, prefs) <=> IsKin(d, r, prefs, x)
<1>1. x \in Kin(d, r, prefs) <=> IsNear(r, {r.path}, Contradicted(d, r), prefs, x)
  BY NearIs DEF Kin
<1>2. IsNear(r, {r.path}, Contradicted(d, r), prefs, x) <=> IsKin(d, r, prefs, x)
  BY DEF IsNear, IsKin
<1>. QED BY <1>1, <1>2

\* Adding communities that it may have, a path, and a preference.
LEMMA NearAdd ==
    ASSUME NEW r, NEW paths, NEW more, NEW prefs, NEW x \in Near(r, paths, more, prefs),
           NEW v, v \subseteq more
    PROVE  Effect("add", v, x) \in Near(r, paths, more, prefs)
<1>. DEFINE y == [net |-> x.net, path |-> x.path, comms |-> x.comms \cup v, pref |-> x.pref,
                  hole |-> x.hole]
<1>1. IsNear(r, paths, more, prefs, x)
  BY NearIs
<1>2. Effect("add", v, x) = y
  <2>1. Effect("add", v, x) = [x EXCEPT !.comms = @ \cup v]
    BY EffectIs, Zenon
  <2>. QED BY <1>1, <2>1 DEF IsNear, Whole
<1>3. /\ y.net = x.net /\ y.path = x.path /\ y.comms = x.comms \cup v /\ y.pref = x.pref
      /\ y.hole = x.hole /\ Whole(y)
  BY DEF Whole
<1>. HIDE DEF y
<1>4. IsNear(r, paths, more, prefs, y)
  BY <1>1, <1>3 DEF IsNear
<1>. QED BY <1>2, <1>4, NearIs

\* Prepending to a path of a set that is closed under it.
LEMMA NearPrepend ==
    ASSUME NEW r, NEW paths, NEW more, NEW prefs, NEW x \in Near(r, paths, more, prefs),
           NEW v, <<v>> \o x.path \in paths
    PROVE  Effect("prepend", v, x) \in Near(r, paths, more, prefs)
<1>. DEFINE l == <<v>> \o x.path
            y == [net |-> x.net, path |-> l, comms |-> x.comms, pref |-> x.pref,
                  hole |-> x.hole]
<1>1. IsNear(r, paths, more, prefs, x)
  BY NearIs
<1>2. Effect("prepend", v, x) = y
  <2>1. Effect("prepend", v, x) = [x EXCEPT !.path = <<v>> \o @]
    BY EffectIs, Zenon
  <2>. QED BY <1>1, <2>1 DEF IsNear, Whole
<1>. HIDE DEF l
<1>3. /\ y.net = x.net /\ y.path = l /\ y.comms = x.comms /\ y.pref = x.pref
      /\ y.hole = x.hole /\ Whole(y)
  BY DEF Whole
<1>. HIDE DEF y
<1>4. IsNear(r, paths, more, prefs, y)
  BY <1>1, <1>3 DEF IsNear, l
<1>. QED BY <1>2, <1>4, NearIs

\* What a policy objects to in a route as it comes to it.
Objects(d, pol, f, r) ==
    \/ pol.rules.default = "reject" /\ IsDefault(r.net)
    \/ pol.rules.default = "only" /\ ~IsDefault(r.net)
    \/ /\ ~IsDefault(r.net) /\ OutOf(pol.rules.lens[f], r.net.len)
    \/ pol.comm # None /\ communityByName(d, pol.comm) \cap r.comms # {}
    \/ pol.bogons /\ r.net \in NetsOf(SetNamed(d, BogonSet(f)))
    \/ /\ pol.allow # None
       /\ \/ AllowSet(d, pol).disabled \/ AllowSet(d, pol).family # f
          \/ r.net \notin NetsOf(AllowSet(d, pol).entries)
    \/ pol.origin # None /\ Origin(r) \cap d.asSets[pol.origin].members = {}
    \/ pol.rov = "reject" /\ \E o \in Origin(r) : <<r.net, o>> \in RPKIInvalid
    \/ pol.rules.pathLen > 0 /\ Len(r.path) > pol.rules.pathLen
    \/ pol.rules.ownASN /\ d.router.asn \in Elements(r.path)
    \/ /\ pol.rules.bogonASNs # "off"
       /\ \E b \in BogonASNs(d) : /\ b.asn \in Elements(r.path)
                                  /\ ~(b.private /\ pol.rules.bogonASNs = "exceptPrivate")

Discards(d, pol, f, r) ==
    /\ pol.rules.blackhole /\ IsHost(r.net) /\ BLACKHOLE \in r.comms
    /\ pol.allow # None => /\ ~ClosedFor(d, pol, f)
                           /\ r.net \in NetsBelow(AllowSet(d, pol).entries)

Discarded(y) == [verdict |-> "accept", route |-> [y EXCEPT !.hole = TRUE]]

\* How a route leaves a policy, or a chain of them.
Outcome(d, r, prefs, o) ==
    \/ \E y \in Kin(d, r, prefs) : o = Open(y)
    \/ o.verdict = "reject"
    \/ \E y \in Kin(d, r, prefs) : o = Discarded(y)

\* What a statement of an import policy may do to a route and go on.
LEMMA ImportEffect ==
    ASSUME NEW d, NEW pol, NEW r, NEW prefs, pol.rules.pref > 0 => pol.rules.pref \in prefs,
           NEW x \in Kin(d, r, prefs), NEW e, ImportStmt(d, pol, e), Holds(e.test, e.arg, x),
           Verdict(e.do) = "open"
    PROVE  Effect(e.do, e.val, x) \in Kin(d, r, prefs)
<1>1. IsKin(d, r, prefs, x)
  BY KinIs
<1>2. CASE e.do = "add" /\ e.test = "invalid" /\ e.val = {RPKI_INVALID(d)}
  <2>1. \E o \in Origin(x) : <<x.net, o>> \in RPKIInvalid
    <3>1. Holds("invalid", e.arg, x)
      BY <1>2
    <3>. QED BY <3>1, HoldsIs, Zenon
  <2>2. Origin(x) = Origin(r) /\ x.net = r.net
    BY <1>1 DEF IsKin, Origin
  <2>3. RPKI_INVALID(d) \in Contradicted(d, r)
    BY <2>1, <2>2 DEF Contradicted
  <2>. DEFINE y == [x EXCEPT !.comms = @ \cup {RPKI_INVALID(d)}]
  <2>4. Effect(e.do, e.val, x) = y
    BY <1>2, EffectIs
  <2>5. /\ y = [net |-> r.net, path |-> r.path, comms |-> x.comms \cup {RPKI_INVALID(d)},
                pref |-> x.pref, hole |-> r.hole]
    BY <1>1 DEF IsKin, Whole
  <2>. HIDE DEF y
  <2>6. IsKin(d, r, prefs, y)
    BY <1>1, <2>3, <2>5 DEF IsKin, Whole
  <2>. QED BY <2>4, <2>6, KinIs
<1>3. CASE e.do = "prefer" /\ pol.rules.pref > 0 /\ e.val = pol.rules.pref
  <2>. DEFINE y == [x EXCEPT !.pref = pol.rules.pref]
  <2>1. Effect(e.do, e.val, x) = y
    <3>1. Effect("prefer", pol.rules.pref, x) = y
      BY EffectIs, Zenon
    <3>. QED BY <1>3, <3>1
  <2>2. y = [net |-> r.net, path |-> r.path, comms |-> x.comms, pref |-> pol.rules.pref,
             hole |-> r.hole]
    BY <1>1 DEF IsKin, Whole
  <2>. HIDE DEF y
  <2>3. IsKin(d, r, prefs, y)
    BY <1>1, <1>3, <2>2 DEF IsKin, Whole
  <2>. QED BY <2>1, <2>3, KinIs
<1>4. e.do \notin {"reject", "discard"}
  BY VerdictIs
<1>. QED BY <1>2, <1>3, <1>4 DEF ImportStmt

\* A rejecting statement that let a kin of the route pass does not hold of it.
LEMMA Unrejected ==
    ASSUME NEW d, NEW r, NEW prefs, NEW s, NEW test, NEW arg, RejectsOn(s, test, arg),
           \A e \in Elements(s) : \E x \in Kin(d, r, prefs) : Lets(e, x)
    PROVE  \E x : IsKin(d, r, prefs, x) /\ ~Holds(test, arg, x)
<1>1. PICK e \in Elements(s) : e.test = test /\ e.arg = arg /\ e.do = "reject"
  BY DEF RejectsOn
<1>2. PICK x \in Kin(d, r, prefs) : Lets(e, x)
  BY <1>1
<1>3. ~Holds(test, arg, x)
  BY <1>1, <1>2, VerdictIs DEF Lets
<1>. QED BY <1>2, <1>3, KinIs

BodyHas(d, pol, f, s) ==
    /\ Part(d, pol, s)
    /\ pol.rules.default = "reject" => RejectsOn(s, "default", None)
    /\ pol.rules.default = "only" => RejectsOn(s, "not default", None)
    /\ Bounded(pol, f) /\ pol.rules.default # "only" =>
           \/ RejectsOn(s, "length", pol.rules.lens[f])
           \/ RejectsOn(s, "length but default", pol.rules.lens[f])
    /\ pol.bogons => RejectsOn(s, "in", SetNamed(d, BogonSet(f)))
    /\ pol.comm # None => RejectsOn(s, "carries", communityByName(d, pol.comm))
    /\ pol.allow # None => RejectsOn(s, "not in", AllowSet(d, pol).entries)
    /\ pol.origin # None =>
           RejectsOn(s, "origin not in", d.asSets[pol.origin].members)
    /\ pol.rov = "reject" => RejectsOn(s, "invalid", None)
    /\ pol.rules.pathLen > 0 => RejectsOn(s, "longer path", pol.rules.pathLen)
    /\ pol.rules.ownASN => RejectsOn(s, "path has", {d.router.asn})
    /\ pol.rules.bogonASNs = "all" =>
           RejectsOn(s, "path has", ASNsOf(BogonASNs(d)))
    /\ pol.rules.bogonASNs = "exceptPrivate" =>
           RejectsOn(s, "path has", ASNsOf(NotPrivate(BogonASNs(d))))

\* The statements of an import policy: those it may have and those it must have.
LEMMA ImportBodyIs ==
    ASSUME NEW d, NEW pol, NEW f, ~ClosedFor(d, pol, f)
    PROVE  BodyHas(d, pol, f, writeImportBody(d, pol, f))
<1>. DEFINE s1 == BlackholeRule(d, pol)
            s2 == DefaultRule(pol)
            s3 == LengthRule(pol, f)
            s4 == BogonRule(d, pol, f)
            s5 == MatchRule(d, pol, "reject")
            s6 == AllowRule(d, pol)
            s7 == OriginRule(d, pol)
            s8 == ROVRule(d, pol, f)
            s9 == PathRule(d, pol)
            s10 == Opt(pol.rules.pref > 0, Always("prefer", pol.rules.pref, {}))
            t2 == s1 \o s2
            t3 == t2 \o s3
            t4 == t3 \o s4
            t5 == t4 \o s5
            t6 == t5 \o s6
            t7 == t6 \o s7
            t8 == t7 \o s8
            t9 == t8 \o s9
            t10 == t9 \o s10
            P(s) == Part(d, pol, s)
<1>1. P(s10)
  <2>. DEFINE e == [test |-> "always", arg |-> None, do |-> "prefer", val |-> pol.rules.pref,
                    uses |-> {}]
  <2>1. Only(Always("prefer", pol.rules.pref, {}), e)
    BY StmtIs DEF Always
  <2>2. pol.rules.pref > 0 => ImportStmt(d, pol, e)
    BY DEF ImportStmt
  <2>. HIDE DEF e
  <2>3. /\ IsSeq(Always("prefer", pol.rules.pref, {}))
        /\ pol.rules.pref > 0 => P(Always("prefer", pol.rules.pref, {}))
    BY <2>1, <2>2 DEF Only, Part
  <2>. QED BY <2>3, PartOpt
<1>2. P(s1) /\ P(s2) /\ P(s3) /\ P(s4) /\ P(s5) /\ P(s6) /\ P(s7) /\ P(s8) /\ P(s9)
  BY BlackholePart, DefaultPart, LengthPart, BogonPart, MatchPart, AllowPart, OriginPart,
     ROVPart, PathPart
<1>3. writeImportBody(d, pol, f) = t10
  BY DEF writeImportBody
<1>. HIDE DEF s1, s2, s3, s4, s5, s6, s7, s8, s9, s10
<1>4. P(t2) /\ Within(s1, t2) /\ Within(s2, t2)
  BY <1>2, PartJoin
<1>. HIDE DEF t2
<1>5. P(t3) /\ Within(t2, t3) /\ Within(s3, t3)
  BY <1>2, <1>4, PartJoin
<1>. HIDE DEF t3
<1>6. P(t4) /\ Within(t3, t4) /\ Within(s4, t4)
  BY <1>2, <1>5, PartJoin
<1>. HIDE DEF t4
<1>7. P(t5) /\ Within(t4, t5) /\ Within(s5, t5)
  BY <1>2, <1>6, PartJoin
<1>. HIDE DEF t5
<1>8. P(t6) /\ Within(t5, t6) /\ Within(s6, t6)
  BY <1>2, <1>7, PartJoin
<1>. HIDE DEF t6
<1>9. P(t7) /\ Within(t6, t7) /\ Within(s7, t7)
  BY <1>2, <1>8, PartJoin
<1>. HIDE DEF t7
<1>10. P(t8) /\ Within(t7, t8) /\ Within(s8, t8)
  BY <1>2, <1>9, PartJoin
<1>. HIDE DEF t8
<1>11. P(t9) /\ Within(t8, t9) /\ Within(s9, t9)
  BY <1>2, <1>10, PartJoin
<1>. HIDE DEF t9
<1>12. P(t10) /\ Within(t9, t10)
  BY <1>1, <1>11, PartJoin
<1>. HIDE DEF t10
<1>13. \A a, b, c : Within(a, b) /\ Within(b, c) => Within(a, c)
  BY DEF Within
<1>14. /\ Within(s9, t10) /\ Within(s8, t10) /\ Within(s7, t10) /\ Within(s6, t10)
       /\ Within(s5, t10) /\ Within(s4, t10) /\ Within(s3, t10) /\ Within(s2, t10)
  <2>1. Within(t8, t10) /\ Within(s9, t10)
    BY <1>11, <1>12, <1>13
  <2>2. Within(t7, t10) /\ Within(s8, t10)
    BY <2>1, <1>10, <1>13
  <2>3. Within(t6, t10) /\ Within(s7, t10)
    BY <2>2, <1>9, <1>13
  <2>4. Within(t5, t10) /\ Within(s6, t10)
    BY <2>3, <1>8, <1>13
  <2>5. Within(t4, t10) /\ Within(s5, t10)
    BY <2>4, <1>7, <1>13
  <2>6. Within(t3, t10) /\ Within(s4, t10)
    BY <2>5, <1>6, <1>13
  <2>7. Within(t2, t10) /\ Within(s3, t10)
    BY <2>6, <1>5, <1>13
  <2>8. Within(s2, t10)
    BY <2>7, <1>4, <1>13
  <2>. QED BY <2>1, <2>2, <2>3, <2>4, <2>5, <2>6, <2>7, <2>8
<1>15. /\ pol.rules.default = "reject" => RejectsOn(t10, "default", None)
       /\ pol.rules.default = "only" => RejectsOn(t10, "not default", None)
  BY DefaultPart, <1>14, WithinRejects DEF s2
<1>16. Bounded(pol, f) /\ pol.rules.default # "only" =>
           \/ RejectsOn(t10, "length", pol.rules.lens[f])
           \/ RejectsOn(t10, "length but default", pol.rules.lens[f])
  BY LengthPart, <1>14, WithinRejects DEF s3
<1>17. pol.bogons => RejectsOn(t10, "in", SetNamed(d, BogonSet(f)))
  BY BogonPart, <1>14, WithinRejects DEF s4
<1>18. pol.comm # None => RejectsOn(t10, "carries", communityByName(d, pol.comm))
  BY MatchPart, <1>14, WithinRejects DEF s5
<1>19. pol.allow # None => RejectsOn(t10, "not in", AllowSet(d, pol).entries)
  BY AllowPart, <1>14, WithinRejects DEF s6
<1>20. pol.origin # None => RejectsOn(t10, "origin not in", d.asSets[pol.origin].members)
  BY OriginPart, <1>14, WithinRejects DEF s7
<1>21. pol.rov = "reject" => RejectsOn(t10, "invalid", None)
  BY ROVPart, <1>14, WithinRejects DEF s8
<1>22. /\ pol.rules.pathLen > 0 => RejectsOn(t10, "longer path", pol.rules.pathLen)
       /\ pol.rules.ownASN => RejectsOn(t10, "path has", {d.router.asn})
       /\ pol.rules.bogonASNs = "all" => RejectsOn(t10, "path has", ASNsOf(BogonASNs(d)))
       /\ pol.rules.bogonASNs = "exceptPrivate" =>
              RejectsOn(t10, "path has", ASNsOf(NotPrivate(BogonASNs(d))))
  BY PathPart, <1>14, WithinRejects DEF s9
<1>23. BodyHas(d, pol, f, t10)
  BY <1>12, <1>15, <1>16, <1>17, <1>18, <1>19, <1>20, <1>21, <1>22 DEF BodyHas
<1>. QED BY <1>3, <1>23

PolicyFits(pol, f) ==
    /\ pol.rules.default \in {"reject", "accept", "only"}
    /\ pol.rules.lens[f].min \in Nat /\ pol.rules.lens[f].max \in Nat
    /\ pol.rules.pathLen \in Nat /\ pol.rules.pref \in Nat
    /\ pol.rules.bogonASNs \in {"off", "all", "exceptPrivate"}

\* The policies of the catalog fit.
LEMMA PolicyIs == ASSUME NEW pol \in Policy, NEW f \in Families PROVE PolicyFits(pol, f)
<1>1. pol.rules \in Rules
  BY DEF Policy
<1>2. pol.rules.lens \in [Families -> Lengths] /\ pol.rules.lens[f] \in Lengths
  BY <1>1 DEF Rules
<1>. QED BY <1>1, <1>2 DEF PolicyFits, Rules, Lengths

\* A policy that let the route through does not object to it.
LEMMA NothingObjected ==
    ASSUME NEW d, NEW pol, NEW f, PolicyFits(pol, f), ~ClosedFor(d, pol, f),
           NEW r, r.net.len \in Nat, NEW prefs, NEW s, BodyHas(d, pol, f, s),
           \A e \in Elements(s) : \E x \in Kin(d, r, prefs) : Lets(e, x)
    PROVE  ~Objects(d, pol, f, r)
<1>. DEFINE Off(test, arg) == \E x : IsKin(d, r, prefs, x) /\ ~Holds(test, arg, x)
<1>1. ASSUME NEW test, NEW arg, RejectsOn(s, test, arg) PROVE Off(test, arg)
  BY <1>1, Unrejected
<1>. HIDE DEF Off
<1>2. ~(pol.rules.default = "reject" /\ IsDefault(r.net))
  <2>. SUFFICES ASSUME pol.rules.default = "reject" PROVE ~IsDefault(r.net)
    OBVIOUS
  <2>1. PICK x : IsKin(d, r, prefs, x) /\ ~Holds("default", None, x)
    BY <1>1 DEF BodyHas, Off
  <2>. QED BY <2>1 DEF Holds, IsKin
<1>3. ~(pol.rules.default = "only" /\ ~IsDefault(r.net))
  <2>. SUFFICES ASSUME pol.rules.default = "only" PROVE IsDefault(r.net)
    OBVIOUS
  <2>1. PICK x : IsKin(d, r, prefs, x) /\ ~Holds("not default", None, x)
    BY <1>1 DEF BodyHas, Off
  <2>. QED BY <2>1 DEF Holds, IsKin
<1>4. ~(~IsDefault(r.net) /\ OutOf(pol.rules.lens[f], r.net.len))
  <2>. SUFFICES ASSUME ~IsDefault(r.net), OutOf(pol.rules.lens[f], r.net.len) PROVE FALSE
    OBVIOUS
  <2>1. Bounded(pol, f)
    BY DEF OutOf, Bounded, PolicyFits
  <2>2. pol.rules.default # "only"
    BY <1>3
  <2>3. CASE RejectsOn(s, "length", pol.rules.lens[f])
    <3>1. PICK x : IsKin(d, r, prefs, x) /\ ~Holds("length", pol.rules.lens[f], x)
      BY <1>1, <2>3 DEF Off
    <3>2. x.net = r.net
      BY <3>1 DEF IsKin
    <3>. QED BY <3>1, <3>2 DEF Holds
  <2>4. CASE RejectsOn(s, "length but default", pol.rules.lens[f])
    <3>1. PICK x : IsKin(d, r, prefs, x) /\ ~Holds("length but default", pol.rules.lens[f], x)
      BY <1>1, <2>4 DEF Off
    <3>2. x.net = r.net
      BY <3>1 DEF IsKin
    <3>. QED BY <3>1, <3>2 DEF Holds
  <2>. QED BY <2>1, <2>2, <2>3, <2>4 DEF BodyHas
<1>5. ~(pol.comm # None /\ communityByName(d, pol.comm) \cap r.comms # {})
  <2>. SUFFICES ASSUME pol.comm # None PROVE communityByName(d, pol.comm) \cap r.comms = {}
    OBVIOUS
  <2>. DEFINE v == communityByName(d, pol.comm)
  <2>1. PICK x : IsKin(d, r, prefs, x) /\ ~Holds("carries", v, x)
    BY <1>1 DEF BodyHas, Off
  <2>2. r.comms \subseteq x.comms
    BY <2>1 DEF IsKin
  <2>3. v \cap x.comms = {}
    BY <2>1 DEF Holds
  <2>. QED BY <2>2, <2>3
<1>6. ~(pol.bogons /\ r.net \in NetsOf(SetNamed(d, BogonSet(f))))
  <2>. SUFFICES ASSUME pol.bogons PROVE r.net \notin NetsOf(SetNamed(d, BogonSet(f)))
    OBVIOUS
  <2>1. PICK x : IsKin(d, r, prefs, x) /\ ~Holds("in", SetNamed(d, BogonSet(f)), x)
    BY <1>1 DEF BodyHas, Off
  <2>2. x.net = r.net
    BY <2>1 DEF IsKin
  <2>. QED BY <2>1, <2>2 DEF Holds
<1>7. ~(/\ pol.allow # None
        /\ \/ AllowSet(d, pol).disabled \/ AllowSet(d, pol).family # f
           \/ r.net \notin NetsOf(AllowSet(d, pol).entries))
  <2>. SUFFICES ASSUME pol.allow # None
                PROVE  /\ ~(AllowSet(d, pol).disabled \/ AllowSet(d, pol).family # f)
                       /\ r.net \in NetsOf(AllowSet(d, pol).entries)
    OBVIOUS
  <2>1. PICK x : IsKin(d, r, prefs, x) /\ ~Holds("not in", AllowSet(d, pol).entries, x)
    BY <1>1 DEF BodyHas, Off
  <2>2. x.net = r.net
    BY <2>1 DEF IsKin
  <2>. QED BY <2>1, <2>2 DEF Holds, ClosedFor
<1>8. ~(pol.origin # None /\ Origin(r) \cap d.asSets[pol.origin].members = {})
  <2>. SUFFICES ASSUME pol.origin # None
                PROVE  Origin(r) \cap d.asSets[pol.origin].members # {}
    OBVIOUS
  <2>. DEFINE m == d.asSets[pol.origin].members
  <2>1. PICK x : IsKin(d, r, prefs, x) /\ ~Holds("origin not in", m, x)
    BY <1>1 DEF BodyHas, Off
  <2>2. Origin(x) = Origin(r)
    BY <2>1 DEF IsKin, Origin
  <2>3. Origin(x) \cap m # {}
    BY <2>1 DEF Holds
  <2>. QED BY <2>2, <2>3
<1>9. ~(pol.rov = "reject" /\ \E o \in Origin(r) : <<r.net, o>> \in RPKIInvalid)
  <2>. SUFFICES ASSUME pol.rov = "reject" PROVE ~\E o \in Origin(r) : <<r.net, o>> \in RPKIInvalid
    OBVIOUS
  <2>1. PICK x : IsKin(d, r, prefs, x) /\ ~Holds("invalid", None, x)
    BY <1>1 DEF BodyHas, Off
  <2>2. Origin(x) = Origin(r) /\ x.net = r.net
    BY <2>1 DEF IsKin, Origin
  <2>3. ~\E o \in Origin(x) : <<x.net, o>> \in RPKIInvalid
    BY <2>1 DEF Holds
  <2>. QED BY <2>2, <2>3
<1>10. ~(pol.rules.pathLen > 0 /\ Len(r.path) > pol.rules.pathLen)
  <2>. SUFFICES ASSUME pol.rules.pathLen > 0 PROVE ~(Len(r.path) > pol.rules.pathLen)
    OBVIOUS
  <2>1. PICK x : IsKin(d, r, prefs, x) /\ ~Holds("longer path", pol.rules.pathLen, x)
    BY <1>1 DEF BodyHas, Off
  <2>2. x.path = r.path
    BY <2>1 DEF IsKin
  <2>. QED BY <2>1, <2>2 DEF Holds
<1>11. ~(pol.rules.ownASN /\ d.router.asn \in Elements(r.path))
  <2>. SUFFICES ASSUME pol.rules.ownASN PROVE d.router.asn \notin Elements(r.path)
    OBVIOUS
  <2>1. PICK x : IsKin(d, r, prefs, x) /\ ~Holds("path has", {d.router.asn}, x)
    BY <1>1 DEF BodyHas, Off
  <2>2. x.path = r.path
    BY <2>1 DEF IsKin
  <2>3. Elements(x.path) \cap {d.router.asn} = {}
    BY <2>1 DEF Holds
  <2>. QED BY <2>2, <2>3
<1>12. ~(/\ pol.rules.bogonASNs # "off"
         /\ \E b \in BogonASNs(d) : /\ b.asn \in Elements(r.path)
                                    /\ ~(b.private /\ pol.rules.bogonASNs = "exceptPrivate"))
  <2>1. CASE pol.rules.bogonASNs = "all"
    <3>1. PICK x : IsKin(d, r, prefs, x) /\ ~Holds("path has", ASNsOf(BogonASNs(d)), x)
      BY <1>1, <2>1 DEF BodyHas, Off
    <3>2. x.path = r.path
      BY <3>1 DEF IsKin
    <3>3. Elements(x.path) \cap ASNsOf(BogonASNs(d)) = {}
      BY <3>1 DEF Holds
    <3>. QED BY <3>2, <3>3 DEF ASNsOf
  <2>2. CASE pol.rules.bogonASNs = "exceptPrivate"
    <3>. DEFINE m == ASNsOf(NotPrivate(BogonASNs(d)))
    <3>1. PICK x : IsKin(d, r, prefs, x) /\ ~Holds("path has", m, x)
      BY <1>1, <2>2 DEF BodyHas, Off
    <3>2. x.path = r.path
      BY <3>1 DEF IsKin
    <3>3. Elements(x.path) \cap m = {}
      BY <3>1 DEF Holds
    <3>. QED BY <2>2, <3>2, <3>3 DEF ASNsOf, NotPrivate
  <2>. QED BY <2>1, <2>2 DEF PolicyFits
<1>. QED BY <1>2, <1>3, <1>4, <1>5, <1>6, <1>7, <1>8, <1>9, <1>10, <1>11, <1>12 DEF Objects

\* A policy whose allow-list is closed rejects.
LEMMA AlwaysReject ==
    ASSUME NEW x PROVE LET o == Run(Always("reject", None, {}), Open(x)) IN o.verdict = "reject"
<1>. DEFINE e == [test |-> "always", arg |-> None, do |-> "reject", val |-> None, uses |-> {}]
<1>1. Always("reject", None, {}) = <<e>>
  BY DEF Always, Stmt
<1>2. Holds(e.test, e.arg, x) /\ Verdict(e.do) = "reject"
  BY DEF Holds, Verdict
<1>. HIDE DEF e
<1>3. Run(<<e>>, Open(x)) = Left(e, x)
  BY <1>2, RunOne DEF Execute, Open, Left
<1>. QED BY <1>1, <1>2, <1>3 DEF Left

\* A policy objects, or the route goes on as it came, or it is discarded.
LEMMA ImportBody ==
    ASSUME NEW d, NEW pol, NEW f, PolicyFits(pol, f), NEW r, r.net.len \in Nat,
           NEW prefs, pol.rules.pref > 0 => pol.rules.pref \in prefs, NEW x \in Kin(d, r, prefs)
    PROVE  /\ IsSeq(writeImportBody(d, pol, f))
           /\ LET o == Run(writeImportBody(d, pol, f), Open(x))
              IN /\ Outcome(d, r, prefs, o)
                 /\ o.verdict = "open" => ~Objects(d, pol, f, r)
                 /\ o.verdict = "accept" => Discards(d, pol, f, r)
<1>1. CASE ClosedFor(d, pol, f)
  <2>1. writeImportBody(d, pol, f) = Always("reject", None, {})
    BY <1>1 DEF writeImportBody
  <2>2. IsSeq(Always("reject", None, {}))
    BY StmtIs DEF Always, Only
  <2>. QED BY <2>1, <2>2, AlwaysReject DEF Outcome
<1>2. CASE ~ClosedFor(d, pol, f)
  <2>. DEFINE s == writeImportBody(d, pol, f)
              o == Run(s, Open(x))
              K == Kin(d, r, prefs)
  <2>1. BodyHas(d, pol, f, s)
    BY <1>2, ImportBodyIs
  <2>. HIDE DEF s
  <2>2. IsSeq(s) /\ \A e \in Elements(s) : ImportStmt(d, pol, e)
    BY <2>1 DEF BodyHas, Part
  <2>3. \A e \in Elements(s), y \in K :
           Holds(e.test, e.arg, y) /\ Verdict(e.do) = "open" => Effect(e.do, e.val, y) \in K
    BY <2>2, ImportEffect
  <2>4. \/ /\ \E y \in K : o = Open(y)
           /\ \A e \in Elements(s) : \E y \in K : Lets(e, y)
        \/ \E e \in Elements(s), y \in K : Stops(e, y) /\ o = Left(e, y)
    <3>1. x \in K
      OBVIOUS
    <3>. HIDE DEF K
    <3>. QED BY <2>2, <2>3, <3>1, RunStory
  <2>. HIDE DEF o
  <2>5. CASE /\ \E y \in K : o = Open(y)
             /\ \A e \in Elements(s) : \E y \in K : Lets(e, y)
    <3>1. ~Objects(d, pol, f, r)
      BY <1>2, <2>1, <2>5, NothingObjected
    <3>2. o.verdict = "open"
      BY <2>5 DEF Open
    <3>. QED BY <2>2, <2>5, <3>1, <3>2 DEF Outcome, o, s
  <2>6. ASSUME NEW e \in Elements(s), NEW y \in K, Stops(e, y), o = Left(e, y)
        PROVE  /\ Outcome(d, r, prefs, o) /\ o.verdict # "open"
               /\ o.verdict = "accept" => Discards(d, pol, f, r)
    <3>1. ImportStmt(d, pol, e) /\ Verdict(e.do) # "open" /\ Holds(e.test, e.arg, y)
      BY <2>2, <2>6 DEF Stops
    <3>2. CASE e.do = "reject"
      <4>1. o.verdict = "reject"
        BY <2>6, <3>2, VerdictIs DEF Left
      <4>. QED BY <4>1 DEF Outcome
    <3>3. CASE /\ e.do = "discard" /\ pol.rules.blackhole
               /\ IF pol.allow = None THEN e.test = "blackhole"
                  ELSE e.test = "blackhole in" /\ e.arg = AllowSet(d, pol).entries
      <4>1. o = Discarded(y)
        <5>1. Verdict(e.do) = "accept" /\ Effect(e.do, e.val, y) = [y EXCEPT !.hole = TRUE]
          <6>1. Effect("discard", e.val, y) = [y EXCEPT !.hole = TRUE]
            BY EffectIs, Zenon
          <6>. QED BY <3>3, <6>1, VerdictIs
        <5>. QED BY <2>6, <5>1 DEF Left, Discarded
      <4>2. IsKin(d, r, prefs, y)
        BY KinIs
      <4>3. /\ BLACKHOLE \in y.comms /\ IsHost(y.net)
            /\ pol.allow # None => y.net \in NetsBelow(AllowSet(d, pol).entries)
        <5>1. CASE pol.allow = None
          BY <3>1, <3>3, <5>1 DEF Holds
        <5>2. CASE pol.allow # None
          BY <3>1, <3>3, <5>2 DEF Holds
        <5>. QED BY <5>1, <5>2
      <4>4. BLACKHOLE # RPKI_INVALID(d)
        BY DEF BLACKHOLE, RPKI_INVALID, Large, Standard
      <4>5. BLACKHOLE \in r.comms /\ y.net = r.net
        BY <4>2, <4>3, <4>4 DEF IsKin, Contradicted
      <4>. QED BY <1>2, <3>3, <4>1, <4>3, <4>5 DEF Outcome, Discards, Discarded
    <3>. QED BY <3>1, <3>2, <3>3, VerdictIs DEF ImportStmt
  <2>7. CASE \E e \in Elements(s), y \in K : Stops(e, y) /\ o = Left(e, y)
    BY <2>2, <2>6, <2>7 DEF o, s
  <2>. QED BY <2>4, <2>5, <2>7
<1>. QED BY <1>1, <1>2

Pol(d, ids, i) == d.policies[ids[i]]

\* A chain is its policies one after the other.
LEMMA ImportChain ==
    ASSUME NEW d, NEW f, NEW T, NEW ids \in Seq(T),
           \A i \in 1..Len(ids) : Pol(d, ids, i).dir = "import" /\ PolicyFits(Pol(d, ids, i), f),
           NEW r, r.net.len \in Nat, NEW prefs,
           \A i \in 1..Len(ids) : Pol(d, ids, i).rules.pref > 0 =>
                                      Pol(d, ids, i).rules.pref \in prefs,
           NEW x \in Kin(d, r, prefs)
    PROVE  /\ IsSeq(ChainBody(d, ids, f))
           /\ LET o == Run(ChainBody(d, ids, f), Open(x))
              IN /\ Outcome(d, r, prefs, o)
                 /\ o.verdict = "open" =>
                        \A i \in 1..Len(ids) : ~Objects(d, Pol(d, ids, i), f, r)
                 /\ o.verdict = "accept" =>
                        \E i \in 1..Len(ids) :
                           /\ Discards(d, Pol(d, ids, i), f, r)
                           /\ \A j \in 1..i - 1 : ~Objects(d, Pol(d, ids, j), f, r)
<1>. DEFINE size == Len(ids)
            Body(i) == writeImportBody(d, Pol(d, ids, i), f)
            bodies == [i \in 1..size |-> Body(i)]
            Fine(i) == ~Objects(d, Pol(d, ids, i), f, r)
            Good(k, o) == /\ Outcome(d, r, prefs, o)
                          /\ o.verdict = "open" => \A i \in 1..k : Fine(i)
                          /\ o.verdict = "accept" =>
                                 \E i \in 1..size : /\ Discards(d, Pol(d, ids, i), f, r)
                                                 /\ \A j \in 1..i - 1 : Fine(j)
<1>1. size \in Nat /\ DOMAIN ids = 1..size
  BY LenProperties
<1>2. ChainBody(d, ids, f) = Seqs!FlattenSeq(bodies)
  <2>1. ASSUME NEW i \in 1..size PROVE PolicyBody(d, ids[i], f) = Body(i)
    BY DEF PolicyBody, Pol
  <2>2. [i \in DOMAIN ids |-> PolicyBody(d, ids[i], f)] = bodies
    <3>. HIDE DEF Body
    <3>. QED BY <1>1, <2>1
  <2>. QED BY <2>2, Zenon DEF ChainBody
<1>. HIDE DEF Body, size
<1>3. /\ bodies \in Seq({Body(i) : i \in 1..size}) /\ Len(bodies) = size
      /\ \A i \in 1..size : bodies[i] = Body(i)
  BY <1>1
<1>4. ASSUME NEW i \in 1..size, NEW y \in Kin(d, r, prefs)
      PROVE  /\ IsSeq(Body(i))
             /\ Outcome(d, r, prefs, Run(Body(i), Open(y)))
             /\ Run(Body(i), Open(y)).verdict = "open" => Fine(i)
             /\ Run(Body(i), Open(y)).verdict = "accept" => Discards(d, Pol(d, ids, i), f, r)
  <2>1. /\ PolicyFits(Pol(d, ids, i), f)
        /\ Pol(d, ids, i).rules.pref > 0 => Pol(d, ids, i).rules.pref \in prefs
    BY DEF size
  <2>. QED BY <2>1, ImportBody DEF Body
<1>. HIDE DEF Fine, bodies
<1>5. \A i \in 1..size : IsSeq(bodies[i])
  BY <1>3, <1>4
<1>6. Chained(bodies, Open(x)) /\ Gathered(bodies)
  <2>1. bodies \in Seq({Body(i) : i \in 1..size}) /\ size = Len(bodies)
    BY <1>3
  <2>. QED BY <2>1, <1>5, RunChain, FlattenGathers
<1>7. PICK F : /\ F[0] = Open(x) /\ \A i \in 1..size : F[i] = Run(bodies[i], F[i - 1])
               /\ Run(Seqs!FlattenSeq(bodies), Open(x)) = F[size]
  BY <1>3, <1>6 DEF Chained
<1>. HIDE DEF Good
<1>. DEFINE S == {k \in 0..size : Good(k, F[k])}
<1>8. 0 \in S
  <2>1. Outcome(d, r, prefs, F[0]) /\ F[0].verdict = "open"
    BY <1>7 DEF Outcome, Open
  <2>2. Good(0, F[0])
    BY <2>1 DEF Good
  <2>. QED BY <1>1, <2>2
<1>9. ASSUME NEW k \in 0..size - 1, k \in S PROVE k + 1 \in S
  <2>1. k + 1 \in 1..size /\ (k + 1) - 1 = k /\ k + 1 \in 0..size
    BY <1>1
  <2>0. Good(k, F[k])
    BY <1>9
  <2>2. F[k + 1] = Run(Body(k + 1), F[k])
    BY <1>3, <1>7, <2>1
  <2>3. CASE \E y \in Kin(d, r, prefs) : F[k] = Open(y)
    <3>1. PICK y \in Kin(d, r, prefs) : F[k] = Open(y)
      BY <2>3
    <3>2. F[k].verdict = "open"
      BY <3>1 DEF Open
    <3>3. \A i \in 1..k : Fine(i)
      BY <2>0, <3>2 DEF Good
    <3>4. /\ Outcome(d, r, prefs, F[k + 1])
          /\ F[k + 1].verdict = "open" => Fine(k + 1)
          /\ F[k + 1].verdict = "accept" => Discards(d, Pol(d, ids, k + 1), f, r)
      BY <1>4, <2>1, <2>2, <3>1
    <3>5. \A i \in 1..k + 1 : i \in 1..k \/ i = k + 1
      BY <2>1
    <3>6. Good(k + 1, F[k + 1])
      BY <2>1, <3>3, <3>4, <3>5 DEF Good
    <3>. QED BY <2>1, <3>6
  <2>4. CASE F[k].verdict # "open"
    <3>1. F[k + 1] = F[k]
      BY <1>4, <2>1, <2>2, <2>4, RunStopped
    <3>2. Good(k + 1, F[k + 1])
      BY <2>0, <2>4, <3>1 DEF Good
    <3>. QED BY <2>1, <3>2
  <2>5. F[k].verdict # "open" \/ \E y \in Kin(d, r, prefs) : F[k] = Open(y)
    <3>1. \A y : Discarded(y).verdict = "accept"
      BY DEF Discarded
    <3>2. Outcome(d, r, prefs, F[k])
      BY <2>0 DEF Good
    <3>. QED BY <3>1, <3>2 DEF Outcome
  <2>. QED BY <2>3, <2>4, <2>5
<1>10. Good(size, F[size])
  <2>. HIDE DEF S
  <2>1. \A k \in 0..size : k \in S
    BY <1>1, <1>8, <1>9, UpTo
  <2>2. size \in S
    BY <1>1, <2>1
  <2>. QED BY <2>2 DEF S
<1>. QED BY <1>2, <1>6, <1>7, <1>10 DEF size, Fine, Good, Gathered

-----------------------------------------------------------------------------
(* The import filter of a session.                                          *)

MarksOf(d, names) == UNION {communityByName(d, n) : n \in names}

\* A statement without a test.
LEMMA AlwaysIs ==
    ASSUME NEW do, NEW val, NEW syms, NEW x
    PROVE  /\ Only(Always(do, val, syms), [test |-> "always", arg |-> None, do |-> do,
                                           val |-> val, uses |-> syms])
           /\ Run(Always(do, val, syms), Open(x)) =
                  [verdict |-> Verdict(do), route |-> Effect(do, val, x)]
<1>. DEFINE e == [test |-> "always", arg |-> None, do |-> do, val |-> val, uses |-> syms]
<1>1. Always(do, val, syms) = <<e>>
  BY DEF Always, Stmt
<1>2. e.do = do /\ e.val = val /\ Holds(e.test, e.arg, x)
  BY DEF Holds
<1>. HIDE DEF e
<1>3. Run(<<e>>, Open(x)) = Left(e, x)
  BY <1>2, RunOne DEF Execute, Open, Left
<1>4. Only(<<e>>, e)
  BY OneIs DEF Only
<1>. QED BY <1>1, <1>2, <1>3, <1>4 DEF Left, e

\* The communities a session adds.
LEMMA AddIs ==
    ASSUME NEW d, NEW names, IsFiniteSet(names)
    PROVE  /\ IsSeq(AddCommunities(d, names))
           /\ \A e \in Elements(AddCommunities(d, names)) :
                 /\ e.test = "always" /\ e.do = "add"
                 /\ e.val \subseteq MarksOf(d, names)
<1>. DEFINE ns == Seqs!SetToSeq(names)
            val(n) == communityByName(d, n)
            e(n) == [test |-> "always", arg |-> None, do |-> "add", val |-> val(n),
                     uses |-> Symbols({n})]
            g == [i \in DOMAIN ns |-> e(ns[i])]
<1>1. IsSeq(ns) /\ Elements(ns) \subseteq names
  BY SetIsSeq
<1>. HIDE DEF ns
<1>2. AddCommunities(d, names) = g
  <2>1. ASSUME NEW n PROVE LET ref == communityRefExpr(d, n)
                           IN Always("add", ref.values, ref.names)[1] = e(n)
    BY DEF communityRefExpr, Always, Stmt
  <2>. HIDE DEF e
  <2>. QED BY <2>1 DEF AddCommunities, ns
<1>3. \A n : (e(n)).test = "always" /\ (e(n)).do = "add" /\ (e(n)).val = val(n)
  OBVIOUS
<1>4. \A n \in names : val(n) \subseteq MarksOf(d, names)
  BY DEF MarksOf
<1>. HIDE DEF e, val
<1>5. Len(ns) \in Nat /\ DOMAIN ns = 1..Len(ns)
  BY <1>1, LenProperties DEF IsSeq
<1>6. g \in Seq({e(n) : n \in names})
  <2>1. \A i \in 1..Len(ns) : ns[i] \in names
    BY <1>1, <1>5 DEF Elements
  <2>. QED BY <1>5, <2>1
<1>. HIDE DEF g
<1>7. IsSeq(g) /\ Elements(g) \subseteq {e(n) : n \in names}
  BY <1>6, SeqIs
<1>8. \A x \in Elements(g) : \E n \in names : x = e(n)
  BY <1>7
<1>. QED BY <1>2, <1>3, <1>4, <1>7, <1>8

\* What a session's filter leaves of what was said, and what it adds.
Kept(d, p, r) ==
    IF IsIBGP(p.shape) THEN r.comms ELSE {c \in r.comms : ~(c.large /\ c.asn = d.router.asn)}
Entered(d, p, r) ==
    [net |-> r.net, path |-> r.path, comms |-> Kept(d, p, r), pref |-> r.pref, hole |-> r.hole]
Given(d, p) ==
    MarksOf(d, p.shape.importComms) \cup {m \in {TagOf(d, p.shape.role)} : ~IsIBGP(p.shape)}

HeadChecks(p, r) ==
    /\ p.shape.firstAS => p.asn \in First(r)
    /\ p.shape.originOnly => Origin(r) \cap {p.asn} # {}

\* A route is near itself.
LEMMA NearSelf == ASSUME NEW r, Whole(r), NEW more, NEW prefs, r.pref \in prefs
                  PROVE  r \in Near(r, {r.path}, more, prefs)
<1>1. IsNear(r, {r.path}, more, prefs, r)
  BY DEF IsNear
<1>. QED BY <1>1, NearIs

\* The two checks of the head, enforceFirstAS and originPeerOnly.
LEMMA HeadRejects ==
    ASSUME NEW p, NEW r
    PROVE  LET s == Opt(p.shape.firstAS, RejectIf("first not", p.asn, {}))
                        \o Opt(p.shape.originOnly, RejectIf("origin not in", {p.asn}, {}))
               o == Run(s, Open(r))
           IN /\ IsSeq(s)
              /\ o.verdict = "reject" \/ (o = Open(r) /\ HeadChecks(p, r))
<1>. DEFINE u == Opt(p.shape.firstAS, RejectIf("first not", p.asn, {}))
            v == Opt(p.shape.originOnly, RejectIf("origin not in", {p.asn}, {}))
            s == u \o v
            P(t) == IsSeq(t) /\ \A e \in Elements(t) : e.do = "reject"
<1>1. P(u) /\ (p.shape.firstAS => RejectsOn(u, "first not", p.asn))
  <2>1. /\ P(RejectIf("first not", p.asn, {}))
        /\ RejectsOn(RejectIf("first not", p.asn, {}), "first not", p.asn)
    BY RejectIs DEF Part
  <2>. QED BY <2>1, OptIs DEF RejectsOn
<1>2. P(v) /\ (p.shape.originOnly => RejectsOn(v, "origin not in", {p.asn}))
  <2>1. /\ P(RejectIf("origin not in", {p.asn}, {}))
        /\ RejectsOn(RejectIf("origin not in", {p.asn}, {}), "origin not in", {p.asn})
    BY RejectIs DEF Part
  <2>. QED BY <2>1, OptIs DEF RejectsOn
<1>. HIDE DEF u, v
<1>3. P(s) /\ Within(u, s) /\ Within(v, s)
  BY <1>1, <1>2, Join DEF Within
<1>. HIDE DEF s
<1>4. \/ Run(s, Open(r)) = Open(r) /\ \A e \in Elements(s) : Lets(e, r)
      \/ \E e \in Elements(s) : Stops(e, r) /\ Run(s, Open(r)) = Left(e, r)
  <2>. DEFINE S == {r}
  <2>1. \A e \in Elements(s), x \in S :
           Holds(e.test, e.arg, x) /\ Verdict(e.do) = "open" => Effect(e.do, e.val, x) \in S
    BY <1>3, VerdictIs
  <2>2. r \in S /\ \A x \in S : x = r
    OBVIOUS
  <2>. HIDE DEF S
  <2>3. \/ /\ \E x \in S : Run(s, Open(r)) = Open(x)
           /\ \A e \in Elements(s) : \E x \in S : Lets(e, x)
        \/ \E e \in Elements(s), x \in S : Stops(e, x) /\ Run(s, Open(r)) = Left(e, x)
    BY <1>3, <2>1, <2>2, RunStory
  <2>. QED BY <2>2, <2>3
<1>5. CASE Run(s, Open(r)) = Open(r) /\ \A e \in Elements(s) : Lets(e, r)
  <2>1. ASSUME NEW test, NEW arg, RejectsOn(s, test, arg) PROVE ~Holds(test, arg, r)
    BY <1>5, <2>1, VerdictIs DEF RejectsOn, Lets
  <2>2. p.shape.firstAS => ~Holds("first not", p.asn, r)
    BY <1>1, <1>3, <2>1, WithinRejects
  <2>3. p.shape.originOnly => ~Holds("origin not in", {p.asn}, r)
    BY <1>2, <1>3, <2>1, WithinRejects
  <2>4. p.shape.firstAS => p.asn \in First(r)
    BY <2>2 DEF Holds
  <2>5. p.shape.originOnly => Origin(r) \cap {p.asn} # {}
    BY <2>3 DEF Holds
  <2>. QED BY <1>3, <1>5, <2>4, <2>5 DEF HeadChecks, s, u, v
<1>6. CASE \E e \in Elements(s) : Stops(e, r) /\ Run(s, Open(r)) = Left(e, r)
  <2>1. Run(s, Open(r)).verdict = "reject"
    BY <1>3, <1>6, VerdictIs DEF Left
  <2>. QED BY <1>3, <2>1 DEF s, u, v
<1>. QED BY <1>4, <1>5, <1>6

\* How a route leaves the head of an import filter.
HeadLeaves(d, p, r, o) ==
    \/ o.verdict = "reject"
    \/ /\ HeadChecks(p, r)
       /\ \E y \in Near(Entered(d, p, r), {r.path}, Given(d, p), {r.pref}) : o = Open(y)

\* The head of an import filter checks, strips what only we may say, and adds.
LEMMA HeadRun ==
    ASSUME NEW d, NEW p, IsFiniteSet(p.shape.importComms), NEW r, Whole(r)
    PROVE  IsSeq(ImportHead(d, p)) /\ HeadLeaves(d, p, r, Run(ImportHead(d, p), Open(r)))
<1>. DEFINE u == Opt(p.shape.firstAS, RejectIf("first not", p.asn, {}))
                     \o Opt(p.shape.originOnly, RejectIf("origin not in", {p.asn}, {}))
            v == Opt(~IsIBGP(p.shape), Always("strip", d.router.asn, {}))
            a == AddCommunities(d, p.shape.importComms)
            tag == Always("add", {TagOf(d, p.shape.role)}, Symbols({roleTag[p.shape.role].name}))
            b == Opt(~IsIBGP(p.shape), tag)
            k == Entered(d, p, r)
            N == Near(k, {r.path}, Given(d, p), {r.pref})
<1>1. IsSeq(u) /\ (Run(u, Open(r)).verdict = "reject"
                   \/ (Run(u, Open(r)) = Open(r) /\ HeadChecks(p, r)))
  BY HeadRejects
<1>2. IsSeq(v) /\ Run(v, Open(r)) = Open(k)
  <2>1. CASE IsIBGP(p.shape)
    <3>1. v = <<>> /\ k = r
      BY <2>1 DEF Opt, Entered, Kept, Whole
    <3>. HIDE DEF v, k
    <3>. QED BY <3>1, EmptyIs, RunEmpty
  <2>2. CASE ~IsIBGP(p.shape)
    <3>1. v = Always("strip", d.router.asn, {})
      BY <2>2 DEF Opt
    <3>2. Effect("strip", d.router.asn, r) = k
      <4>1. Effect("strip", d.router.asn, r) =
               [r EXCEPT !.comms = {c \in @ : ~(c.large /\ c.asn = d.router.asn)}]
        BY DEF Effect
      <4>. DEFINE kept == {c \in r.comms : ~(c.large /\ c.asn = d.router.asn)}
      <4>2. k = [net |-> r.net, path |-> r.path, comms |-> kept, pref |-> r.pref, hole |-> r.hole]
        BY <2>2 DEF Entered, Kept
      <4>3. Effect("strip", d.router.asn, r) = [r EXCEPT !.comms = kept]
        BY <4>1
      <4>. HIDE DEF kept, k
      <4>. QED BY <4>2, <4>3 DEF Whole
    <3>. HIDE DEF v, k
    <3>3. IsSeq(v)
      BY <3>1, AlwaysIs DEF Only
    <3>4. Run(v, Open(r)) = [verdict |-> Verdict("strip"),
                             route |-> Effect("strip", d.router.asn, r)]
      BY <3>1, AlwaysIs
    <3>. QED BY <3>2, <3>3, <3>4, VerdictIs DEF Open
  <2>. QED BY <2>1, <2>2
<1>3. IsSeq(a) /\ \A e \in Elements(a) : /\ e.test = "always" /\ e.do = "add"
                                         /\ e.val \subseteq Given(d, p)
  <2>1. MarksOf(d, p.shape.importComms) \subseteq Given(d, p)
    BY DEF Given
  <2>. QED BY <2>1, AddIs
<1>4. IsSeq(b) /\ \A e \in Elements(b) : /\ e.test = "always" /\ e.do = "add"
                                         /\ e.val \subseteq Given(d, p)
  <2>. DEFINE e0 == [test |-> "always", arg |-> None, do |-> "add",
                     val |-> {TagOf(d, p.shape.role)},
                     uses |-> Symbols({roleTag[p.shape.role].name})]
  <2>1. Only(tag, e0)
    BY AlwaysIs
  <2>2. e0.test = "always" /\ e0.do = "add" /\ e0.val = {TagOf(d, p.shape.role)}
    OBVIOUS
  <2>. HIDE DEF e0, tag
  <2>3. IsSeq(b) /\ \A e \in Elements(b) : e = e0 /\ ~IsIBGP(p.shape)
    BY <2>1, OptIs DEF Only
  <2>4. ~IsIBGP(p.shape) => {TagOf(d, p.shape.role)} \subseteq Given(d, p)
    BY DEF Given
  <2>. QED BY <2>2, <2>3, <2>4
<1>5. ImportHead(d, p) = ((u \o v) \o a) \o b
  BY DEF ImportHead
<1>6. Whole(k) /\ k.pref = r.pref /\ k.path = r.path
  BY DEF Entered, Whole
<1>. HIDE DEF u, v, a, b, k, tag
<1>7. IsSeq(u \o v) /\ IsSeq((u \o v) \o a) /\ IsSeq(((u \o v) \o a) \o b)
  BY <1>1, <1>2, <1>3, <1>4, Join
<1>8. IsSeq(a \o b) /\ Elements(a \o b) = Elements(a) \cup Elements(b)
  BY <1>3, <1>4, Join
<1>9. Run(((u \o v) \o a) \o b, Open(r)) = Run(b, Run(a, Run(v, Run(u, Open(r)))))
  BY <1>1, <1>2, <1>3, <1>4, <1>7, RunConcat
<1>10. CASE Run(u, Open(r)).verdict = "reject"
  <2>. DEFINE o == Run(u, Open(r))
  <2>1. o.verdict # "open" /\ o.verdict = "reject"
    BY <1>10
  <2>. HIDE DEF o
  <2>2. Run(v, o) = o
    BY <1>2, <2>1, RunStopped
  <2>3. Run(a, o) = o
    BY <1>3, <2>1, RunStopped
  <2>4. Run(b, o) = o
    BY <1>4, <2>1, RunStopped
  <2>. QED BY <1>5, <1>7, <1>9, <2>1, <2>2, <2>3, <2>4 DEF o, HeadLeaves
<1>11. CASE Run(u, Open(r)) = Open(r) /\ HeadChecks(p, r)
  <2>. DEFINE m == a \o b
  <2>1. k \in N
    BY <1>6, NearSelf
  <2>2. ASSUME NEW e \in Elements(m), NEW x \in N
        PROVE  Verdict(e.do) = "open" /\ Effect(e.do, e.val, x) \in N
    <3>1. e.do = "add" /\ e.val \subseteq Given(d, p)
      BY <1>3, <1>4, <1>8
    <3>2. Effect("add", e.val, x) \in N
      BY <3>1, NearAdd
    <3>. QED BY <3>1, <3>2, VerdictIs
  <2>. HIDE DEF N, m
  <2>3. \/ \E x \in N : Run(m, Open(k)) = Open(x)
        \/ \E e \in Elements(m), x \in N : Stops(e, x)
    <3>1. IsSeq(m)
      BY <1>8 DEF m
    <3>2. \/ /\ \E x \in N : Run(m, Open(k)) = Open(x)
             /\ \A e \in Elements(m) : \E x \in N : Lets(e, x)
          \/ \E e \in Elements(m), x \in N : Stops(e, x) /\ Run(m, Open(k)) = Left(e, x)
      BY <2>1, <2>2, <3>1, RunStory
    <3>. QED BY <3>2
  <2>4. \E x \in N : Run(m, Open(k)) = Open(x)
    BY <2>2, <2>3 DEF Stops
  <2>5. Run(m, Open(k)) = Run(b, Run(a, Open(k)))
    BY <1>3, <1>4, RunConcat DEF m
  <2>6. Run(((u \o v) \o a) \o b, Open(r)) = Run(m, Open(k))
    BY <1>2, <1>9, <1>11, <2>5
  <2>. QED BY <1>5, <1>7, <1>11, <2>4, <2>6 DEF N, k, HeadLeaves
<1>. QED BY <1>1, <1>10, <1>11

\* What the model's sessions are like, as far as their filters depend on it.
SessionFits(d, p) ==
    /\ p.fam \in Families /\ p.shape.prepend \in Nat
    /\ IsFiniteSet(p.shape.importComms) /\ IsFiniteSet(p.shape.exportComms)
    /\ IsIBGP(p.shape) => /\ ~p.shape.firstAS /\ ~p.shape.originOnly /\ p.shape.prepend = 0
                          /\ p.shape.importComms = {} /\ p.shape.exportComms = {} /\ ~p.drained
    /\ p.chain.imports \in Seq(PolicyIds) /\ p.chain.exports \in Seq(PolicyIds)
    /\ \A i \in 1..Len(p.chain.imports) :
          /\ Pol(d, p.chain.imports, i).dir = "import"
          /\ PolicyFits(Pol(d, p.chain.imports, i), p.fam)
    /\ \A i \in 1..Len(p.chain.exports) :
          /\ Pol(d, p.chain.exports, i).dir # "import"
          /\ IsFiniteSet(Pol(d, p.chain.exports, i).announce)

\* The discard a policy of the session honours.
Grants(d, p, i, r) ==
    LET pol == Pol(d, p.chain.imports, i)
    IN /\ pol.rules.blackhole /\ IsHost(r.net)
       /\ BLACKHOLE \in r.comms \cup MarksOf(d, p.shape.importComms)
       /\ pol.allow # None => /\ ~ClosedFor(d, pol, p.fam)
                              /\ r.net \in NetsBelow(AllowSet(d, pol).entries)

Mute(d, p, n, r) ==
    \A i \in 1..n : ~Objects(d, Pol(d, p.chain.imports, i), p.fam, Entered(d, p, r))
Preferring(d, p) ==
    \E i \in 1..Len(p.chain.imports) : Pol(d, p.chain.imports, i).rules.pref > 0

\* What can be said of a route a session took in.
Reached(d, p, r, z) ==
    /\ Whole(z) /\ z.net = r.net /\ z.path = r.path
    /\ z.comms \subseteq Kept(d, p, r) \cup Given(d, p) \cup Contradicted(d, r)
TakenIn(d, p, r, z) ==
    /\ Reached(d, p, r, z) /\ HeadChecks(p, r)
    /\ \/ /\ z.hole = r.hole /\ Mute(d, p, Len(p.chain.imports), r)
          /\ p.drained => z.pref = 0
          /\ ~p.drained => z.pref = r.pref \/ Preferring(d, p)
       \/ /\ z.hole
          /\ z.pref = r.pref \/ Preferring(d, p)
          /\ \E i \in 1..Len(p.chain.imports) : Grants(d, p, i, r) /\ Mute(d, p, i - 1, r)

\* With more communities a policy has no fewer objections.
LEMMA ObjectsMore ==
    ASSUME NEW d, NEW pol, NEW f, NEW r, NEW y, y.net = r.net, y.path = r.path,
           r.comms \subseteq y.comms, Objects(d, pol, f, r)
    PROVE  Objects(d, pol, f, y)
<1>1. Origin(y) = Origin(r)
  BY DEF Origin
<1>. QED BY <1>1 DEF Objects

\* A route at the end of the head, field by field.
LEMMA EnteredIs ==
    ASSUME NEW d, NEW p, NEW r, NEW y \in Near(Entered(d, p, r), {r.path}, Given(d, p), {r.pref})
    PROVE  /\ Whole(y) /\ y.net = r.net /\ y.path = r.path /\ y.hole = r.hole /\ y.pref = r.pref
           /\ Kept(d, p, r) \subseteq y.comms
           /\ y.comms \subseteq Kept(d, p, r) \cup Given(d, p)
           /\ Entered(d, p, r).net = r.net /\ Entered(d, p, r).path = r.path
           /\ Entered(d, p, r).comms = Kept(d, p, r)
<1>1. IsNear(Entered(d, p, r), {r.path}, Given(d, p), {r.pref}, y)
  BY NearIs
<1>. QED BY <1>1 DEF IsNear, Entered

\* What leaves the head as y leaves the chain as z.
LEMMA ChainTakesIn ==
    ASSUME NEW d, NEW p, SessionFits(d, p), NEW r, Whole(r), r.net.len \in Nat,
           NEW y \in Near(Entered(d, p, r), {r.path}, Given(d, p), {r.pref})
    PROVE  /\ IsSeq(ChainBody(d, p.chain.imports, p.fam))
           /\ LET o == Run(ChainBody(d, p.chain.imports, p.fam), Open(y))
              IN \/ o.verdict = "reject"
                 \/ \E z : /\ o = Open(z) /\ Reached(d, p, r, z) /\ z.hole = r.hole
                           /\ Mute(d, p, Len(p.chain.imports), r)
                           /\ z.pref = r.pref \/ Preferring(d, p)
                 \/ \E z : /\ o = Discarded(z) /\ Reached(d, p, r, z)
                           /\ z.pref = r.pref \/ Preferring(d, p)
                           /\ \E i \in 1..Len(p.chain.imports) :
                                 Grants(d, p, i, r) /\ Mute(d, p, i - 1, r)
<1>. DEFINE ids == p.chain.imports
            o == Run(ChainBody(d, ids, p.fam), Open(y))
            prefs == {r.pref} \cup {Pol(d, ids, i).rules.pref :
                                       i \in {i \in 1..Len(ids) : Pol(d, ids, i).rules.pref > 0}}
            e == Entered(d, p, r)
<1>1. /\ Whole(y) /\ y.net = r.net /\ y.path = r.path /\ y.hole = r.hole /\ y.pref = r.pref
      /\ Kept(d, p, r) \subseteq y.comms
      /\ y.comms \subseteq Kept(d, p, r) \cup Given(d, p)
      /\ e.net = r.net /\ e.path = r.path /\ e.comms = Kept(d, p, r)
  BY EnteredIs
<1>2. y \in Kin(d, y, prefs)
  BY <1>1, NearSelf DEF Kin
<1>3. /\ ids \in Seq(PolicyIds) /\ Len(ids) \in Nat
      /\ \A i \in 1..Len(ids) : Pol(d, ids, i).dir = "import" /\ PolicyFits(Pol(d, ids, i), p.fam)
  BY LenProperties DEF SessionFits
<1>4. \A i \in 1..Len(ids) : Pol(d, ids, i).rules.pref > 0 => Pol(d, ids, i).rules.pref \in prefs
  OBVIOUS
<1>5. \A q \in prefs : q = r.pref \/ Preferring(d, p)
  BY DEF Preferring
<1>. HIDE DEF ids, prefs, o, e
<1>6. /\ IsSeq(ChainBody(d, ids, p.fam))
      /\ Outcome(d, y, prefs, o)
      /\ o.verdict = "open" => \A i \in 1..Len(ids) : ~Objects(d, Pol(d, ids, i), p.fam, y)
      /\ o.verdict = "accept" =>
             \E i \in 1..Len(ids) : /\ Discards(d, Pol(d, ids, i), p.fam, y)
                                    /\ \A j \in 1..i - 1 : ~Objects(d, Pol(d, ids, j), p.fam, y)
  BY <1>1, <1>2, <1>3, <1>4, ImportChain DEF o
<1>7. ASSUME NEW pol, Objects(d, pol, p.fam, e) PROVE Objects(d, pol, p.fam, y)
  BY <1>1, <1>7, ObjectsMore
<1>8. ASSUME NEW z \in Kin(d, y, prefs)
      PROVE  Reached(d, p, r, z) /\ z.hole = r.hole /\ (z.pref = r.pref \/ Preferring(d, p))
  <2>1. IsKin(d, y, prefs, z)
    BY KinIs
  <2>2. Contradicted(d, y) = Contradicted(d, r)
    BY <1>1 DEF Contradicted, Origin
  <2>. QED BY <1>1, <1>5, <2>1, <2>2 DEF IsKin, Reached
<1>9. CASE \E z \in Kin(d, y, prefs) : o = Open(z)
  <2>1. PICK z \in Kin(d, y, prefs) : o = Open(z)
    BY <1>9
  <2>2. o.verdict = "open"
    BY <2>1 DEF Open
  <2>3. Mute(d, p, Len(ids), r)
    BY <1>6, <1>7, <2>2 DEF Mute, ids, e
  <2>. QED BY <1>6, <1>8, <2>1, <2>3 DEF ids, o
<1>10. CASE o.verdict = "reject"
  BY <1>6, <1>10 DEF ids, o
<1>11. CASE \E z \in Kin(d, y, prefs) : o = Discarded(z)
  <2>1. PICK z \in Kin(d, y, prefs) : o = Discarded(z)
    BY <1>11
  <2>2. o.verdict = "accept"
    BY <2>1 DEF Discarded
  <2>3. PICK i \in 1..Len(ids) : /\ Discards(d, Pol(d, ids, i), p.fam, y)
                                 /\ \A j \in 1..i - 1 : ~Objects(d, Pol(d, ids, j), p.fam, y)
    BY <1>6, <2>2
  <2>4. Mute(d, p, i - 1, r)
    BY <1>7, <2>3 DEF Mute, ids, e
  <2>5. BLACKHOLE \in r.comms \cup MarksOf(d, p.shape.importComms)
    <3>1. BLACKHOLE \in y.comms
      BY <2>3 DEF Discards
    <3>2. BLACKHOLE # TagOf(d, p.shape.role)
      BY DEF BLACKHOLE, TagOf, Large, Standard
    <3>3. Kept(d, p, r) \subseteq r.comms
      BY DEF Kept
    <3>. QED BY <1>1, <3>1, <3>2, <3>3 DEF Given
  <2>6. Grants(d, p, i, r)
    BY <1>1, <2>3, <2>5 DEF Grants, Discards, ids
  <2>. QED BY <1>6, <1>8, <2>1, <2>4, <2>6 DEF ids, o
<1>. QED BY <1>6, <1>9, <1>10, <1>11 DEF Outcome

\* The end of an import filter.
LEMMA TailRun ==
    ASSUME NEW p, NEW z, Whole(z)
    PROVE  LET u == Opt(p.drained, Always("prefer", 0, {}))
               v == Always("accept", None, {})
           IN /\ IsSeq(u) /\ IsSeq(v)
              /\ p.drained => Run(v, Run(u, Open(z))) =
                                  [verdict |-> "accept", route |-> [z EXCEPT !.pref = 0]]
              /\ ~p.drained => Run(v, Run(u, Open(z))) = [verdict |-> "accept", route |-> z]
<1>. DEFINE u == Opt(p.drained, Always("prefer", 0, {}))
            v == Always("accept", None, {})
<1>1. IsSeq(Always("prefer", 0, {})) /\ IsSeq(v)
  BY AlwaysIs DEF Only
<1>2. \A x : Run(v, Open(x)) = [verdict |-> "accept", route |-> x]
  <2>1. ASSUME NEW x PROVE Run(v, Open(x)) = [verdict |-> Verdict("accept"),
                                              route |-> Effect("accept", None, x)]
    BY AlwaysIs
  <2>2. ASSUME NEW x PROVE Verdict("accept") = "accept" /\ Effect("accept", None, x) = x
    BY DEF Verdict, Effect
  <2>. QED BY <2>1, <2>2
<1>3. Run(Always("prefer", 0, {}), Open(z)) = Open([z EXCEPT !.pref = 0])
  <2>1. Run(Always("prefer", 0, {}), Open(z)) = [verdict |-> Verdict("prefer"),
                                                 route |-> Effect("prefer", 0, z)]
    BY AlwaysIs
  <2>2. Verdict("prefer") = "open" /\ Effect("prefer", 0, z) = [z EXCEPT !.pref = 0]
    BY DEF Verdict, Effect
  <2>. QED BY <2>1, <2>2 DEF Open
<1>4. CASE p.drained
  <2>1. u = Always("prefer", 0, {})
    BY <1>4 DEF Opt
  <2>. QED BY <1>1, <1>2, <1>3, <1>4, <2>1
<1>5. CASE ~p.drained
  <2>1. u = <<>>
    BY <1>5 DEF Opt
  <2>. QED BY <1>1, <1>2, <1>5, <2>1, EmptyIs, RunEmpty
<1>. QED BY <1>4, <1>5

\* A session takes in only what no policy of its chain objects to, or what one of them lets
\* be discarded, and a drained one as the last choice.
LEMMA ImportRouteIs ==
    ASSUME NEW d, NEW p, SessionFits(d, p), NEW r, Whole(r), r.net.len \in Nat,
           ImportRoute(d, p, r).verdict = "accept"
    PROVE  TakenIn(d, p, r, ImportRoute(d, p, r).route)
<1>1. CASE ~HasImportFilter(p)
  <2>1. ImportRoute(d, p, r).route = r
    BY <1>1 DEF ImportRoute
  <2>2. IsIBGP(p.shape) /\ Len(p.chain.imports) = 0
    <3>1. p.chain.imports = <<>>
      BY <1>1 DEF HasImportFilter
    <3>. QED BY <1>1, <3>1 DEF HasImportFilter
  <2>3. Kept(d, p, r) = r.comms
    BY <2>2 DEF Kept
  <2>. QED BY <2>1, <2>2, <2>3 DEF TakenIn, Reached, HeadChecks, Mute, SessionFits
<1>2. CASE HasImportFilter(p)
  <2>12. IsSeq(ImportHead(d, p)) /\ HeadLeaves(d, p, r, Run(ImportHead(d, p), Open(r)))
    <3>1. IsFiniteSet(p.shape.importComms)
      BY DEF SessionFits
    <3>. QED BY <3>1, HeadRun
  <2>. DEFINE head == ImportHead(d, p)
              chain == ChainBody(d, p.chain.imports, p.fam)
              u == Opt(p.drained, Always("prefer", 0, {}))
              v == Always("accept", None, {})
              o == Run(head, Open(r))
              m == Run(chain, o)
              z0 == ImportRoute(d, p, r)
  <2>1. z0 = Run(((head \o chain) \o u) \o v, Open(r))
    BY <1>2 DEF ImportRoute, RunFilter, writePeerImportFilter, Open
  <2>2. /\ IsSeq(head)
        /\ \/ o.verdict = "reject"
           \/ /\ HeadChecks(p, r)
              /\ \E y \in Near(Entered(d, p, r), {r.path}, Given(d, p), {r.pref}) : o = Open(y)
    BY <2>12 DEF HeadLeaves
  <2>3. IsSeq(chain)
    <3>1. Entered(d, p, r) \in Near(Entered(d, p, r), {r.path}, Given(d, p), {r.pref})
      <4>1. /\ Whole(Entered(d, p, r)) /\ Entered(d, p, r).path = r.path
            /\ Entered(d, p, r).pref = r.pref
        BY DEF Entered, Whole
      <4>. QED BY <4>1, NearSelf
    <3>. QED BY <3>1, ChainTakesIn
  <2>4. IsSeq(u) /\ IsSeq(v)
    BY TailRun
  <2>. HIDE DEF head, chain, u, v, z0
  <2>5. IsSeq(head \o chain) /\ IsSeq((head \o chain) \o u)
    BY <2>2, <2>3, <2>4, Join
  <2>6. z0 = Run(v, Run(u, m))
    BY <2>1, <2>2, <2>3, <2>4, <2>5, RunConcat
  <2>. HIDE DEF o, m
  <2>7. z0.verdict = "accept"
    BY DEF z0
  <2>8. ASSUME m.verdict # "open" PROVE z0 = m
    <3>1. Run(u, m) = m
      BY <2>4, <2>8, RunStopped
    <3>2. Run(v, m) = m
      BY <2>4, <2>8, RunStopped
    <3>. QED BY <2>6, <3>1, <3>2
  <2>9. CASE o.verdict = "reject"
    <3>1. m = o
      BY <2>3, <2>9, RunStopped DEF m
    <3>. QED BY <2>7, <2>8, <2>9, <3>1
  <2>10. CASE HeadChecks(p, r) /\ \E y \in Near(Entered(d, p, r), {r.path}, Given(d, p), {r.pref}) :
                                     o = Open(y)
    <3>1. PICK y \in Near(Entered(d, p, r), {r.path}, Given(d, p), {r.pref}) : o = Open(y)
      BY <2>10
    <3>2. \/ m.verdict = "reject"
          \/ \E z : /\ m = Open(z) /\ Reached(d, p, r, z) /\ z.hole = r.hole
                    /\ Mute(d, p, Len(p.chain.imports), r)
                    /\ z.pref = r.pref \/ Preferring(d, p)
          \/ \E z : /\ m = Discarded(z) /\ Reached(d, p, r, z)
                    /\ z.pref = r.pref \/ Preferring(d, p)
                    /\ \E i \in 1..Len(p.chain.imports) :
                          Grants(d, p, i, r) /\ Mute(d, p, i - 1, r)
      BY <3>1, ChainTakesIn DEF m, chain
    <3>3. CASE m.verdict = "reject"
      BY <2>7, <2>8, <3>3
    <3>4. ASSUME NEW z, m = Open(z), Reached(d, p, r, z), z.hole = r.hole,
                 Mute(d, p, Len(p.chain.imports), r), z.pref = r.pref \/ Preferring(d, p)
          PROVE  TakenIn(d, p, r, z0.route)
      <4>1. Whole(z)
        BY <3>4 DEF Reached
      <4>2. CASE p.drained
        <5>. DEFINE z1 == [net |-> z.net, path |-> z.path, comms |-> z.comms, pref |-> 0,
                           hole |-> z.hole]
        <5>1. z0.route = [z EXCEPT !.pref = 0]
          <6>1. Run(v, Run(u, Open(z))) = [verdict |-> "accept", route |-> [z EXCEPT !.pref = 0]]
            BY <4>1, <4>2, TailRun DEF u, v
          <6>. QED BY <2>6, <3>4, <6>1
        <5>2. z0.route = z1
          BY <4>1, <5>1 DEF Whole
        <5>3. /\ Whole(z1) /\ z1.net = z.net /\ z1.path = z.path /\ z1.comms = z.comms
              /\ z1.pref = 0 /\ z1.hole = z.hole
          BY DEF Whole
        <5>. HIDE DEF z1
        <5>. QED BY <2>10, <3>4, <4>2, <5>2, <5>3 DEF TakenIn, Reached
      <4>3. CASE ~p.drained
        <5>1. z0.route = z
          <6>1. Run(v, Run(u, Open(z))) = [verdict |-> "accept", route |-> z]
            BY <4>1, <4>3, TailRun DEF u, v
          <6>. QED BY <2>6, <3>4, <6>1
        <5>. QED BY <2>10, <3>4, <4>3, <5>1 DEF TakenIn
      <4>. QED BY <4>2, <4>3
    <3>5. ASSUME NEW z, m = Discarded(z), Reached(d, p, r, z), z.pref = r.pref \/ Preferring(d, p),
                 \E i \in 1..Len(p.chain.imports) : Grants(d, p, i, r) /\ Mute(d, p, i - 1, r)
          PROVE  TakenIn(d, p, r, z0.route)
      <4>. DEFINE z1 == [net |-> z.net, path |-> z.path, comms |-> z.comms, pref |-> z.pref,
                         hole |-> TRUE]
      <4>1. z0 = Discarded(z)
        BY <2>8, <3>5 DEF Discarded
      <4>2. z0.route = z1
        BY <3>5, <4>1 DEF Discarded, Reached, Whole
      <4>3. /\ Whole(z1) /\ z1.net = z.net /\ z1.path = z.path /\ z1.comms = z.comms
            /\ z1.hole /\ z1.pref = z.pref
        BY DEF Whole
      <4>. HIDE DEF z1
      <4>. QED BY <2>10, <3>5, <4>2, <4>3 DEF TakenIn, Reached
    <3>. QED BY <3>2, <3>3, <3>4, <3>5 DEF z0
  <2>. QED BY <2>2, <2>9, <2>10 DEF z0
<1>. QED BY <1>1, <1>2

-----------------------------------------------------------------------------
(* A catalog as the forms leave it has sessions that fit.                   *)

\* The rows of a configured catalog have their types.
LEMMA RowsAre ==
    ASSUME NEW d, Configured(d)
    PROVE  /\ \A i \in Live(d.peers) : d.peers[i] \in Peer
           /\ \A i \in Live(d.policies) :
                 d.policies[i] \in Policy /\ IsFiniteSet(d.policies[i].announce)
<1>1. \A i \in Live(d.peers) : d.peers[i] \in LiveRows(d, "peers")
  BY DEF LiveRows
<1>2. \A i \in Live(d.policies) : d.policies[i] \in LiveRows(d, "policies")
  BY DEF LiveRows
<1>. QED BY <1>1, <1>2 DEF Configured

\* A chain is a sequence of policies.
LEMMA ChainIs ==
    ASSUME NEW c \in ChainIds, IsFiniteSet(PolicyIds)
    PROVE  c \in Seq(PolicyIds) /\ DOMAIN c = 1..Len(c) /\ Len(c) \in Nat
<1>1. Cardinality(PolicyIds) \in Nat
  BY FS_CardinalityType
<1>2. PICK n \in 0..Cardinality(PolicyIds) : c \in [1..n -> PolicyIds]
  BY DEF ChainIds
<1>3. n \in Nat
  BY <1>1, <1>2
<1>4. c \in Seq(PolicyIds)
  BY <1>2, <1>3
<1>. QED BY <1>4, LenProperties

\* An internal session checks, prepends and adds nothing: validation saw to it.
LEMMA InternalShape ==
    ASSUME NEW s \in Shape, s = validateShape(s), IsIBGP(s)
    PROVE  /\ ~s.firstAS /\ ~s.originOnly /\ s.prepend = 0
           /\ s.importComms = {} /\ s.exportComms = {}
<1>1. s = [s EXCEPT !.firstAS = FALSE, !.originOnly = FALSE, !.prepend = 0,
                    !.importComms = {}, !.exportComms = {}]
  BY DEF validateShape
<1>2. DOMAIN s = DOMAIN [role |-> 1, firstAS |-> 1, originOnly |-> 1, prepend |-> 1,
                         nextHopSelf |-> 1, rrClient |-> 1, carry |-> 1, bfd |-> 1, limit |-> 1,
                         importComms |-> 1, exportComms |-> 1]
  BY DEF Shape
<1>. QED BY <1>1, <1>2

\* So the sessions of a configured catalog fit.
LEMMA ConfiguredPeer ==
    ASSUME NEW d, Configured(d), IsFiniteSet(PolicyIds), NEW i \in Live(d.peers)
    PROVE  SessionFits(d, d.peers[i])
<1>. DEFINE p == d.peers[i]
<1>1. p \in Peer
  BY RowsAre
<1>2. /\ p.fam \in Families /\ p.shape \in Shape /\ p.chain \in Chain
  BY <1>1 DEF Peer
<1>3. /\ p.shape = validateShape(p.shape) /\ (p.drained => ~IsIBGP(p.shape))
      /\ IsFiniteSet(p.shape.importComms \cup p.shape.exportComms)
      /\ \A k \in Elements(p.chain.imports) : k \in Live(d.policies) /\ d.policies[k].dir = "import"
      /\ \A k \in Elements(p.chain.exports) : k \in Live(d.policies) /\ d.policies[k].dir = "export"
  <2>1. p \in LiveRows(d, "peers")
    BY DEF LiveRows
  <2>. HIDE DEF p
  <2>. QED BY <2>1 DEF Configured
<1>. HIDE DEF p
<1>4. p.shape.prepend \in Nat
  BY <1>2 DEF Shape
<1>5. p.chain.imports \in ChainIds /\ p.chain.exports \in ChainIds
  BY <1>2 DEF Chain
<1>6. IsFiniteSet(p.shape.importComms) /\ IsFiniteSet(p.shape.exportComms)
  <2>1. /\ p.shape.importComms \subseteq p.shape.importComms \cup p.shape.exportComms
        /\ p.shape.exportComms \subseteq p.shape.importComms \cup p.shape.exportComms
    OBVIOUS
  <2>. QED BY <1>3, <2>1, FS_Subset
<1>7. IsIBGP(p.shape) => /\ ~p.shape.firstAS /\ ~p.shape.originOnly /\ p.shape.prepend = 0
                         /\ p.shape.importComms = {} /\ p.shape.exportComms = {} /\ ~p.drained
  BY <1>2, <1>3, InternalShape
<1>8. /\ p.chain.imports \in Seq(PolicyIds) /\ DOMAIN p.chain.imports = 1..Len(p.chain.imports)
      /\ p.chain.exports \in Seq(PolicyIds) /\ DOMAIN p.chain.exports = 1..Len(p.chain.exports)
  BY <1>5, ChainIs
<1>9. ASSUME NEW k \in 1..Len(p.chain.imports)
      PROVE  /\ Pol(d, p.chain.imports, k).dir = "import"
             /\ PolicyFits(Pol(d, p.chain.imports, k), p.fam)
  <2>1. p.chain.imports[k] \in Elements(p.chain.imports)
    BY <1>8 DEF Elements
  <2>2. Pol(d, p.chain.imports, k) \in Policy
    BY <1>3, <2>1, RowsAre DEF Pol
  <2>. QED BY <1>2, <1>3, <2>1, <2>2, PolicyIs DEF Pol
<1>10. ASSUME NEW k \in 1..Len(p.chain.exports)
       PROVE  /\ Pol(d, p.chain.exports, k).dir # "import"
              /\ IsFiniteSet(Pol(d, p.chain.exports, k).announce)
  <2>1. p.chain.exports[k] \in Elements(p.chain.exports)
    BY <1>8 DEF Elements
  <2>. QED BY <1>3, <2>1, RowsAre DEF Pol
<1>. QED BY <1>2, <1>4, <1>6, <1>7, <1>8, <1>9, <1>10 DEF SessionFits, p

-----------------------------------------------------------------------------
(* The statements of an export policy.                                      *)

ExportStmt(d, pol, f, e) ==
    \/ e.do = "reject"
    \/ /\ e.do = "accept"
       /\ \/ e.test = "always" /\ "everything" \in pol.sources
          \/ e.test = "default" /\ "default" \in pol.sources
          \/ e.test = "in" /\ \E s \in Announced(d, pol, f) : e.arg = d.sets[s].entries
          \/ e.test = "carries" /\ \E role \in pol.sources \cap DOMAIN roleTag :
                                       e.arg = {TagOf(d, role)}
          \/ e.test = "carries" /\ pol.comm # None /\ e.arg = communityByName(d, pol.comm)

Offers(d, pol, f, s) == IsSeq(s) /\ \A e \in Elements(s) : ExportStmt(d, pol, f, e)

\* Two parts of an export policy put together.
LEMMA OffersJoin ==
    ASSUME NEW d, NEW pol, NEW f, NEW a, NEW b, Offers(d, pol, f, a), Offers(d, pol, f, b)
    PROVE  Offers(d, pol, f, a \o b)
BY Join DEF Offers

\* An optional part of an export policy.
LEMMA OffersOpt ==
    ASSUME NEW d, NEW pol, NEW f, NEW given, NEW s, given => Offers(d, pol, f, s)
    PROVE  Offers(d, pol, f, Opt(given, s))
<1>1. CASE given
  BY <1>1 DEF Opt
<1>2. CASE ~given
  BY <1>2, EmptyIs DEF Opt, Offers
<1>. QED BY <1>1, <1>2

\* One statement that rejects, or accepts on a test it may have.
LEMMA OffersStmt ==
    ASSUME NEW d, NEW pol, NEW f, NEW test, NEW arg, NEW do, NEW syms,
           ExportStmt(d, pol, f, [test |-> test, arg |-> arg, do |-> do, val |-> None,
                                  uses |-> syms])
    PROVE  Offers(d, pol, f, Stmt(test, arg, do, None, syms))
BY StmtIs DEF Offers, Only

\* The bogon rule of an export policy.
LEMMA BogonOffers ==
    ASSUME NEW d, NEW pol, NEW f PROVE Offers(d, pol, f, BogonRule(d, pol, f))
<1>. DEFINE a == SetNamed(d, BogonSet(f))
            syms == Symbols({BogonSet(f)})
<1>1. ExportStmt(d, pol, f, [test |-> "in", arg |-> a, do |-> "reject", val |-> None,
                             uses |-> syms])
  BY DEF ExportStmt
<1>2. BogonRule(d, pol, f) = Opt(pol.bogons, Stmt("in", a, "reject", None, syms))
  BY DEF BogonRule, RejectIf
<1>. HIDE DEF a, syms
<1>. QED BY <1>1, <1>2, OffersStmt, OffersOpt

\* The default route.
LEMMA DefaultOffers ==
    ASSUME NEW d, NEW pol, NEW f
    PROVE  Offers(d, pol, f, Opt("default" \in pol.sources, AcceptIf("default", None, {})))
<1>1. ASSUME "default" \in pol.sources
      PROVE  ExportStmt(d, pol, f, [test |-> "default", arg |-> None, do |-> "accept",
                                    val |-> None, uses |-> {}])
  BY <1>1 DEF ExportStmt
<1>2. "default" \in pol.sources => Offers(d, pol, f, AcceptIf("default", None, {}))
  BY <1>1, OffersStmt DEF AcceptIf
<1>. QED BY <1>2, OffersOpt

\* A policy that announces everything.
LEMMA EverythingOffers ==
    ASSUME NEW d, NEW pol, NEW f, "everything" \in pol.sources
    PROVE  Offers(d, pol, f, Always("accept", None, {}))
<1>1. ExportStmt(d, pol, f, [test |-> "always", arg |-> None, do |-> "accept", val |-> None,
                             uses |-> {}])
  BY DEF ExportStmt
<1>. QED BY <1>1, OffersStmt DEF Always

\* The routes of a kind of neighbor (ProvenanceRule).
LEMMA ProvenanceOffers ==
    ASSUME NEW d, NEW pol, NEW f, NEW role \in {"upstream", "ix", "customer"}
    PROVE  Offers(d, pol, f, ProvenanceRule(d, pol, role))
<1>. DEFINE a == {TagOf(d, role)}
            syms == Symbols({roleTag[role].name})
            e == [test |-> "carries", arg |-> a, do |-> "accept", val |-> None, uses |-> syms]
<1>1. ASSUME role \in pol.sources PROVE ExportStmt(d, pol, f, e)
  <2>1. role \in pol.sources \cap DOMAIN roleTag
    BY <1>1 DEF roleTag
  <2>2. e.do = "accept" /\ e.test = "carries" /\ e.arg = {TagOf(d, role)}
    OBVIOUS
  <2>. HIDE DEF e
  <2>. QED BY <2>1, <2>2 DEF ExportStmt
<1>2. ProvenanceRule(d, pol, role) =
         Opt(role \in pol.sources, Stmt("carries", a, "accept", None, syms))
  BY DEF ProvenanceRule, AcceptIf
<1>3. role \in pol.sources => Offers(d, pol, f, Stmt("carries", a, "accept", None, syms))
  <2>. HIDE DEF a, syms
  <2>. QED BY <1>1, OffersStmt
<1>. HIDE DEF a, syms
<1>. QED BY <1>2, <1>3, OffersOpt

\* The routes that carry a community.
LEMMA MatchOffers ==
    ASSUME NEW d, NEW pol, NEW f PROVE Offers(d, pol, f, MatchRule(d, pol, "accept"))
<1>. DEFINE a == communityByName(d, pol.comm)
            syms == Symbols({pol.comm})
            e == [test |-> "carries", arg |-> a, do |-> "accept", val |-> None, uses |-> syms]
<1>1. ASSUME pol.comm # None PROVE ExportStmt(d, pol, f, e)
  <2>1. e.do = "accept" /\ e.test = "carries" /\ e.arg = communityByName(d, pol.comm)
    OBVIOUS
  <2>. HIDE DEF e
  <2>. QED BY <1>1, <2>1 DEF ExportStmt
<1>2. MatchRule(d, pol, "accept") = Opt(pol.comm # None, Stmt("carries", a, "accept", None, syms))
  BY DEF MatchRule, communityRefExpr
<1>3. pol.comm # None => Offers(d, pol, f, Stmt("carries", a, "accept", None, syms))
  <2>. HIDE DEF a, syms
  <2>. QED BY <1>1, OffersStmt
<1>. HIDE DEF a, syms
<1>. QED BY <1>2, <1>3, OffersOpt

\* The prefix sets a policy announces (AnnounceRule).
LEMMA AnnounceOffers ==
    ASSUME NEW d, NEW pol, NEW f, IsFiniteSet(pol.announce)
    PROVE  Offers(d, pol, f, AnnounceRule(d, pol, f))
<1>. DEFINE S == Announced(d, pol, f)
            sets == Seqs!SetToSeq(S)
            e(s) == [test |-> "in", arg |-> d.sets[s].entries, do |-> "accept", val |-> None,
                     uses |-> Symbols({d.sets[s].name})]
            g == [i \in DOMAIN sets |-> e(sets[i])]
<1>1. IsFiniteSet(S)
  <2>1. S \subseteq pol.announce
    BY DEF Announced
  <2>. QED BY <2>1, FS_Subset
<1>. HIDE DEF S
<1>2. IsSeq(sets) /\ Elements(sets) \subseteq S
  BY <1>1, SetIsSeq
<1>. HIDE DEF sets
<1>3. AnnounceRule(d, pol, f) = g
  <2>1. ASSUME NEW s PROVE AcceptIf("in", d.sets[s].entries, Symbols({d.sets[s].name}))[1] = e(s)
    BY DEF AcceptIf, Stmt
  <2>. HIDE DEF e
  <2>. QED BY <2>1 DEF AnnounceRule, sets, S
<1>4. ASSUME NEW s \in S PROVE ExportStmt(d, pol, f, e(s))
  <2>1. e(s).do = "accept" /\ e(s).test = "in" /\ e(s).arg = d.sets[s].entries
    OBVIOUS
  <2>. HIDE DEF e
  <2>. QED BY <2>1 DEF ExportStmt, S
<1>. HIDE DEF e
<1>5. Len(sets) \in Nat /\ DOMAIN sets = 1..Len(sets)
  BY <1>2, LenProperties DEF IsSeq
<1>6. g \in Seq({e(s) : s \in S})
  <2>1. \A i \in 1..Len(sets) : sets[i] \in S
    BY <1>2, <1>5 DEF Elements
  <2>. QED BY <1>5, <2>1
<1>. HIDE DEF g
<1>7. IsSeq(g) /\ Elements(g) \subseteq {e(s) : s \in S}
  BY <1>6, SeqIs
<1>. QED BY <1>3, <1>4, <1>7 DEF Offers

\* An export policy rejects, or accepts what it names.
LEMMA ExportBody ==
    ASSUME NEW d, NEW pol, NEW f, IsFiniteSet(pol.announce)
    PROVE  Offers(d, pol, f, writeExportBody(d, pol, f))
<1>. DEFINE bogon == BogonRule(d, pol, f)
            def == Opt("default" \in pol.sources, AcceptIf("default", None, {}))
            ann == AnnounceRule(d, pol, f)
            up == ProvenanceRule(d, pol, "upstream")
            ix == ProvenanceRule(d, pol, "ix")
            cu == ProvenanceRule(d, pol, "customer")
            ma == MatchRule(d, pol, "accept")
<1>1. /\ Offers(d, pol, f, bogon) /\ Offers(d, pol, f, def) /\ Offers(d, pol, f, ann)
      /\ Offers(d, pol, f, up) /\ Offers(d, pol, f, ix) /\ Offers(d, pol, f, cu)
      /\ Offers(d, pol, f, ma)
  BY BogonOffers, DefaultOffers, AnnounceOffers, ProvenanceOffers, MatchOffers
<1>2. CASE "everything" \in pol.sources
  <2>1. writeExportBody(d, pol, f) = bogon \o Always("accept", None, {})
    BY <1>2 DEF writeExportBody
  <2>. HIDE DEF bogon
  <2>. QED BY <1>1, <1>2, <2>1, EverythingOffers, OffersJoin
<1>3. CASE "everything" \notin pol.sources
  <2>1. writeExportBody(d, pol, f) = bogon \o (((((def \o ann) \o up) \o ix) \o cu) \o ma)
    BY <1>3 DEF writeExportBody
  <2>. HIDE DEF bogon, def, ann, up, ix, cu, ma
  <2>2. Offers(d, pol, f, (def \o ann) \o up)
    BY <1>1, OffersJoin
  <2>3. Offers(d, pol, f, (((def \o ann) \o up) \o ix) \o cu)
    BY <1>1, <2>2, OffersJoin
  <2>4. Offers(d, pol, f, ((((def \o ann) \o up) \o ix) \o cu) \o ma)
    BY <1>1, <2>3, OffersJoin
  <2>. QED BY <1>1, <2>1, <2>4, OffersJoin
<1>. QED BY <1>2, <1>3

ChainOffers(d, ids, f) ==
    /\ IsSeq(ChainBody(d, ids, f))
    /\ \A e \in Elements(ChainBody(d, ids, f)) :
          \E i \in 1..Len(ids) : ExportStmt(d, Pol(d, ids, i), f, e)

\* And so do the policies of a chain.
LEMMA ExportChain ==
    ASSUME NEW d, NEW f, NEW T, NEW ids \in Seq(T),
           \A i \in 1..Len(ids) : /\ Pol(d, ids, i).dir # "import"
                                  /\ IsFiniteSet(Pol(d, ids, i).announce)
    PROVE  ChainOffers(d, ids, f)
<1>. DEFINE size == Len(ids)
            Body(i) == writeExportBody(d, Pol(d, ids, i), f)
            bodies == [i \in 1..size |-> Body(i)]
<1>1. size \in Nat /\ DOMAIN ids = 1..size
  BY LenProperties
<1>2. ChainBody(d, ids, f) = Seqs!FlattenSeq(bodies)
  <2>1. ASSUME NEW i \in 1..size PROVE PolicyBody(d, ids[i], f) = Body(i)
    BY DEF PolicyBody, Pol
  <2>2. [i \in DOMAIN ids |-> PolicyBody(d, ids[i], f)] = bodies
    <3>. HIDE DEF Body
    <3>. QED BY <1>1, <2>1
  <2>. QED BY <2>2, Zenon DEF ChainBody
<1>3. ASSUME NEW i \in 1..size PROVE Offers(d, Pol(d, ids, i), f, Body(i))
  BY ExportBody
<1>. HIDE DEF Body, size
<1>4. /\ bodies \in Seq({Body(i) : i \in 1..size}) /\ Len(bodies) = size
      /\ \A i \in 1..size : bodies[i] = Body(i)
  BY <1>1
<1>. HIDE DEF bodies
<1>5. \A i \in 1..size : IsSeq(bodies[i])
  BY <1>3, <1>4 DEF Offers
<1>6. Gathered(bodies)
  <2>1. bodies \in Seq({Body(i) : i \in 1..size}) /\ size = Len(bodies)
    BY <1>4
  <2>. QED BY <2>1, <1>5, FlattenGathers
<1>7. ASSUME NEW e \in Elements(Seqs!FlattenSeq(bodies))
      PROVE  \E i \in 1..size : ExportStmt(d, Pol(d, ids, i), f, e)
  BY <1>3, <1>4, <1>6 DEF Gathered, Offers
<1>. QED BY <1>2, <1>6, <1>7 DEF Gathered, ChainOffers, size

-----------------------------------------------------------------------------
(* The export filter of a session.                                          *)

Adds(d, p) == MarksOf(d, p.shape.exportComms) \cup {m \in {GRACEFUL_SHUTDOWN} : p.drained}
Paths(d, p, r) == IF p.shape.prepend = 0 THEN {r.path} ELSE Seq(Nat \cup {d.router.asn})

\* What a statement of the head may be.
HeadStmt(d, p, e) ==
    \/ e.do = "add" /\ e.val \subseteq Adds(d, p)
    \/ e.do = "prepend" /\ e.val = d.router.asn /\ p.shape.prepend > 0

\* The head of an export filter only adds communities and prepends.
LEMMA ExportHeadIs ==
    ASSUME NEW d, NEW p, IsFiniteSet(p.shape.exportComms), p.shape.prepend \in Nat
    PROVE  /\ IsSeq(ExportHead(d, p))
           /\ \A e \in Elements(ExportHead(d, p)) : HeadStmt(d, p, e)
<1>. DEFINE n == p.shape.prepend
            H(s) == IsSeq(s) /\ \A e \in Elements(s) : HeadStmt(d, p, e)
            u == Opt(p.drained, Always("add", {GRACEFUL_SHUTDOWN}, {}))
            v == [i \in 1..n |-> Always("prepend", d.router.asn, Symbols({"LOCAL_ASN"}))[1]]
            w == AddCommunities(d, p.shape.exportComms)
<1>1. H(u)
  <2>. DEFINE e0 == [test |-> "always", arg |-> None, do |-> "add", val |-> {GRACEFUL_SHUTDOWN},
                     uses |-> {}]
              a == Always("add", {GRACEFUL_SHUTDOWN}, {})
  <2>1. Only(a, e0)
    BY AlwaysIs
  <2>2. e0.do = "add" /\ e0.val = {GRACEFUL_SHUTDOWN}
    OBVIOUS
  <2>. HIDE DEF e0, a
  <2>3. CASE p.drained
    <3>1. u = a
      BY <2>3 DEF Opt, a
    <3>2. e0.val \subseteq Adds(d, p)
      BY <2>2, <2>3 DEF Adds
    <3>. QED BY <2>1, <2>2, <3>1, <3>2 DEF Only, HeadStmt
  <2>4. CASE ~p.drained
    <3>1. u = <<>>
      BY <2>4 DEF Opt
    <3>. QED BY <3>1, EmptyIs
  <2>. QED BY <2>3, <2>4
<1>2. H(v)
  <2>. DEFINE e0 == [test |-> "always", arg |-> None, do |-> "prepend", val |-> d.router.asn,
                     uses |-> Symbols({"LOCAL_ASN"})]
  <2>1. v = [i \in 1..n |-> e0]
    BY DEF Always, Stmt
  <2>2. e0.do = "prepend" /\ e0.val = d.router.asn
    OBVIOUS
  <2>. HIDE DEF e0
  <2>3. v \in Seq({e0})
    BY <2>1
  <2>4. DOMAIN v = 1..n
    BY <2>1
  <2>. HIDE DEF v
  <2>5. IsSeq(v) /\ Elements(v) \subseteq {e0}
    BY <2>3, SeqIs
  <2>6. ASSUME NEW e \in Elements(v) PROVE HeadStmt(d, p, e)
    <3>1. e = e0
      BY <2>5
    <3>2. n > 0
      BY <2>4 DEF Elements
    <3>. QED BY <2>2, <3>1, <3>2 DEF HeadStmt
  <2>. QED BY <2>5, <2>6
<1>3. H(w)
  <2>1. MarksOf(d, p.shape.exportComms) \subseteq Adds(d, p)
    BY DEF Adds
  <2>. QED BY <2>1, AddIs DEF HeadStmt
<1>4. ExportHead(d, p) = (u \o v) \o w
  BY DEF ExportHead
<1>. HIDE DEF u, v, w
<1>5. H(u \o v)
  BY <1>1, <1>2, Join
<1>. QED BY <1>1, <1>2, <1>3, <1>4, <1>5, Join

\* What a policy permits in a route as it is looked at.
Permitting(d, pol, f, x) ==
    \/ "everything" \in pol.sources
    \/ "default" \in pol.sources /\ IsDefault(x.net)
    \/ \E s \in Announced(d, pol, f) : x.net \in NetsOf(d.sets[s].entries)
    \/ \E role \in pol.sources \cap DOMAIN roleTag : TagOf(d, role) \in x.comms
    \/ pol.comm # None /\ communityByName(d, pol.comm) \cap x.comms # {}

\* A statement that accepts is one that permits, and changes nothing.
LEMMA StmtPermits ==
    ASSUME NEW d, NEW pol, NEW f, NEW e, ExportStmt(d, pol, f, e), NEW x,
           Holds(e.test, e.arg, x), Verdict(e.do) = "accept"
    PROVE  Permitting(d, pol, f, x) /\ Effect(e.do, e.val, x) = x
<1>1. e.do = "accept"
  BY VerdictIs DEF ExportStmt
<1>2. Effect(e.do, e.val, x) = x
  BY <1>1 DEF Effect
<1>3. CASE e.test = "always" /\ "everything" \in pol.sources
  BY <1>2, <1>3 DEF Permitting
<1>4. CASE e.test = "default" /\ "default" \in pol.sources
  <2>1. Holds("default", e.arg, x)
    BY <1>4
  <2>2. IsDefault(x.net)
    BY <2>1, HoldsIs, Zenon
  <2>. QED BY <1>2, <1>4, <2>2 DEF Permitting
<1>5. CASE e.test = "in" /\ \E s \in Announced(d, pol, f) : e.arg = d.sets[s].entries
  <2>1. Holds("in", e.arg, x)
    BY <1>5
  <2>2. x.net \in NetsOf(e.arg)
    BY <2>1, HoldsIs, Zenon
  <2>. QED BY <1>2, <1>5, <2>2 DEF Permitting
<1>6. ASSUME e.test = "carries" PROVE e.arg \cap x.comms # {}
  <2>1. Holds("carries", e.arg, x)
    BY <1>6
  <2>. QED BY <2>1, HoldsIs, Zenon
<1>7. CASE e.test = "carries" /\ \E role \in pol.sources \cap DOMAIN roleTag :
                                     e.arg = {TagOf(d, role)}
  <2>1. PICK role \in pol.sources \cap DOMAIN roleTag : e.arg = {TagOf(d, role)}
    BY <1>7
  <2>2. TagOf(d, role) \in x.comms
    BY <1>6, <1>7, <2>1
  <2>. QED BY <1>2, <2>2 DEF Permitting
<1>8. CASE e.test = "carries" /\ pol.comm # None /\ e.arg = communityByName(d, pol.comm)
  <2>1. e.arg \cap x.comms # {}
    BY <1>6, <1>8
  <2>. QED BY <1>2, <1>8, <2>1 DEF Permitting
<1>. QED BY <1>1, <1>3, <1>4, <1>5, <1>7, <1>8 DEF ExportStmt

\* How an accepted route left.
SentOn(d, p, r, z) ==
    /\ IsNear(r, Paths(d, p, r), Adds(d, p), {r.pref}, z)
    /\ \/ ~HasExportFilter(p) /\ CarriesAll(p) /\ z = r
       \/ \E i \in 1..Len(p.chain.exports) :
             Permitting(d, Pol(d, p.chain.exports, i), p.fam, z)

\* A session lets out only what a policy of its chain permits as it looks at it, or, internal
\* and without a chain, everything; and never does a filter end undecided.
LEMMA ExportRouteIs ==
    ASSUME NEW d, NEW p, SessionFits(d, p), NEW r, Whole(r), r.path \in Seq(Nat),
           ExportRoute(d, p, r).verdict # "reject"
    PROVE  SentOn(d, p, r, ExportRoute(d, p, r).route)
<1>. DEFINE N == Near(r, Paths(d, p, r), Adds(d, p), {r.pref})
<1>1. r \in N
  <2>1. r.path \in Paths(d, p, r)
    <3>1. r.path \in Seq(Nat \cup {d.router.asn})
      BY SeqMonotonic
    <3>. QED BY <3>1 DEF Paths
  <2>2. IsNear(r, Paths(d, p, r), Adds(d, p), {r.pref}, r)
    BY <2>1 DEF IsNear
  <2>. QED BY <2>2, NearIs
<1>2. CASE ~HasExportFilter(p)
  <2>1. ExportRoute(d, p, r).route = r /\ CarriesAll(p)
    BY <1>2 DEF ExportRoute
  <2>. QED BY <1>1, <1>2, <2>1, NearIs DEF SentOn
<1>3. CASE HasExportFilter(p)
  <2>. DEFINE head == ExportHead(d, p)
              ids == p.chain.exports
              chain == ChainBody(d, ids, p.fam)
              last == Always("reject", None, {})
              s == (head \o chain) \o last
              z == ExportRoute(d, p, r)
              S(e) == \/ HeadStmt(d, p, e)
                      \/ \E i \in 1..Len(ids) : ExportStmt(d, Pol(d, ids, i), p.fam, e)
                      \/ e.do = "reject"
  <2>1. z = Run(s, Open(r))
    BY <1>3 DEF ExportRoute, RunFilter, writePeerExportFilter, Open
  <2>2. IsSeq(head) /\ \A e \in Elements(head) : HeadStmt(d, p, e)
    <3>1. IsFiniteSet(p.shape.exportComms) /\ p.shape.prepend \in Nat
      BY DEF SessionFits
    <3>. QED BY <3>1, ExportHeadIs
  <2>3. ChainOffers(d, ids, p.fam)
    BY ExportChain DEF SessionFits
  <2>4. IsSeq(last) /\ \A e \in Elements(last) : e.do = "reject"
    BY AlwaysIs DEF Only
  <2>14. \E e \in Elements(last) : \A x : ~Lets(e, x)
    <3>. DEFINE no == [test |-> "always", arg |-> None, do |-> "reject", val |-> None, uses |-> {}]
    <3>1. Only(last, no)
      BY AlwaysIs
    <3>2. no.do = "reject" /\ no.test = "always"
      OBVIOUS
    <3>3. \A x : Holds("always", no.arg, x)
      BY HoldsIs, Zenon
    <3>. HIDE DEF no, last
    <3>4. no \in Elements(last)
      BY <3>1 DEF Only
    <3>. QED BY <3>2, <3>3, <3>4, VerdictIs DEF Lets
  <2>. HIDE DEF head, last, z
  <2>5. /\ IsSeq(s) /\ \A e \in Elements(s) : S(e)
        /\ \E e \in Elements(s) : \A x : ~Lets(e, x)
    <3>. HIDE DEF S
    <3>1. \A e \in Elements(head) : S(e)
      BY <2>2 DEF S
    <3>2. \A e \in Elements(last) : S(e)
      BY <2>4 DEF S
    <3>3. IsSeq(chain) /\ \A e \in Elements(chain) : S(e)
      BY <2>3 DEF S, ChainOffers
    <3>. HIDE DEF chain
    <3>. QED BY <2>2, <2>4, <2>14, <3>1, <3>2, <3>3, Join
  <2>6. ASSUME NEW e \in Elements(s), NEW x \in N, Holds(e.test, e.arg, x), Verdict(e.do) = "open"
        PROVE  Effect(e.do, e.val, x) \in N
    <3>1. HeadStmt(d, p, e)
      <4>1. ~(e.do = "reject" \/ \E i \in 1..Len(ids) : ExportStmt(d, Pol(d, ids, i), p.fam, e))
        BY <2>6, VerdictIs DEF ExportStmt
      <4>. QED BY <2>5, <4>1
    <3>2. CASE e.do = "add" /\ e.val \subseteq Adds(d, p)
      BY <3>2, NearAdd
    <3>3. CASE e.do = "prepend" /\ e.val = d.router.asn /\ p.shape.prepend > 0
      <4>1. x.path \in Paths(d, p, r)
        BY NearIs DEF IsNear
      <4>2. Paths(d, p, r) = Seq(Nat \cup {d.router.asn})
        BY <3>3 DEF Paths, SessionFits
      <4>3. <<d.router.asn>> \o x.path \in Paths(d, p, r)
        BY <4>1, <4>2
      <4>4. e.do = "prepend" /\ <<e.val>> \o x.path \in Paths(d, p, r)
        BY <3>3, <4>3
      <4>. QED BY <4>4, NearPrepend
    <3>. QED BY <3>1, <3>2, <3>3 DEF HeadStmt
  <2>. HIDE DEF N, s
  <2>7. \E e \in Elements(s), x \in N : Stops(e, x) /\ Run(s, Open(r)) = Left(e, x)
    <3>1. \/ /\ \E x \in N : Run(s, Open(r)) = Open(x)
             /\ \A e \in Elements(s) : \E x \in N : Lets(e, x)
          \/ \E e \in Elements(s), x \in N : Stops(e, x) /\ Run(s, Open(r)) = Left(e, x)
      BY <1>1, <2>5, <2>6, RunStory
    <3>. QED BY <2>5, <3>1
  <2>8. z.verdict # "reject"
    BY DEF z
  <2>9. PICK e \in Elements(s), x \in N : Stops(e, x) /\ z = Left(e, x)
    BY <2>1, <2>7
  <2>10. Verdict(e.do) = "accept" /\ Holds(e.test, e.arg, x) /\ z.route = Effect(e.do, e.val, x)
    BY <2>8, <2>9 DEF Left, Stops, Verdict
  <2>11. PICK i \in 1..Len(ids) : ExportStmt(d, Pol(d, ids, i), p.fam, e)
    <3>1. ~HeadStmt(d, p, e) /\ e.do # "reject"
      BY <2>10, VerdictIs DEF HeadStmt
    <3>. QED BY <2>5, <3>1
  <2>12. Permitting(d, Pol(d, ids, i), p.fam, x) /\ z.route = x
    BY <2>10, <2>11, StmtPermits
  <2>13. IsNear(r, Paths(d, p, r), Adds(d, p), {r.pref}, x)
    BY NearIs DEF N
  <2>. QED BY <2>12, <2>13 DEF SentOn, z
<1>. QED BY <1>2, <1>3

-----------------------------------------------------------------------------
(* The inductive invariant.                                                 *)

\* What is known of a route that entered by f, None for one of our own.
Known(d, f, r) ==
    {c \in r.comms : ~(c.large /\ c.asn = d.router.asn)}
        \cup (UNION {Given(d, d.peers[i]) : i \in {f} \ {None}})
        \cup Contradicted(d, r)

\* An internal session of the family sets a preference.
Prefers(d, fam) ==
    \E q \in Live(d.peers) : /\ d.peers[q].enabled /\ d.peers[q].fam = fam
                             /\ IsIBGP(d.peers[q].shape) /\ Preferring(d, d.peers[q])

\* What the session p took in as r and is at z now.
TookIn(d, p, r, z) ==
    /\ HeadChecks(p, r)
    /\ \/ /\ Mute(d, p, Len(p.chain.imports), r)
          /\ p.drained => z.pref = 0 \/ Prefers(d, r.net.fam)
       \/ /\ z.hole
          /\ \E i \in 1..Len(p.chain.imports) : Grants(d, p, i, r) /\ Mute(d, p, i - 1, r)

\* What it is announced for.
SentTo(d, f, r, p, z) ==
    \E i \in 1..Len(p.chain.exports) :
        /\ Permitting(d, Pol(d, p.chain.exports, i), p.fam, z)
        /\ z.comms \subseteq Known(d, f, r) \cup Adds(d, p)

RoutesInv ==
    /\ fabric \in Fabrics /\ sent \in Wire \cup Own
    /\ at \in {"offered", "table", "kernel", "announced", "dropped"}
    /\ at = "offered" => route = sent /\ from = None
    /\ from = None /\ at \notin {"offered", "dropped"} => sent \in Own
    /\ from # None => /\ from \in Live(fabric.peers) /\ ~IsIBGP(fabric.peers[from].shape)
                      /\ fabric.peers[from].fam = sent.net.fam
    /\ at \notin {"offered", "dropped"} => Whole(route) /\ route.net = sent.net
    /\ at \in {"table", "kernel"} => /\ route.path = sent.path
                                     /\ route.comms \subseteq Known(fabric, from, sent)
    /\ at \notin {"offered", "dropped"} /\ from # None =>
           TookIn(fabric, fabric.peers[from], sent, route)
    /\ at = "announced" => /\ to \in Live(fabric.peers)
                           /\ SentTo(fabric, from, sent, fabric.peers[to], route)

\* What the assumptions say of a catalog and of a route.
LEMMA SentIs ==
    ASSUME RoutesAssumption, NEW d \in Fabrics, NEW r \in Wire \cup Own
    PROVE  /\ Configured(d) /\ IsFiniteSet(PolicyIds) /\ None \notin Live(d.peers)
           /\ Whole(r) /\ r.path \in Seq(Nat) /\ r.net.len \in Nat
           /\ r \in Own => r.comms = {}
BY DEF RoutesAssumption, IsRoute, Whole, Configured

\* A route comes in.
LEMMA Comes ==
    ASSUME RoutesAssumption, NEW d \in Fabrics, NEW r \in Wire \cup Own,
           NEW i \in Live(d.peers), ~IsIBGP(d.peers[i].shape),
           ImportRoute(d, d.peers[i], r).verdict = "accept"
    PROVE  LET z == ImportRoute(d, d.peers[i], r).route
           IN /\ Whole(z) /\ z.net = r.net /\ z.path = r.path
              /\ z.comms \subseteq Known(d, i, r)
              /\ TookIn(d, d.peers[i], r, z)
<1>. DEFINE p == d.peers[i]
            z == ImportRoute(d, p, r).route
<1>1. /\ Configured(d) /\ IsFiniteSet(PolicyIds) /\ i # None
      /\ Whole(r) /\ r.net.len \in Nat
  BY SentIs
<1>2. SessionFits(d, p)
  BY <1>1, ConfiguredPeer
<1>3. TakenIn(d, p, r, z)
  BY <1>1, <1>2, ImportRouteIs
<1>4. Kept(d, p, r) \cup Given(d, p) \cup Contradicted(d, r) \subseteq Known(d, i, r)
  <2>1. Given(d, p) \in {Given(d, d.peers[k]) : k \in {i} \ {None}}
    BY <1>1
  <2>2. Kept(d, p, r) = {c \in r.comms : ~(c.large /\ c.asn = d.router.asn)}
    BY DEF Kept
  <2>. HIDE DEF p
  <2>. QED BY <2>1, <2>2 DEF Known
<1>. HIDE DEF z, p
<1>5. TookIn(d, p, r, z)
  BY <1>3 DEF TakenIn, TookIn
<1>. QED BY <1>3, <1>4, <1>5 DEF TakenIn, Reached, p, z

\* Out over an internal session a route goes as it is.
LEMMA InternalExport ==
    ASSUME NEW d, NEW p, SessionFits(d, p), IsIBGP(p.shape), NEW r, Whole(r), r.path \in Seq(Nat),
           ExportRoute(d, p, r).verdict # "reject"
    PROVE  ExportRoute(d, p, r).route = r
<1>. DEFINE z == ExportRoute(d, p, r).route
<1>1. SentOn(d, p, r, z)
  BY ExportRouteIs
<1>2. Adds(d, p) = {} /\ Paths(d, p, r) = {r.path}
  BY DEF SessionFits, Adds, Paths, MarksOf
<1>. HIDE DEF z
<1>3. Whole(z) /\ z.net = r.net /\ z.path = r.path /\ z.hole = r.hole /\ z.pref = r.pref
  BY <1>1, <1>2 DEF SentOn, IsNear
<1>4. z.comms = r.comms
  BY <1>1, <1>2 DEF SentOn, IsNear
<1>. QED BY <1>3, <1>4 DEF Whole, z

\* Over an internal session: what was known of it stays known, a preference aside.
LEMMA Relays ==
    ASSUME RoutesAssumption, NEW d \in Fabrics, NEW i \in Live(d.peers), NEW j \in Live(d.peers),
           IsIBGP(d.peers[i].shape), IsIBGP(d.peers[j].shape), d.peers[j].enabled,
           NEW r, Whole(r), r.path \in Seq(Nat), r.net.len \in Nat, d.peers[j].fam = r.net.fam,
           NEW out, out = ExportRoute(d, d.peers[i], r), out.verdict # "reject",
           ImportRoute(d, d.peers[j], out.route).verdict = "accept"
    PROVE  LET z == ImportRoute(d, d.peers[j], out.route).route
           IN /\ Whole(z) /\ z.net = r.net /\ z.path = r.path
              /\ z.comms \subseteq r.comms \cup Contradicted(d, r)
              /\ r.hole => z.hole
              /\ z.pref = r.pref \/ Prefers(d, r.net.fam)
<1>. DEFINE p == d.peers[i]
            q == d.peers[j]
            z == ImportRoute(d, q, out.route).route
<1>1. Configured(d) /\ IsFiniteSet(PolicyIds)
  BY DEF RoutesAssumption
<1>2. SessionFits(d, p) /\ SessionFits(d, q)
  BY <1>1, ConfiguredPeer
<1>3. out.route = r
  BY <1>2, InternalExport
<1>4. TakenIn(d, q, r, z)
  BY <1>2, <1>3, ImportRouteIs
<1>5. Kept(d, q, r) = r.comms /\ Given(d, q) = {}
  BY <1>2 DEF SessionFits, Kept, Given, MarksOf
<1>6. Preferring(d, q) => Prefers(d, r.net.fam)
  BY DEF Prefers
<1>7. ~q.drained
  BY <1>2 DEF SessionFits
<1>. HIDE DEF z, p, q
<1>. QED BY <1>4, <1>5, <1>6, <1>7 DEF TakenIn, Reached, z, q

\* What keeps the invariant where it neither comes in nor goes out.
LEMMA KnownGrows ==
    ASSUME NEW d, NEW r, NEW y, y.net = r.net, y.path = r.path, NEW f
    PROVE  Contradicted(d, y) = Contradicted(d, r) /\ Contradicted(d, r) \subseteq Known(d, f, r)
BY DEF Contradicted, Known, Origin

\* The invariant holds at first.
LEMMA RoutesStarts == ASSUME RoutesAssumption, RoutesInit PROVE RoutesInv
<1>1. fabric \in Fabrics /\ sent = route /\ from = None /\ sent \in Wire \cup Own
  BY DEF RoutesInit
<1>2. Whole(sent) /\ (sent \in Own => sent.comms = {})
  BY <1>1, SentIs
<1>3. CASE at = "offered"
  BY <1>1, <1>3 DEF RoutesInv
<1>4. CASE at = "table" /\ route \in Own
  BY <1>1, <1>2, <1>4 DEF RoutesInv
<1>. QED BY <1>3, <1>4 DEF RoutesInit

\* Learning a route keeps it.
LEMMA LearnKeeps == ASSUME RoutesAssumption, RoutesInv, Learn PROVE RoutesInv'
<1>1. PICK p \in Neighbors : /\ Passes(ImportRoute(fabric, fabric.peers[p], route), "table")
                             /\ from' = p
  BY DEF Learn
<1>2. at = "offered" /\ route = sent /\ UNCHANGED <<fabric, sent, to>>
  BY DEF Learn, RoutesInv
<1>3. /\ p \in Live(fabric.peers) /\ ~IsIBGP(fabric.peers[p].shape)
      /\ fabric.peers[p].fam = sent.net.fam
  BY <1>2 DEF Neighbors, Internal, Peers
<1>4. /\ fabric \in Fabrics /\ sent \in Wire \cup Own
  BY DEF RoutesInv
<1>. DEFINE o == ImportRoute(fabric, fabric.peers[p], sent)
<1>5. p # None
  BY <1>3, <1>4, SentIs
<1>6. /\ at' = IF o.verdict = "accept" THEN "table" ELSE "dropped"
      /\ route' = o.route
  BY <1>1, <1>2 DEF Passes
<1>7. CASE o.verdict = "accept"
  <2>1. /\ Whole(o.route) /\ o.route.net = sent.net /\ o.route.path = sent.path
        /\ o.route.comms \subseteq Known(fabric, p, sent)
        /\ TookIn(fabric, fabric.peers[p], sent, o.route)
    BY <1>3, <1>4, <1>7, Comes
  <2>. HIDE DEF o
  <2>2. at' = "table" /\ route' = o.route
    BY <1>6, <1>7
  <2>. QED BY <1>1, <1>2, <1>3, <1>4, <1>5, <2>1, <2>2 DEF RoutesInv
<1>8. CASE o.verdict # "accept"
  <2>. HIDE DEF o
  <2>1. at' = "dropped"
    BY <1>6, <1>8
  <2>. QED BY <1>1, <1>2, <1>3, <1>4, <1>5, <2>1 DEF RoutesInv
<1>. QED BY <1>7, <1>8

\* Of a route that is dropped nothing is claimed.
LEMMA Dropped ==
    ASSUME RoutesInv, at' = "dropped", UNCHANGED <<fabric, sent, from>> PROVE RoutesInv'
BY DEF RoutesInv

\* Carrying a route over an internal session keeps it.
LEMMA RelayKeeps == ASSUME RoutesAssumption, RoutesInv, Relay PROVE RoutesInv'
<1>1. PICK p \in Internal, q \in Internal :
         LET out == ExportRoute(fabric, fabric.peers[p], route)
         IN Passes(IF out.verdict = "reject" THEN out
                   ELSE ImportRoute(fabric, fabric.peers[q], out.route), "table")
  BY DEF Relay
<1>2. at = "table" /\ UNCHANGED <<fabric, sent, from, to>>
  BY DEF Relay
<1>. DEFINE out == ExportRoute(fabric, fabric.peers[p], route)
            in == ImportRoute(fabric, fabric.peers[q], out.route)
            z == in.route
<1>3. /\ p \in Live(fabric.peers) /\ IsIBGP(fabric.peers[p].shape)
      /\ q \in Live(fabric.peers) /\ IsIBGP(fabric.peers[q].shape) /\ fabric.peers[q].enabled
      /\ fabric.peers[q].fam = route.net.fam
  BY DEF Internal, Peers
<1>4. /\ fabric \in Fabrics /\ sent \in Wire \cup Own
      /\ Whole(route) /\ route.net = sent.net /\ route.path = sent.path
      /\ route.comms \subseteq Known(fabric, from, sent)
      /\ from # None => TookIn(fabric, fabric.peers[from], sent, route)
  BY <1>2 DEF RoutesInv
<1>5. route.path \in Seq(Nat) /\ route.net.len \in Nat
  BY <1>4, SentIs
<1>6. CASE out.verdict # "reject" /\ in.verdict = "accept"
  <2>1. /\ Whole(z) /\ z.net = route.net /\ z.path = route.path
        /\ z.comms \subseteq route.comms \cup Contradicted(fabric, route)
        /\ route.hole => z.hole
        /\ z.pref = route.pref \/ Prefers(fabric, route.net.fam)
    BY <1>3, <1>4, <1>5, <1>6, Relays
  <2>2. at' = "table" /\ route' = z
    BY <1>1, <1>6 DEF Passes
  <2>. HIDE DEF z
  <2>3. z.comms \subseteq Known(fabric, from, sent)
    BY <1>4, <2>1, KnownGrows
  <2>4. from # None => TookIn(fabric, fabric.peers[from], sent, z)
    BY <1>4, <2>1 DEF TookIn
  <2>5. /\ from = None => sent \in Own
        /\ from # None => /\ from \in Live(fabric.peers) /\ ~IsIBGP(fabric.peers[from].shape)
                          /\ fabric.peers[from].fam = sent.net.fam
    BY <1>2 DEF RoutesInv
  <2>. QED BY <1>2, <1>4, <2>1, <2>2, <2>3, <2>4, <2>5 DEF RoutesInv
<1>7. CASE ~(out.verdict # "reject" /\ in.verdict = "accept")
  <2>1. at' = "dropped"
    BY <1>1, <1>7 DEF Passes
  <2>. QED BY <1>2, <2>1, Dropped
<1>. QED BY <1>6, <1>7

\* Announcing a route keeps it.
LEMMA AnnounceKeeps == ASSUME RoutesAssumption, RoutesInv, Announce PROVE RoutesInv'
<1>1. PICK q \in Neighbors \ {from} :
         Passes(ExportRoute(fabric, fabric.peers[q], route), "announced") /\ to' = q
  BY DEF Announce
<1>2. at = "table" /\ UNCHANGED <<fabric, sent, from>>
  BY DEF Announce
<1>. DEFINE p == fabric.peers[q]
            out == ExportRoute(fabric, p, route)
            z == out.route
<1>3. q \in Live(fabric.peers) /\ ~IsIBGP(p.shape)
  BY DEF Neighbors, Internal, Peers
<1>4. /\ fabric \in Fabrics /\ sent \in Wire \cup Own
      /\ Whole(route) /\ route.net = sent.net /\ route.path = sent.path
      /\ route.comms \subseteq Known(fabric, from, sent)
      /\ from # None => TookIn(fabric, fabric.peers[from], sent, route)
  BY <1>2 DEF RoutesInv
<1>5. route.path \in Seq(Nat) /\ Configured(fabric) /\ IsFiniteSet(PolicyIds)
  BY <1>4, SentIs
<1>6. CASE out.verdict = "accept"
  <2>1. SentOn(fabric, p, route, z)
    <3>1. SessionFits(fabric, p)
      BY <1>3, <1>5, ConfiguredPeer
    <3>. QED BY <1>4, <1>5, <1>6, <3>1, ExportRouteIs
  <2>2. at' = "announced" /\ route' = z
    BY <1>1, <1>6 DEF Passes
  <2>3. ~CarriesAll(p)
    BY <1>3 DEF CarriesAll
  <2>. HIDE DEF z, p
  <2>4. /\ Whole(z) /\ z.net = sent.net /\ z.hole = route.hole /\ z.pref = route.pref
        /\ z.comms \subseteq Known(fabric, from, sent) \cup Adds(fabric, p)
    BY <1>4, <2>1 DEF SentOn, IsNear
  <2>5. SentTo(fabric, from, sent, p, z)
    BY <2>1, <2>3, <2>4 DEF SentOn, SentTo
  <2>6. from # None => TookIn(fabric, fabric.peers[from], sent, z)
    BY <1>4, <2>4 DEF TookIn
  <2>7. /\ from = None => sent \in Own
        /\ from # None => /\ from \in Live(fabric.peers) /\ ~IsIBGP(fabric.peers[from].shape)
                          /\ fabric.peers[from].fam = sent.net.fam
    BY <1>2 DEF RoutesInv
  <2>8. to' = q /\ p = fabric.peers[q]
    BY <1>1 DEF p
  <2>. QED BY <1>2, <1>3, <1>4, <2>2, <2>4, <2>5, <2>6, <2>7, <2>8 DEF RoutesInv
<1>7. CASE out.verdict # "accept"
  <2>1. at' = "dropped"
    BY <1>1, <1>7 DEF Passes
  <2>. QED BY <1>2, <2>1, Dropped
<1>. QED BY <1>6, <1>7

\* Putting a route into the kernel keeps it.
LEMMA InstallKeeps == ASSUME RoutesInv, Install PROVE RoutesInv'
BY DEF RoutesInv, Install

\* What is known of a route stays known, however many internal sessions it crosses.
THEOREM RoutesInvariant == ASSUME RoutesAssumption PROVE RoutesSpec => []RoutesInv
<1>1. RoutesInit => RoutesInv
  BY RoutesStarts
<1>2. RoutesInv /\ [RoutesNext]_routeVars => RoutesInv'
  <2>. SUFFICES ASSUME RoutesInv, [RoutesNext]_routeVars PROVE RoutesInv'
    OBVIOUS
  <2>1. CASE Learn
    BY <2>1, LearnKeeps
  <2>2. CASE Relay
    BY <2>2, RelayKeeps
  <2>3. CASE Announce
    BY <2>3, AnnounceKeeps
  <2>4. CASE Install
    BY <2>4, InstallKeeps
  <2>5. CASE UNCHANGED routeVars
    BY <2>5 DEF RoutesInv, routeVars
  <2>. QED BY <2>1, <2>2, <2>3, <2>4, <2>5 DEF RoutesNext
<1>. QED BY <1>1, <1>2, PTL DEF RoutesSpec

-----------------------------------------------------------------------------
(* What the invariant says in the words of the properties.                  *)

\* An objection to what was sent is one to what is left of it after the head.
LEMMA Objecting ==
    ASSUME NEW pol, NEW p, ~IsIBGP(p.shape), NEW r, Objection(pol, p, r)
    PROVE  Objects(fabric, pol, p.fam, Entered(fabric, p, r))
<1>. DEFINE e == Entered(fabric, p, r)
<1>1. e.net = r.net /\ e.path = r.path /\ e.comms = Said(r)
  BY DEF Entered, Kept, Said
<1>. HIDE DEF e
<1>2. Origin(e) = Origin(r)
  BY <1>1 DEF Origin
<1>. QED BY <1>1, <1>2 DEF Objection, Objects, e

\* A discard the chain grants is honoured.
LEMMA Granting ==
    ASSUME NEW p, NEW i, NEW r, Grants(fabric, p, i, r)
    PROVE  Honoured(fabric.policies[p.chain.imports[i]], p, r)
<1>1. MarksOf(fabric, p.shape.importComms) = Marks(p.shape.importComms)
  BY DEF MarksOf, Marks
<1>. QED BY <1>1 DEF Grants, Honoured, Pol

\* A preference is that of an internal session.
LEMMA PreferringSets ==
    ASSUME RoutesAssumption, fabric \in Fabrics, route.net = sent.net, Prefers(fabric, sent.net.fam)
    PROVE  \E q \in Internal : SetsPreference(q)
<1>1. PICK q \in Live(fabric.peers) : /\ fabric.peers[q].enabled
                                      /\ fabric.peers[q].fam = sent.net.fam
                                      /\ IsIBGP(fabric.peers[q].shape)
                                      /\ Preferring(fabric, fabric.peers[q])
  BY DEF Prefers
<1>2. q \in Internal
  BY <1>1 DEF Internal, Peers
<1>. DEFINE c == fabric.peers[q].chain.imports
<1>3. DOMAIN c = 1..Len(c)
  <2>1. Configured(fabric) /\ IsFiniteSet(PolicyIds)
    BY DEF RoutesAssumption
  <2>2. c \in Seq(PolicyIds)
    BY <2>1, ConfiguredPeer DEF SessionFits
  <2>. QED BY <2>2, LenProperties
<1>4. PICK i \in 1..Len(c) : Pol(fabric, c, i).rules.pref > 0
  BY <1>1 DEF Preferring
<1>5. c[i] \in Elements(c) /\ fabric.policies[c[i]].rules.pref > 0
  BY <1>3, <1>4 DEF Elements, Pol
<1>. QED BY <1>2, <1>5 DEF SetsPreference

\* The invariant says what the vetoes do.
LEMMA VetoesFollow == ASSUME RoutesAssumption, RoutesInv PROVE VetoesHold
<1>. SUFFICES ASSUME at \notin {"offered", "dropped"}, from # None PROVE VetoesHold
  BY DEF VetoesHold
<1>. DEFINE p == fabric.peers[from]
            Silent(n) == \A i \in 1..n :
                             ~Objection(fabric.policies[p.chain.imports[i]], p, sent)
<1>1. /\ fabric \in Fabrics /\ from \in Live(fabric.peers) /\ ~IsIBGP(p.shape)
      /\ route.net = sent.net /\ TookIn(fabric, p, sent, route)
  BY DEF RoutesInv
<1>2. DOMAIN p.chain.imports = 1..Len(p.chain.imports)
  <2>1. Configured(fabric) /\ IsFiniteSet(PolicyIds)
    BY <1>1 DEF RoutesAssumption
  <2>2. p.chain.imports \in Seq(PolicyIds)
    BY <1>1, <2>1, ConfiguredPeer DEF SessionFits
  <2>. QED BY <2>2, LenProperties
<1>. HIDE DEF p
<1>3. ASSUME NEW n, Mute(fabric, p, n, sent) PROVE Silent(n)
  BY <1>1, <1>3, Objecting DEF Mute, Pol
<1>4. CASE /\ Mute(fabric, p, Len(p.chain.imports), sent)
           /\ p.drained => route.pref = 0 \/ Prefers(fabric, sent.net.fam)
  <2>1. Silent(Len(p.chain.imports))
    BY <1>3, <1>4
  <2>2. p.drained => route.pref = 0 \/ \E q \in Internal : SetsPreference(q)
    BY <1>1, <1>4, PreferringSets
  <2>. QED BY <2>1, <2>2 DEF VetoesHold, p
<1>5. CASE /\ route.hole
           /\ \E i \in 1..Len(p.chain.imports) :
                 Grants(fabric, p, i, sent) /\ Mute(fabric, p, i - 1, sent)
  <2>1. PICK i \in DOMAIN p.chain.imports :
                 Grants(fabric, p, i, sent) /\ Mute(fabric, p, i - 1, sent)
    BY <1>2, <1>5
  <2>2. Honoured(fabric.policies[p.chain.imports[i]], p, sent) /\ Silent(i - 1)
    BY <1>3, <2>1, Granting
  <2>. QED BY <1>5, <2>2 DEF VetoesHold, p
<1>. QED BY <1>1, <1>4, <1>5 DEF TookIn

\* A route of a neighbor is in a table only if nothing in the session's chain objected to it as
\* it was sent, or as a discard that the chain honours (writePeerImportFilter).
THEOREM VetoesAlwaysHold == ASSUME RoutesAssumption PROVE RoutesSpec => []VetoesHold
<1>1. RoutesInv => VetoesHold
  BY VetoesFollow
<1>. QED BY <1>1, RoutesInvariant, PTL

\* The marks of a route are true.
LEMMA KnownIsTrue ==
    ASSUME from # None => ~IsIBGP(fabric.peers[from].shape)
    PROVE  Known(fabric, from, sent) \subseteq TrueMarks
<1>1. Contradicted(fabric, sent) =
         {m \in {RPKI_INVALID(fabric)} : \E o \in Origin(sent) : <<sent.net, o>> \in RPKIInvalid}
  BY DEF Contradicted
<1>2. CASE from = None
  BY <1>1, <1>2 DEF Known, TrueMarks, Said
<1>3. CASE from # None
  <2>. DEFINE p == fabric.peers[from]
  <2>1. Given(fabric, p) \subseteq Marks(p.shape.importComms) \cup {TagOf(fabric, p.shape.role)}
    BY DEF Given, MarksOf, Marks
  <2>2. Marks(p.shape.importComms) \cup {TagOf(fabric, p.shape.role)} \subseteq TrueMarks
    <3>1. p \in Entry
      BY <1>3 DEF Entry
    <3>. HIDE DEF p
    <3>. QED BY <3>1 DEF TrueMarks
  <2>3. UNION {Given(fabric, fabric.peers[i]) : i \in {from} \ {None}} = Given(fabric, p)
    BY <1>3
  <2>. HIDE DEF p
  <2>4. Known(fabric, from, sent) =
           (Said(sent) \cup Given(fabric, p)) \cup Contradicted(fabric, sent)
    BY <2>3 DEF Known, Said
  <2>5. Said(sent) \subseteq TrueMarks /\ Contradicted(fabric, sent) \subseteq TrueMarks
    BY <1>1 DEF TrueMarks
  <2>. QED BY <2>1, <2>2, <2>4, <2>5
<1>. QED BY <1>2, <1>3

\* The invariant says what a permission is.
LEMMA PermissionFollows == ASSUME RoutesAssumption, RoutesInv PROVE AnnouncedByPermission
<1>. SUFFICES ASSUME at = "announced" PROVE AnnouncedByPermission
  BY DEF AnnouncedByPermission
<1>. DEFINE q == fabric.peers[to]
            c == q.chain.exports
<1>1. /\ fabric \in Fabrics /\ to \in Live(fabric.peers)
      /\ SentTo(fabric, from, sent, q, route)
      /\ from # None => ~IsIBGP(fabric.peers[from].shape)
  BY DEF RoutesInv
<1>2. DOMAIN c = 1..Len(c)
  <2>1. Configured(fabric) /\ IsFiniteSet(PolicyIds)
    BY <1>1 DEF RoutesAssumption
  <2>2. c \in Seq(PolicyIds)
    BY <1>1, <2>1, ConfiguredPeer DEF SessionFits
  <2>. QED BY <2>2, LenProperties
<1>. HIDE DEF q
<1>3. PICK i \in 1..Len(c) : /\ Permitting(fabric, Pol(fabric, c, i), q.fam, route)
                             /\ route.comms \subseteq Known(fabric, from, sent) \cup Adds(fabric, q)
  BY <1>1 DEF SentTo
<1>. DEFINE pol == Pol(fabric, c, i)
            marks == TrueMarks \cup ExitMarks(q)
<1>4. route.comms \subseteq marks
  <2>1. Adds(fabric, q) = ExitMarks(q)
    BY DEF Adds, ExitMarks, MarksOf, Marks
  <2>. QED BY <1>1, <1>3, <2>1, KnownIsTrue
<1>5. Permits(pol, q, route)
  <2>1. \/ "everything" \in pol.sources
        \/ "default" \in pol.sources /\ IsDefault(route.net)
        \/ \E s \in Announced(fabric, pol, q.fam) : route.net \in NetsOf(fabric.sets[s].entries)
        \/ \E role \in pol.sources \cap DOMAIN roleTag : TagOf(fabric, role) \in route.comms
        \/ pol.comm # None /\ communityByName(fabric, pol.comm) \cap route.comms # {}
    BY <1>3 DEF Permitting
  <2>. HIDE DEF pol, marks
  <2>2. ASSUME NEW s \in Announced(fabric, pol, q.fam), route.net \in NetsOf(fabric.sets[s].entries)
        PROVE  \E t \in pol.announce : /\ fabric.sets[t].family = q.fam /\ ~fabric.sets[t].disabled
                                       /\ route.net \in NetsOf(fabric.sets[t].entries)
    BY <2>2 DEF Announced
  <2>. QED BY <1>4, <2>1, <2>2 DEF Permits, marks
<1>6. c[i] \in Elements(c) /\ pol = fabric.policies[c[i]]
  BY <1>2, <1>3 DEF Elements, Pol
<1>. QED BY <1>5, <1>6 DEF AnnouncedByPermission, q

\* A route leaves the network only by a policy that permits it for what it is and for where it
\* truly entered, whatever its sender wrote on it (writePeerExportFilter).
THEOREM AlwaysByPermission == ASSUME RoutesAssumption PROVE RoutesSpec => []AnnouncedByPermission
<1>1. RoutesInv => AnnouncedByPermission
  BY PermissionFollows
<1>. QED BY <1>1, RoutesInvariant, PTL

-----------------------------------------------------------------------------
(* The lint.                                                                *)

\* What a finding that calls a session deaf says of it.
Deaf(d, n, what) ==
    \E p \in External(d) :
        /\ p.name = n
        /\ what = "accepts nothing: default" =>
               /\ \E q \in ImportsOf(d, p) : q.rules.default = "reject"
               /\ \E q \in ImportsOf(d, p) : q.rules.default = "only"
        /\ what = "accepts nothing: origin" =>
               /\ p.shape.originOnly
               /\ \E q \in ImportsOf(d, p) : /\ q.origin \in Live(d.asSets)
                                             /\ p.asn \notin d.asSets[q.origin].members
        /\ what = "rejects every route: private AS" =>
               /\ IsPrivateASN(d, p.asn)
               /\ \E q \in ImportsOf(d, p) : q.rules.bogonASNs = "all"

Deafening == {"accepts nothing: default", "accepts nothing: origin",
              "rejects every route: private AS"}

Says(d, v) ==
    /\ v = [sev |-> v.sev, peer |-> v.peer, what |-> v.what, about |-> v.about, asn |-> v.asn]
    /\ v.what \in Deafening => Deaf(d, v.peer, v.what)

\* A finding says what it says.
LEMMA FindingSays ==
    ASSUME NEW d, NEW sev, NEW peer, NEW what, NEW about, NEW asn,
           what \in Deafening => Deaf(d, peer, what)
    PROVE  Says(d, Finding(sev, peer, what, about, asn))
<1>. DEFINE v == Finding(sev, peer, what, about, asn)
<1>1. /\ v = [sev |-> v.sev, peer |-> v.peer, what |-> v.what, about |-> v.about, asn |-> v.asn]
      /\ v.what = what /\ v.peer = peer
  BY DEF Finding
<1>. HIDE DEF v
<1>. QED BY <1>1 DEF Says, v

\* Those that are about something else.
LEMMA OtherSays ==
    ASSUME NEW d, NEW peer, NEW what, what \notin Deafening, NEW about, NEW p
    PROVE  /\ Says(d, Danger(peer, what, about)) /\ Says(d, Warn(peer, what, about))
           /\ Says(d, DangerFor(p, what, about))
BY FindingSays DEF Danger, Warn, DangerFor

\* A finding that is made only if there is reason to.
LEMMA WhenSays ==
    ASSUME NEW d, NEW given, NEW v, given => Says(d, v)
    PROVE  \A w \in When(given, v) : Says(d, w)
BY DEF When

\* The findings about the model as a whole.
LEMMA GeneralSays ==
    ASSUME NEW d
    PROVE  \A v \in DanglingCommunities(d) \cup LintReflector(d) \cup LintRaw(d) \cup LintAnchors(d)
                        \cup LintModifiers(d) \cup LintDisabledSets(d) \cup LintRPKI(d)
                        \cup LintIdentity(d) : Says(d, v)
<1>1. \A v \in DanglingCommunities(d) : Says(d, v)
  <2>1. \A n, a : /\ Says(d, Danger(n, "import community", a))
                  /\ Says(d, Danger(n, "export community", a))
                  /\ Says(d, Danger(n, "matched community", a))
    BY OtherSays DEF Deafening
  <2>. DEFINE In(p) == {Danger(p.name, "import community", {n}) :
                           n \in p.shape.importComms \ CommunityNames(d)}
              Out(p) == {Danger(p.name, "export community", {n}) :
                            n \in p.shape.exportComms \ CommunityNames(d)}
              match == {Danger(None, "matched community", {pol.name, pol.comm}) :
                           pol \in {q \in LintPolicies(d) :
                                       q.comm \notin CommunityNames(d) \cup {None}}}
  <2>2. ASSUME NEW p PROVE \A v \in In(p) \cup Out(p) : Says(d, v)
    BY <2>1
  <2>3. \A v \in match : Says(d, v)
    BY <2>1
  <2>4. DanglingCommunities(d) = (UNION {In(p) \cup Out(p) : p \in LintPeers(d)}) \cup match
    BY DEF DanglingCommunities
  <2>. HIDE DEF In, Out, match
  <2>. QED BY <2>2, <2>3, <2>4
<1>2. \A v \in LintReflector(d) \cup LintRaw(d) \cup LintIdentity(d) : Says(d, v)
  <2>1. \A n, a : /\ Says(d, Warn(n, "cluster id unused", a)) /\ Says(d, Warn(n, "raw block", a))
                  /\ Says(d, Warn(n, "no identity", a))
    BY OtherSays DEF Deafening
  <2>. QED BY <2>1, WhenSays DEF LintReflector, LintRaw, LintIdentity
<1>3. \A v \in LintAnchors(d) : Says(d, v)
  <2>1. \A n, a : Says(d, Danger(n, "route and anchor", a))
    BY OtherSays DEF Deafening
  <2>. QED BY <2>1 DEF LintAnchors
<1>4. \A v \in LintModifiers(d) : Says(d, v)
  <2>1. \A n, a : Says(d, Warn(n, "announces more-specifics", a))
    BY OtherSays DEF Deafening
  <2>. DEFINE In(pol) == {Warn(None, "announces more-specifics", {pol.name, Pattern[e].base}) :
                             e \in {x \in UNION {s.entries : s \in SetsOf(d, pol)} :
                                       Pattern[x].modified}}
  <2>2. ASSUME NEW pol PROVE \A v \in In(pol) : Says(d, v)
    BY <2>1
  <2>3. LintModifiers(d) = UNION {In(pol) : pol \in LintPolicies(d)}
    BY DEF LintModifiers
  <2>. HIDE DEF In
  <2>. QED BY <2>2, <2>3
<1>5. \A v \in LintDisabledSets(d) : Says(d, v)
  <2>1. \A n, a : /\ Says(d, Danger(n, "accepts only a disabled set", a))
                  /\ Says(d, Warn(n, "announces a disabled set", a))
    BY OtherSays DEF Deafening
  <2>2. \A given, n, a :
           \A w \in When(given, Danger(n, "accepts only a disabled set", a)) : Says(d, w)
    BY <2>1, WhenSays
  <2>. DEFINE Shut(pol) == When(pol.allow \in Live(d.sets) /\ AllowSet(d, pol).disabled,
                                 Danger(None, "accepts only a disabled set", {pol.name}))
              Also(pol) == {Warn(None, "announces a disabled set", {pol.name, s.name}) :
                               s \in {t \in SetsOf(d, pol) : t.disabled}}
  <2>3. ASSUME NEW pol PROVE \A v \in Shut(pol) : Says(d, v)
    BY <2>2
  <2>4. ASSUME NEW pol PROVE \A v \in Also(pol) : Says(d, v)
    BY <2>1
  <2>5. LintDisabledSets(d) = UNION {Shut(pol) \cup Also(pol) : pol \in LintPolicies(d)}
    BY DEF LintDisabledSets
  <2>. HIDE DEF Shut, Also
  <2>. QED BY <2>3, <2>4, <2>5
<1>6. \A v \in LintRPKI(d) : Says(d, v)
  <2>1. \A n, a : /\ Says(d, Warn(n, "RPKI data ignored", a))
                  /\ Says(d, Warn(n, "RPKI only logged", a))
    BY OtherSays DEF Deafening
  <2>. QED BY <2>1, WhenSays DEF LintRPKI
<1>. QED BY <1>1, <1>2, <1>3, <1>4, <1>5, <1>6

\* The findings about the kind of a session.
LEMMA RoleSays == ASSUME NEW d, NEW p PROVE \A v \in LintRole(d, p) : Says(d, v)
<1>1. \A n, a, q : /\ Says(d, DangerFor(q, "internal, but not our AS", a))
                   /\ Says(d, Danger(n, "our AS, but external", a))
                   /\ Says(d, Warn(n, "next hop unchanged", a)) /\ Says(d, Warn(n, "draining", a))
  BY OtherSays DEF Deafening
<1>. QED BY <1>1, WhenSays DEF LintRole

\* A session from a private AS whose policies reject those (LintPrivateASN).
LEMMA PrivateSays ==
    ASSUME NEW d, NEW p \in External(d) PROVE \A v \in LintPrivateASN(d, p) : Says(d, v)
<1>1. ASSUME NEW q \in ImportsOf(d, p), IsPrivateASN(d, p.asn), q.rules.bogonASNs = "all"
      PROVE  Says(d, DangerFor(p, "rejects every route: private AS", {q.name}))
  <2>1. Deaf(d, p.name, "rejects every route: private AS")
    BY <1>1 DEF Deaf
  <2>. QED BY <2>1, FindingSays DEF DangerFor
<1>. QED BY <1>1 DEF LintPrivateASN

\* A chain that rejects the default and wants nothing else (LintDefault).
LEMMA DefaultSays ==
    ASSUME NEW d, NEW p \in External(d) PROVE \A v \in LintDefault(d, p) : Says(d, v)
<1>1. ASSUME NEW q \in ImportsOf(d, p), Rejecting(d, p) # {}, q.rules.default = "only", NEW a
      PROVE  Says(d, Danger(p.name, "accepts nothing: default", a))
  <2>1. PICK i \in DOMAIN p.chain.imports : d.policies[p.chain.imports[i]].rules.default = "reject"
    BY <1>1 DEF Rejecting
  <2>2. d.policies[p.chain.imports[i]] \in ImportsOf(d, p)
    BY DEF ImportsOf, Elements
  <2>3. Deaf(d, p.name, "accepts nothing: default")
    BY <1>1, <2>1, <2>2 DEF Deaf
  <2>. QED BY <2>3, FindingSays DEF Danger
<1>2. \A n, a : Says(d, Danger(n, "never accepts the default", a))
  BY OtherSays DEF Deafening
<1>3. \A given, n, a : \A w \in When(given, Danger(n, "never accepts the default", a)) : Says(d, w)
  BY <1>2, WhenSays
<1>4. ASSUME NEW q \in ImportsOf(d, p), Rejecting(d, p) # {}, NEW a
      PROVE  \A w \in When(q.rules.default = "only",
                           Danger(p.name, "accepts nothing: default", a)) : Says(d, w)
  BY <1>1, <1>4, WhenSays
<1>. QED BY <1>3, <1>4 DEF LintDefault

\* A session held to its own AS whose policies want others (LintOrigins).
LEMMA OriginSays ==
    ASSUME NEW d, NEW p \in External(d) PROVE \A v \in LintOrigins(d, p) : Says(d, v)
<1>1. \A n, a : /\ Says(d, Danger(n, "origin only, upstream", a))
                /\ Says(d, Danger(n, "origin set, upstream", a))
  BY OtherSays DEF Deafening
<1>2. ASSUME NEW q \in ImportsOf(d, p), p.shape.originOnly, q.origin \in Live(d.asSets),
             p.asn \notin d.asSets[q.origin].members, NEW a
      PROVE  Says(d, DangerFor(p, "accepts nothing: origin", a))
  <2>1. Deaf(d, p.name, "accepts nothing: origin")
    BY <1>2 DEF Deaf
  <2>. QED BY <2>1, FindingSays DEF DangerFor
<1>3. \A given, n, a : \A w \in When(given, Danger(n, "origin only, upstream", a)) : Says(d, w)
  BY <1>1, WhenSays
<1>. QED BY <1>1, <1>2, <1>3 DEF LintOrigins

\* The remaining findings about a session.
LEMMA OpenSays ==
    ASSUME NEW d, NEW p
    PROVE  \A v \in LintOpen(d, p) \cup LintSilent(d, p) \cup LintLeaks(d, p) : Says(d, v)
<1>1. \A n, a : /\ Says(d, Danger(n, "accepts everything", a))
                /\ Says(d, Warn(n, "no import limit", a))
                /\ Says(d, Danger(n, "announces nothing", a))
                /\ Says(d, Danger(n, "leaks the table", a))
                /\ Says(d, Danger(n, "leaks upstreams", a))
  BY OtherSays DEF Deafening
<1>2. \A v \in LintOpen(d, p) : Says(d, v)
  BY <1>1, WhenSays DEF LintOpen
<1>3. \A v \in LintSilent(d, p) : Says(d, v)
  BY <1>1 DEF LintSilent
<1>4. \A v \in LintLeaks(d, p) : Says(d, v)
  BY <1>1 DEF LintLeaks
<1>. QED BY <1>2, <1>3, <1>4

\* All of them.
LEMMA FindingsSay == ASSUME NEW d PROVE \A v \in Findings(d) : Says(d, v)
<1>1. \A p \in LintPeers(d) : \A v \in LintRole(d, p) : Says(d, v)
  BY RoleSays
<1>2. \A p \in External(d) : \A v \in LintPeer(d, p) : Says(d, v)
  BY PrivateSays, DefaultSays, OriginSays, OpenSays DEF LintPeer
<1>. QED BY <1>1, <1>2, GeneralSays DEF Findings

\* What is reported of a session was found of it, folded or not.
LEMMA ReportSays ==
    ASSUME NEW d, NEW w \in LintReport(d), NEW n \in w.peers, w.finding.what \in Deafening
    PROVE  Deaf(d, n, w.finding.what)
<1>. DEFINE ws == Findings(d)
<1>1. \A v \in ws : Says(d, v)
  BY FindingsSay
<1>. HIDE DEF ws
<1>2. PICK v \in ws :
         w = [finding |-> [v EXCEPT !.peer = None],
              peers |-> IF Folded(d, ws, v) THEN {x.peer : x \in SameFor(d, ws, v)}
                        ELSE {v.peer} \ {None}]
  BY DEF LintReport, foldByTemplate, ws
<1>3. ASSUME NEW x \in ws PROVE [x EXCEPT !.peer = None].what = x.what
  BY <1>1 DEF Says
<1>4. w.finding.what = v.what
  BY <1>2, <1>3
<1>5. n = v.peer \/ \E x \in SameFor(d, ws, v) : n = x.peer
  BY <1>2
<1>6. PICK x \in ws : n = x.peer /\ x.what = v.what
  <2>1. \A x \in SameFor(d, ws, v) : x \in ws /\ [x EXCEPT !.peer = None] = [v EXCEPT !.peer = None]
    BY DEF SameFor
  <2>2. \A x \in SameFor(d, ws, v) : x \in ws /\ x.what = v.what
    BY <1>3, <2>1
  <2>. QED BY <1>5, <2>2
<1>. QED BY <1>1, <1>4, <1>6 DEF Says

\* The invariant contradicts what the lint says of a session a route came in by.
LEMMA LintFollows == ASSUME RoutesAssumption, RoutesInv PROVE LintIsRight
<1>. SUFFICES ASSUME at = "table", from # None, ~route.hole, DeafByLint(fabric.peers[from])
              PROVE  FALSE
  BY DEF LintIsRight
<1>. DEFINE p == fabric.peers[from]
<1>1. /\ fabric \in Fabrics /\ from \in Live(fabric.peers) /\ ~IsIBGP(p.shape)
      /\ TookIn(fabric, p, sent, route)
  BY DEF RoutesInv
<1>2. Configured(fabric) /\ IsFiniteSet(PolicyIds)
  BY <1>1 DEF RoutesAssumption
<1>3. PICK w \in LintReport(fabric) :
         /\ p.name \in w.peers
         /\ w.finding.what \in Deafening
         /\ w.finding.what = "rejects every route: private AS" => p.shape.firstAS
  BY DEF DeafByLint, Deafening
<1>4. Deaf(fabric, p.name, w.finding.what)
  BY <1>3, ReportSays
<1>5. \A q \in External(fabric) : q.name = p.name => q = p
  <2>1. \A q \in External(fabric) : \E j \in Live(fabric.peers) : q = fabric.peers[j]
    BY DEF External, LintPeers, LiveRows
  <2>. QED BY <1>1, <1>2, <2>1 DEF Configured
<1>6. /\ HeadChecks(p, sent)
      /\ \A i \in 1..Len(p.chain.imports) :
            ~Objection(fabric.policies[p.chain.imports[i]], p, sent)
  BY <1>1, Objecting DEF TookIn, Mute, Pol
<1>7. DOMAIN p.chain.imports = 1..Len(p.chain.imports)
  <2>1. p.chain.imports \in Seq(PolicyIds)
    BY <1>1, <1>2, ConfiguredPeer DEF SessionFits
  <2>. QED BY <2>1, LenProperties
<1>8. \A q \in ImportsOf(fabric, p) : ~Objection(q, p, sent)
  BY <1>6, <1>7 DEF ImportsOf, Elements
<1>. HIDE DEF p
<1>9. CASE w.finding.what = "accepts nothing: default"
  <2>1. /\ \E q \in ImportsOf(fabric, p) : q.rules.default = "reject"
        /\ \E q \in ImportsOf(fabric, p) : q.rules.default = "only"
    BY <1>4, <1>5, <1>9 DEF Deaf
  <2>. QED BY <1>8, <2>1 DEF Objection
<1>10. CASE w.finding.what = "accepts nothing: origin"
  <2>1. PICK q \in ImportsOf(fabric, p) : /\ q.origin \in Live(fabric.asSets)
                                          /\ p.asn \notin fabric.asSets[q.origin].members
    BY <1>4, <1>5, <1>10 DEF Deaf
  <2>2. Origin(sent) \cap {p.asn} # {}
    BY <1>4, <1>5, <1>6, <1>10 DEF Deaf, HeadChecks
  <2>3. Origin(sent) = {p.asn}
    BY <2>2 DEF Origin
  <2>4. q.origin # None
    BY <1>2, <2>1 DEF Configured
  <2>5. Origin(sent) \cap fabric.asSets[q.origin].members = {}
    BY <2>1, <2>3
  <2>. QED BY <1>8, <2>4, <2>5 DEF Objection
<1>11. CASE w.finding.what = "rejects every route: private AS"
  <2>1. PICK q \in ImportsOf(fabric, p) : q.rules.bogonASNs = "all"
    BY <1>4, <1>5, <1>11 DEF Deaf
  <2>2. IsPrivateASN(fabric, p.asn)
    BY <1>4, <1>5, <1>11 DEF Deaf
  <2>3. p.asn \in Elements(sent.path)
    BY <1>3, <1>6, <1>11 DEF HeadChecks, First, Elements
  <2>4. PICK b \in BogonASNs(fabric) : b.private /\ b.asn = p.asn
    BY <2>2 DEF IsPrivateASN
  <2>. QED BY <1>8, <2>1, <2>3, <2>4 DEF Objection
<1>. QED BY <1>3, <1>9, <1>10, <1>11 DEF Deafening

\* The lint never calls a session deaf that brings a route.
THEOREM LintIsAlwaysRight == ASSUME RoutesAssumption PROVE RoutesSpec => []LintIsRight
<1>1. RoutesInv => LintIsRight
  BY LintFollows
<1>. QED BY <1>1, RoutesInvariant, PTL

=============================================================================
