----------------------- MODULE InstanceScenariosProofs -----------------------
(***************************************************************************)
(* What is proved of the scenarios of a run and of their forks, for any    *)
(* model, any tables, any data drawn and any number of forks.              *)
(***************************************************************************)
EXTENDS InstanceScenarios, FiniteSetTheorems, SequenceTheorems, IterationTheorems

-----------------------------------------------------------------------------
\* The sum of finitely many integers is one.
LEMMA TotalTyped ==
  ASSUME NEW S, IsFiniteSet(S), NEW F, \A a \in S : F[a] \in Int
  PROVE  Total(F, S) \in Int
  <1> DEFINE N == Cardinality(S)
             some(s) == CHOOSE x \in s : TRUE
             Sums == [SUBSET S -> Int]
             more(g) == [s \in SUBSET S |-> IF s = {} THEN 0 ELSE F[some(s)] + g[s \ {some(s)}]]
  <1>1. N \in Nat /\ \A s \in SUBSET S : IsFiniteSet(s) /\ Cardinality(s) \in 0..N
    BY FS_CardinalityType, FS_Subset
  <1>2. \A s \in SUBSET S : s # {} => /\ some(s) \in s /\ s \ {some(s)} \in SUBSET S
                                      /\ Cardinality(s \ {some(s)}) = Cardinality(s) - 1
    BY <1>1, FS_RemoveElement
  <1>3. \A g \in Sums : more(g) \in Sums
    BY <1>2
  <1>4. \A g : \A s \in SUBSET S : more(g)[s] = IF s = {} THEN 0 ELSE F[some(s)] + g[s \ {some(s)}]
    OBVIOUS
  <1>5. [s \in SUBSET S |-> 0] \in Sums
    OBVIOUS
  <1>6. \A g, h \in Sums : (\A s \in SUBSET S : g[s] = h[s]) => g = h
    OBVIOUS
  <1> HIDE DEF N, some, more, Sums
  <1>7. PICK f \in [0..(N + 1) -> Sums] : f[0][{}] = 0 /\ \A k \in 0..N : f[k + 1] = more(f[k])
    <2> DEFINE once == [g \in Sums |-> more(g)]
             step == [k \in 1..(N + 1) |-> once]
               base == [s \in SUBSET S |-> 0]
    <2>0. once \in [Sums -> Sums] /\ \A g \in Sums : once[g] = more(g)
      BY <1>3
    <2> HIDE DEF once
    <2>1. step \in [1..(N + 1) -> [Sums -> Sums]] /\ base \in Sums
      BY <1>5, <2>0
    <2>2. \A k \in 1..(N + 1) : step[k] = once
      OBVIOUS
    <2> DEFINE M == N + 1
    <2>3. M \in Nat
      BY <1>1
    <2> HIDE DEF step, base, M
    <2>31. step \in Steps(M, Sums)
      BY <2>1 DEF M, Steps
    <2>32. Built(M, Sums, base, step) # {}
      BY <2>1, <2>3, <2>31, Iterated
    <2>4. PICK f \in [0..(N + 1) -> Sums] : f[0] = base /\ \A k \in 1..(N + 1) : f[k] = step[k][f[k - 1]]
      BY <2>32 DEF M, Built
    <2>5. ASSUME NEW k \in 0..N PROVE f[k + 1] = more(f[k])
      <3>1. k + 1 \in 1..(N + 1) /\ (k + 1) - 1 = k /\ f[k] \in Sums
        BY <1>1
      <3>2. f[k + 1] = step[k + 1][f[(k + 1) - 1]]
        BY <2>4, <3>1
      <3> QED
        BY <2>0, <2>2, <3>1, <3>2
    <2>6. f[0][{}] = 0
      BY <2>4 DEF base
    <2> QED
      BY <2>5, <2>6
  <1>8. \A k \in 0..N : k + 1 \in 0..(N + 1) /\ f[k] \in Sums /\ f[k + 1] \in Sums
    BY <1>1
  <1> DEFINE Agree(k) == \A s \in SUBSET S : Cardinality(s) <= k => f[k][s] = f[k + 1][s]
             P == {k \in 0..N : Agree(k)}
  <1>9. 0 \in P
    <2>1. f[0 + 1] = more(f[0]) /\ f[0] \in Sums
      BY <1>1, <1>7, <1>8
    <2>2. f[0 + 1] = f[1]
      OBVIOUS
    <2>3. \A s \in SUBSET S : Cardinality(s) <= 0 => s = {}
      BY <1>1, FS_EmptySet
    <2>4. more(f[0])[{}] = 0 /\ more(f[1])[{}] = 0
      BY <1>4
    <2>5. \A s \in SUBSET S : Cardinality(s) <= 0 => f[0][s] = f[1][s]
      BY <1>7, <2>1, <2>2, <2>3, <2>4
    <2>6. Agree(0)
      BY <2>2, <2>5
    <2> QED
      BY <1>1, <2>6
  <1>10. ASSUME NEW k \in 1..N, k - 1 \in P PROVE k \in P
    <2>1. k - 1 \in 0..N /\ k \in 0..N /\ (k - 1) + 1 = k
      BY <1>1
    <2>2. f[k] = more(f[k - 1]) /\ f[k + 1] = more(f[k])
      BY <1>7, <2>1
    <2>3. ASSUME NEW s \in SUBSET S, Cardinality(s) <= k PROVE f[k][s] = f[k + 1][s]
      <3>1. CASE s = {}
        BY <1>4, <2>2, <3>1
      <3>2. CASE s # {}
        <4> DEFINE r == s \ {some(s)}
        <4>1. r \in SUBSET S /\ Cardinality(r) = Cardinality(s) - 1 /\ Cardinality(s) \in 0..N
          BY <1>1, <1>2, <3>2
        <4>2. Cardinality(r) <= k - 1
          BY <1>1, <2>3, <4>1
        <4>3. f[k - 1][r] = f[k][r]
          BY <1>10, <2>1, <4>1, <4>2
        <4>4. more(f[k - 1])[s] = F[some(s)] + f[k - 1][r] /\ more(f[k])[s] = F[some(s)] + f[k][r]
          BY <1>4, <3>2
        <4> QED
          BY <2>2, <4>3, <4>4
      <3> QED
        BY <3>1, <3>2
    <2>4. Agree(k)
      BY <2>3
    <2> QED
      BY <2>1, <2>4
  <1> HIDE DEF P
  <1>11. 0..N \subseteq P
    BY <1>1, <1>9, <1>10, UpToAll
  <1>12. Agree(N)
    BY <1>1, <1>11 DEF P
  <1>13. f[N] = more(f[N])
    <2>1. N \in 0..N
      BY <1>1
    <2>2. \A s \in SUBSET S : f[N][s] = f[N + 1][s]
      BY <1>1, <1>12
    <2> QED
      BY <1>6, <1>7, <1>8, <2>1, <2>2
  <1> DEFINE iter == CHOOSE g : g = more(g)
  <1>14. iter = more(iter)
    BY <1>13
  <1> HIDE DEF iter
  <1> DEFINE Q == {k \in 0..N : \A s \in SUBSET S : Cardinality(s) <= k => iter[s] \in Int}
  <1>15. 0 \in Q
    <2>1. \A s \in SUBSET S : Cardinality(s) <= 0 => s = {}
      BY <1>1, FS_EmptySet
    <2>2. {} \in SUBSET S /\ more(iter)[{}] = 0
      BY <1>4
    <2>3. iter[{}] = 0
      BY <1>14, <2>2
    <2>4. \A s \in SUBSET S : Cardinality(s) <= 0 => iter[s] \in Int
      BY <2>1, <2>3
    <2> QED
      BY <1>1, <2>4
  <1>16. ASSUME NEW k \in 1..N, k - 1 \in Q PROVE k \in Q
    <2>1. ASSUME NEW s \in SUBSET S, Cardinality(s) <= k PROVE iter[s] \in Int
      <3>1. CASE s = {}
        <4>1. more(iter)[s] = 0
          BY <1>4, <3>1
        <4> QED
          BY <1>14, <4>1
      <3>2. CASE s # {}
        <4> DEFINE r == s \ {some(s)}
        <4>1. r \in SUBSET S /\ Cardinality(r) = Cardinality(s) - 1 /\ Cardinality(s) \in 0..N /\ some(s) \in S
          BY <1>1, <1>2, <3>2
        <4>2. Cardinality(r) <= k - 1
          BY <1>1, <2>1, <4>1
        <4>3. iter[r] \in Int
          BY <1>16, <4>1, <4>2
        <4>4. more(iter)[s] = F[some(s)] + iter[r]
          BY <1>4, <3>2
        <4> QED
          BY <1>14, <4>1, <4>3, <4>4
      <3> QED
        BY <3>1, <3>2
    <2> QED
      BY <1>1, <2>1
  <1> HIDE DEF Q
  <1>17. 0..N \subseteq Q
    BY <1>1, <1>15, <1>16, UpToAll
  <1>18. iter[S] \in Int
    BY <1>1, <1>17 DEF Q, N
  <1> QED
    BY <1>18 DEF iter, Total, MapThenSumSet, MapThenFoldSet, more, some

-----------------------------------------------------------------------------
Numbers == Int \union {Undefined}
Givens == [Attributes -> Numbers]
ReadyExpressions == [target : Attributes \union {""}, reads : SUBSET Attributes, spread : SUBSET Int]

\* The rows kept as initializations.
Initializations == {r \in Rows : r.inst \in Instances /\ r.node \in Nodes /\ r.attr \in Attributes}

\* What the sampling of some of the rows may have made of a scenario.
Partials ==
  [values : [Instances -> Givens], rows : Seq(Int), fails : BOOLEAN,
   nodes : [Instances -> [Nodes -> Numbers]]]

\* What has been read is of its type, and of a table of the right form.
TableTyped ==
  /\ provider \in Providers /\ table \in Tables /\ next \in Nat \ {0}
  /\ phase \in {"parse", "read", "refused", "ready", "run", "failed"}
  /\ phase \notin {"parse", "refused"} => WellFormed
  /\ globals \in Givens /\ values \in [Instances -> Givens]
  /\ shown \in [Instances -> [Nodes -> Numbers]]
  /\ inits \in Seq(Initializations)
  /\ readies \in [Instances -> [Nodes -> Seq(ReadyExpressions)]]

\* The greatest of up to three times.
LEMMA MaxFew ==
  ASSUME NEW t \in Int, NEW x \in Numbers, NEW y \in Numbers, NEW S,
         S = {t} \union ({x, y} \ {Undefined})
  PROVE  /\ Max(S) \in Int /\ Max(S) \in S /\ Max(S) >= t
         /\ x # Undefined => Max(S) >= x
         /\ y # Undefined => Max(S) >= y
  <1>1. Undefined \notin Int /\ S \subseteq Int /\ t \in S
    BY TableAssumption DEF Numbers
  <1>2. \E m \in S : \A z \in S : m >= z
    <2>1. CASE x = Undefined /\ y = Undefined
      <3>1. S = {t}
        BY <2>1
      <3> QED
        BY <3>1
    <2>2. CASE x # Undefined /\ y = Undefined
      <3>1. S = {t, x} /\ x \in Int
        BY <2>2 DEF Numbers
      <3> QED
        BY <3>1
    <2>3. CASE x = Undefined /\ y # Undefined
      <3>1. S = {t, y} /\ y \in Int
        BY <2>3 DEF Numbers
      <3> QED
        BY <3>1
    <2>4. CASE x # Undefined /\ y # Undefined
      <3>1. S = {t, x, y} /\ x \in Int /\ y \in Int
        BY <2>4 DEF Numbers
      <3> QED
        BY <3>1
    <2> QED
      BY <2>1, <2>2, <2>3, <2>4
  <1>3. Max(S) \in S /\ \A z \in S : Max(S) >= z
    BY <1>2 DEF Max
  <1> QED
    BY <1>1, <1>3

\* The greater of two times.
LEMMA AtLeastTyped ==
  ASSUME NEW t \in Int, NEW earliest \in Int
  PROVE  /\ AtLeast(t, earliest) \in Int
         /\ AtLeast(t, earliest) >= earliest /\ AtLeast(t, earliest) >= t
         /\ AtLeast(t, earliest) \in {t, earliest}
  <1>1. \E m \in {t, earliest} : \A z \in {t, earliest} : m >= z
    OBVIOUS
  <1> QED
    BY <1>1 DEF AtLeast, Max

\* The elements of a sequence, and that one not empty has a first.
LEMMA SequenceStarts ==
  ASSUME NEW T, NEW q \in Seq(T)
  PROVE  /\ Len(q) \in Nat /\ DOMAIN q = 1..Len(q)
         /\ \A k \in 1..Len(q) : q[k] \in T
         /\ q # <<>> => 1 \in DOMAIN q /\ q[1] \in T
  <1>1. Len(q) \in Nat /\ DOMAIN q = 1..Len(q) /\ q \in [1..Len(q) -> T]
    BY LenProperties
  <1>2. q # <<>> => Len(q) # 0
    BY EmptySeq
  <1> QED
    BY <1>1, <1>2

\* The ancestors of a node are those of its scope and itself.
LEMMA UpwardsFrom ==
  /\ Upwards[""] = {}
  /\ \A n \in Nodes : Upwards[n] = {n} \union Upwards[Parent[n]]
  <1> DEFINE Closed(C) == \A x \in C : Parent[x] \in Nodes => Parent[x] \in C
             Outward(n) == {m \in Nodes : \A C \in SUBSET Nodes : n \in C /\ Closed(C) => m \in C}
             up == [n \in Nodes \union {""} |-> IF n = "" THEN {} ELSE Outward(n)]
             next_(f) == [n \in Nodes \union {""} |-> IF n = "" THEN {} ELSE {n} \union f[Parent[n]]]
  <1>1. "" \notin Nodes /\ Parent \in [Nodes -> Nodes \union {""}]
    BY ModelAssumption
  <1>2. ASSUME NEW n \in Nodes PROVE Outward(n) = {n} \union up[Parent[n]]
    <2>1. CASE Parent[n] = ""
      <3>1. Closed({n})
        BY <1>1, <2>1
      <3>2. Outward(n) \subseteq {n}
        BY <3>1
      <3>3. n \in Outward(n)
        OBVIOUS
      <3> QED
        BY <1>1, <2>1, <3>2, <3>3
    <2>2. CASE Parent[n] \in Nodes
      <3> DEFINE p == Parent[n]
                 D == {n} \union Outward(p)
      <3>1. Closed(Outward(p))
        OBVIOUS
      <3>2. p \in Outward(p)
        BY <2>2
      <3>3. Closed(D) /\ D \in SUBSET Nodes
        BY <3>1, <3>2
      <3>4. Outward(n) \subseteq D
        BY <3>3
      <3>5. ASSUME NEW m \in Outward(p) PROVE m \in Outward(n)
        <4>1. ASSUME NEW C \in SUBSET Nodes, n \in C, Closed(C) PROVE m \in C
          <5>1. p \in C
            BY <2>2, <4>1
          <5> QED
            BY <3>5, <4>1, <5>1
        <4> QED
          BY <4>1
      <3>6. n \in Outward(n)
        OBVIOUS
      <3>7. up[Parent[n]] = Outward(p)
        BY <1>1, <2>2
      <3> HIDE DEF Outward, up
      <3> QED
        BY <3>4, <3>5, <3>6, <3>7
    <2> QED
      BY <1>1, <2>1, <2>2
  <1>3. up = next_(up)
    BY <1>1, <1>2
  <1> HIDE DEF up
  <1>4. Upwards = next_(Upwards)
    BY <1>3 DEF Upwards
  <1> QED
    BY <1>1, <1>4

\* The timestamp of an instance is an attribute of its process.
LEMMA TimestampOfProcess ==
  ASSUME NEW p \in Nodes, Kind[p] = "process"
  PROVE  ProcessOf(p) = p /\ Timestamp(p) = Own[p][1] /\ Timestamp(p) \in Attributes
         /\ Timestamp(p) \in ToSet(Own[p]) /\ Timestamp(p) \notin DOMAIN ModelGiven /\ Parent[p] = ""
  <1>1. Parent[p] = "" /\ Own[p] # <<>> /\ Own[p] \in Seq(Attributes) /\ Own[p][1] \notin DOMAIN ModelGiven
    BY ModelAssumption
  <1>2. Upwards[p] = {p}
    BY <1>1, UpwardsFrom
  <1>3. ProcessOf(p) = p
    BY <1>1, <1>2 DEF ProcessOf
  <1>5. 1 \in DOMAIN Own[p] /\ Own[p][1] \in Attributes
    BY <1>1, SequenceStarts
  <1> QED
    BY <1>1, <1>3, <1>5 DEF Timestamp, ToSet

-----------------------------------------------------------------------------
\* An expression of which all that it reads has a value yields one.
LEMMA ValueTyped ==
  ASSUME NEW view \in Givens, NEW e, e.reads \in SUBSET Attributes, HasValue(view, e), NEW d \in Int
  PROVE  Value(view, e, d) \in Int
  <1>1. IsFiniteSet(e.reads)
    BY ModelAssumption, FS_Subset
  <1>2. \A a \in e.reads : view[a] \in Int
    BY DEF HasValue, Numbers, Givens
  <1>3. Total(view, e.reads) \in Int
    BY <1>1, <1>2, TotalTyped
  <1> QED
    BY <1>3 DEF Value

\* What an expression reads are numbers.
LEMMA ViewTyped ==
  ASSUME globals \in Givens, NEW g \in Givens
  PROVE  View(g) \in Givens
  BY DEF View, Givens

\* What an expression reads by index has a value when what it refers to has one.
LEMMA ViewsTyped ==
  ASSUME globals \in Givens, NEW g \in Givens, NEW e, e.reads \in SUBSET Attributes, HasValue(View(g), e),
         NEW view \in Views(g, e)
  PROVE  view \in Givens /\ HasValue(view, e)
  <1>1. ASSUME NEW a \in e.reads, NEW w \in ReadBack(g, a)
        PROVE  w \in Numbers /\ w # Undefined
    <2> DEFINE written == {b \in Attributes : g[b] # Undefined /\ SameSlot(a, b)}
    <2>1. CASE written = {}
      <3>1. w = View(g)[a]
        BY <1>1, <2>1 DEF ReadBack
      <3> QED
        BY <3>1, ViewTyped DEF HasValue, Givens
    <2>2. CASE written # {}
      <3>1. \E b \in written : w = g[b]
        BY <1>1, <2>2 DEF ReadBack
      <3> QED
        BY <3>1 DEF Givens
    <2> QED
      BY <2>1, <2>2
  <1>2. PICK v : /\ \A a \in e.reads : v[a] \in ReadBack(g, a)
                 /\ view = [a \in Attributes |-> IF a \in e.reads THEN v[a] ELSE Undefined]
    BY DEF Views
  <1>3. \A a \in e.reads : v[a] \in Numbers /\ v[a] # Undefined
    BY <1>1, <1>2
  <1> QED
    BY <1>2, <1>3 DEF Givens, HasValue, Numbers

\* The expectation of a random function.
LEMMA MeanTyped ==
  ASSUME NEW S \in SUBSET Int, IsFiniteSet(S), S # {}
  PROVE  Mean(S) \in Int
  <1> DEFINE F == [d \in S |-> d]
  <1>1. \A d \in S : F[d] \in Int
    OBVIOUS
  <1> HIDE DEF F
  <1>2. Total(F, S) \in Int
    BY <1>1, TotalTyped
  <1>3. Cardinality(S) \in Nat /\ Cardinality(S) # 0
    BY FS_CardinalityType, FS_EmptySet
  <1>4. Total(F, S) \div Cardinality(S) \in Int
    BY <1>2, <1>3
  <1> QED
    BY <1>4 DEF Mean, F

\* The parts of an initialization.
LEMMA InitializationTyped ==
  ASSUME inits \in Seq(Initializations), NEW k \in 1..Len(inits)
  PROVE  /\ Len(inits) \in Nat
         /\ inits[k].inst \in Instances /\ inits[k].node \in Nodes /\ inits[k].attr \in Attributes
         /\ inits[k].init.reads \in SUBSET Attributes /\ inits[k].init.spread \in SUBSET Int
         /\ inits[k].disclosure.reads \in SUBSET Attributes /\ inits[k].disclosure.spread \in SUBSET Int
  <1>1. Len(inits) \in Nat /\ inits[k] \in Initializations
    BY SequenceStarts
  <1> QED
    BY <1>1 DEF Initializations, Rows, Expressions

\* A scenario the rows of a fork may be kept from.
Origins == {o \in Partials : \A k \in 1..Len(inits) : o.rows[k] \in Int}

\* A disclosure changes the time of one node only, to one not earlier than any time it has,
\* that of a process to one of the times it may have.
Discloses(later, times, i, n, t) ==
  /\ later \in [Instances -> [Nodes -> Numbers]]
  /\ \A j \in Instances, m \in Nodes : j # i \/ m # n => later[j][m] = times[j][m]
  /\ later[i][n] \in Int /\ later[i][n] >= t
  /\ times[i][n] # Undefined => later[i][n] >= times[i][n]
  /\ Parent[n] = "" => later[i][n] \in {0, t, times[i][n]}

\* That is what the disclosure of a row does.
LEMMA DisclosedTyped ==
  ASSUME NEW times \in [Instances -> [Nodes -> Numbers]], NEW row,
         row.inst \in Instances, row.node \in Nodes, NEW t \in Int
  PROVE  Discloses(Disclosed(times, row, t), times, row.inst, row.node, t)
  <1> DEFINE scope == IF Parent[row.node] = "" THEN 0 ELSE times[row.inst][Parent[row.node]]
             before == times[row.inst][row.node]
             S == {t} \union ({scope, before} \ {Undefined})
  <1>1. scope \in Numbers /\ before \in Numbers
    <2>1. Parent[row.node] \in Nodes \union {""}
      BY ModelAssumption
    <2>2. 0 \in Numbers
      BY DEF Numbers
    <2> QED
      BY <2>1, <2>2
  <1>2. /\ Max(S) \in Int /\ Max(S) \in S /\ Max(S) >= t
        /\ before # Undefined => Max(S) >= before
    BY <1>1, MaxFew
  <1>3. Disclosed(times, row, t) = [times EXCEPT ![row.inst][row.node] = Max(S)]
    BY DEF Disclosed
  <1>4. Parent[row.node] = "" => Max(S) \in {0, t, before}
    BY <1>2
  <1> DEFINE m == Max(S)
             i == row.inst
             n == row.node
  <1>5. m \in Numbers
    BY <1>2 DEF Numbers
  <1> HIDE DEF m
  <1>6. Disclosed(times, row, t) = [times EXCEPT ![i] = [times[i] EXCEPT ![n] = m]]
    BY <1>3 DEF m
  <1>7. times[i] \in [Nodes -> Numbers]
    OBVIOUS
  <1> HIDE DEF i, n
  <1>8. [times[i] EXCEPT ![n] = m] \in [Nodes -> Numbers]
    BY <1>5, <1>7
  <1>9. /\ Disclosed(times, row, t) \in [Instances -> [Nodes -> Numbers]]
        /\ Disclosed(times, row, t)[i][n] = m
    BY <1>6, <1>7, <1>8 DEF i, n
  <1>10. \A j \in Instances, l \in Nodes : j # i \/ l # n => Disclosed(times, row, t)[j][l] = times[j][l]
    BY <1>6, <1>7
  <1>11. /\ m \in Int /\ m >= t
         /\ before # Undefined => m >= before
         /\ Parent[row.node] = "" => m \in {0, t, before}
    BY <1>2, <1>4 DEF m
  <1> QED
    BY <1>9, <1>10, <1>11 DEF i, n, Discloses

\* Sampling a row gives its attribute a value and its node a disclosure time, those
\* of the original if the row is kept, or else fails.
LEMMA RowSampled ==
  ASSUME globals \in Givens, inits \in Seq(Initializations), NEW origin \in Origins, NEW spawn \in Int,
         NEW k \in 1..Len(inits), NEW s \in Partials, ~s.fails,
         NEW r \in RowSamples(s, k, origin, spawn)
  PROVE  \/ r = [s EXCEPT !.fails = TRUE]
         \/ \E v \in Int, t \in Int :
              /\ r = Revealed(Valued(s, k, v), k, t)
              /\ IF KeptRow(origin, k, spawn)
                   THEN v = origin.values[inits[k].inst][inits[k].attr] /\ t = origin.rows[k]
                   ELSE t >= spawn
  <1> DEFINE row == inits[k]
  <1>1. /\ row.inst \in Instances /\ row.node \in Nodes /\ row.attr \in Attributes
        /\ row.init.reads \in SUBSET Attributes /\ row.init.spread \in SUBSET Int
        /\ row.disclosure.reads \in SUBSET Attributes /\ row.disclosure.spread \in SUBSET Int
    BY InitializationTyped
  <1> HIDE DEF row
  <1>2. PICK v \in RowValues(s, k, origin, spawn) :
          r \in IF v = Undefined THEN {[s EXCEPT !.fails = TRUE]}
                ELSE {IF t = Undefined THEN [s EXCEPT !.fails = TRUE] ELSE Revealed(Valued(s, k, v), k, t) :
                        t \in RowDisclosures(Valued(s, k, v), k, origin, spawn)}
    BY DEF RowSamples
  <1> SUFFICES ASSUME r # [s EXCEPT !.fails = TRUE]
               PROVE  \E w \in Int, t \in Int :
                        /\ r = Revealed(Valued(s, k, w), k, t)
                        /\ IF KeptRow(origin, k, spawn)
                             THEN w = origin.values[inits[k].inst][inits[k].attr] /\ t = origin.rows[k]
                             ELSE t >= spawn
    OBVIOUS
  <1>3. v # Undefined
    BY <1>2
  <1>4. PICK t \in RowDisclosures(Valued(s, k, v), k, origin, spawn) :
          t # Undefined /\ r = Revealed(Valued(s, k, v), k, t)
    BY <1>2, <1>3
  <1>5. s.values[row.inst] \in Givens /\ origin.values[row.inst][row.attr] \in Numbers
    BY <1>1 DEF Partials, Origins, Givens
  <1>6. v \in Int /\ (KeptRow(origin, k, spawn) => v = origin.values[row.inst][row.attr])
    <2>1. CASE KeptRow(origin, k, spawn)
      BY <1>3, <1>5, <2>1 DEF RowValues, Numbers, row
    <2>2. CASE ~KeptRow(origin, k, spawn)
      <3>1. HasValue(View(s.values[row.inst]), row.init)
        BY <1>2, <1>3, <2>2 DEF RowValues, row
      <3>2. PICK d \in row.init.spread :
              v = IF row.attr = Timestamp(row.node)
                    THEN AtLeast(Value(View(s.values[row.inst]), row.init, d), spawn)
                    ELSE Value(View(s.values[row.inst]), row.init, d)
        BY <1>2, <2>2, <3>1 DEF RowValues, row
      <3>3. Value(View(s.values[row.inst]), row.init, d) \in Int
        BY <1>1, <1>5, <3>1, ViewTyped, ValueTyped
      <3> QED
        BY <2>2, <3>2, <3>3, AtLeastTyped
    <2> QED
      BY <2>1, <2>2
  <1>7. Valued(s, k, v).values[row.inst] \in Givens
    BY <1>1, <1>6 DEF Valued, Partials, Givens, Numbers, row
  <1>8. t \in Int /\ (IF KeptRow(origin, k, spawn) THEN t = origin.rows[k] ELSE t >= spawn)
    <2>1. CASE KeptRow(origin, k, spawn)
      BY <1>4, <2>1 DEF RowDisclosures, Origins
    <2>2. CASE ~KeptRow(origin, k, spawn)
      <3> DEFINE view == View(Valued(s, k, v).values[row.inst])
      <3>1. HasValue(view, row.disclosure)
        BY <1>4, <2>2 DEF RowDisclosures, row
      <3>2. PICK d \in Int : t = AtLeast(Value(view, row.disclosure, d), spawn)
        BY <1>1, <1>4, <2>2, <3>1 DEF RowDisclosures, row
      <3>3. Value(view, row.disclosure, d) \in Int
        BY <1>1, <1>7, <3>1, ViewTyped, ValueTyped
      <3> QED
        BY <2>2, <3>2, <3>3, AtLeastTyped
    <2> QED
      BY <2>1, <2>2
  <1> QED
    BY <1>4, <1>6, <1>8 DEF row

\* A row gives one attribute a value and discloses its node.
Reveals(r, s, k, v, t) ==
  /\ r \in Partials /\ r.fails = s.fails
  /\ Len(r.rows) = Len(s.rows) + 1 /\ r.rows[Len(s.rows) + 1] = t
  /\ \A j \in 1..Len(s.rows) : r.rows[j] = s.rows[j]
  /\ \A i \in Instances, a \in Attributes :
       r.values[i][a] = IF i = inits[k].inst /\ a = inits[k].attr THEN v ELSE s.values[i][a]
  /\ r.nodes = Disclosed(s.nodes, inits[k], t)

\* That is what a row sampled does.
LEMMA RevealedTyped ==
  ASSUME inits \in Seq(Initializations), NEW k \in 1..Len(inits), NEW s \in Partials,
         NEW v \in Int, NEW t \in Int
  PROVE  Reveals(Revealed(Valued(s, k, v), k, t), s, k, v, t)
  <1> DEFINE r == Revealed(Valued(s, k, v), k, t)
  <1> DEFINE i == inits[k].inst
             a == inits[k].attr
             new == [s.values EXCEPT ![i] = [s.values[i] EXCEPT ![a] = v]]
             shows == Disclosed(s.nodes, inits[k], t)
             rows == Append(s.rows, t)
  <1>1. i \in Instances /\ a \in Attributes /\ inits[k].node \in Nodes
    BY InitializationTyped
  <1>2. /\ s.values \in [Instances -> Givens] /\ s.rows \in Seq(Int) /\ s.fails \in BOOLEAN
        /\ s.nodes \in [Instances -> [Nodes -> Numbers]]
        /\ s = [values |-> s.values, rows |-> s.rows, fails |-> s.fails, nodes |-> s.nodes]
    BY DEF Partials
  <1>3. shows \in [Instances -> [Nodes -> Numbers]]
    BY <1>1, <1>2, DisclosedTyped DEF Discloses
  <1>4. /\ rows \in Seq(Int) /\ Len(rows) = Len(s.rows) + 1 /\ rows[Len(s.rows) + 1] = t
        /\ \A j \in 1..Len(s.rows) : rows[j] = s.rows[j]
    BY <1>2, AppendProperties
  <1>5. r.values = new /\ r.rows = rows /\ r.fails = s.fails /\ r.nodes = shows
        /\ r = [values |-> new, rows |-> rows, fails |-> s.fails, nodes |-> shows]
    <2> DEFINE w == Valued(s, k, v)
    <2>1. w = [s EXCEPT !.values = new]
      BY <1>2 DEF Valued
    <2> HIDE DEF i, a, shows, rows, new
    <2>2. w = [values |-> new, rows |-> s.rows, fails |-> s.fails, nodes |-> s.nodes]
      <3> HIDE DEF w
      <3> QED
        BY <1>2, <2>1
    <2>3. Revealed(w, k, t) = [w EXCEPT !.rows = rows, !.nodes = shows]
      <3>1. w.rows = s.rows /\ w.nodes = s.nodes
        BY <2>2
      <3> HIDE DEF w
      <3> QED
        BY <3>1 DEF Revealed, rows, shows
    <2> HIDE DEF w
    <2>4. Revealed(w, k, t) = [values |-> new, rows |-> rows, fails |-> s.fails, nodes |-> shows]
      BY <2>2, <2>3
    <2> QED
      BY <2>4 DEF w
  <1> HIDE DEF i, a, shows, rows, r
  <1>6. s.values[i] \in Givens /\ [s.values[i] EXCEPT ![a] = v] \in Givens
    BY <1>1, <1>2 DEF Givens, Numbers
  <1>7. new \in [Instances -> Givens]
    BY <1>2, <1>6
  <1>8. \A j \in Instances, b \in Attributes :
          new[j][b] = IF j = i /\ b = a THEN v ELSE s.values[j][b]
    BY <1>1, <1>2, <1>6 DEF Givens
  <1> HIDE DEF new
  <1>9. r \in Partials
    BY <1>2, <1>3, <1>4, <1>5, <1>7 DEF Partials
  <1> QED
    BY <1>4, <1>5, <1>8, <1>9 DEF i, a, shows, Reveals, r

\* What sampling the first rows has made of them: the rows kept have the disclosure
\* of the original, the others are not disclosed before the spawn time.
RowsSoFar(s, k, origin, spawn) ==
  /\ Len(s.rows) = k
  /\ \A j \in 1..k : IF KeptRow(origin, j, spawn) THEN s.rows[j] = origin.rows[j] ELSE s.rows[j] >= spawn

\* The last of them to give an attribute its value gives that of the original if it is kept.
SameCell(j, l) == inits[l].inst = inits[j].inst /\ inits[l].attr = inits[j].attr
KeptSoFar(s, k, origin, spawn) ==
  \A j \in 1..k :
    KeptRow(origin, j, spawn) /\ (\A l \in 1..k : j < l => ~SameCell(j, l)) =>
      s.values[inits[j].inst][inits[j].attr] = origin.values[inits[j].inst][inits[j].attr]

\* No value is lost, and every row has given one.
DefinedSoFar(s, k) ==
  /\ \A i \in Instances, a \in Attributes : values[i][a] \in Int => s.values[i][a] \in Int
  /\ \A j \in 1..k : s.values[inits[j].inst][inits[j].attr] \in Int

\* A node is disclosed with the last of its rows, a process with the last of its rows
\* exactly.
NodesSoFar(s, k) ==
  /\ \A j \in 1..k : /\ s.nodes[inits[j].inst][inits[j].node] \in Int
                     /\ s.nodes[inits[j].inst][inits[j].node] >= s.rows[j]
  /\ \A i \in InTable :
       /\ s.nodes[i][Process(i)] \in Int /\ s.nodes[i][Process(i)] >= 0
       /\ \/ s.nodes[i][Process(i)] = 0
          \/ \E j \in 1..k : /\ inits[j].inst = i /\ inits[j].node = Process(i)
                             /\ s.nodes[i][Process(i)] = s.rows[j]

\* An attribute without a row has the value it had.
UntouchedSoFar(s, k) ==
  \A i \in Instances, a \in Attributes :
    (\A j \in 1..k : inits[j].inst # i \/ inits[j].attr # a) => s.values[i][a] = values[i][a]

SampledSoFar(s, k, origin, spawn) ==
  /\ RowsSoFar(s, k, origin, spawn)
  /\ KeptSoFar(s, k, origin, spawn)
  /\ DefinedSoFar(s, k)
  /\ NodesSoFar(s, k)
  /\ UntouchedSoFar(s, k)

\* The first row of an instance.
LEMMA FirstTyped ==
  ASSUME TableTyped, NEW i \in InTable
  PROVE  \E k \in DOMAIN table : table[k].inst = i /\ i # "" /\ table[k].node = Process(i)
  <1>1. table \in Seq(Rows)
    BY TableAssumption DEF TableTyped
  <1>2. PICK k \in DOMAIN table : table[k].inst = i /\ i # ""
    BY DEF InTable
  <1>3. Len(table) \in Nat /\ DOMAIN table = 1..Len(table) /\ DOMAIN table \subseteq Nat
    BY <1>1, SequenceStarts
  <1> DEFINE S == {j \in DOMAIN table : table[j].inst = i}
  <1>4. S \in SUBSET Nat /\ k \in S
    BY <1>2, <1>3
  <1>5. PICK j \in S : \A l \in S : j <= l
    <2> HIDE DEF S
    <2> QED
      BY <1>4, Least
  <1>6. \A l \in 1..(j - 1) : table[l].inst # i
    BY <1>3, <1>5
  <1>7. FirstOf(i) \in DOMAIN table /\ table[FirstOf(i)].inst = i
    BY <1>5, <1>6 DEF FirstOf
  <1> QED
    BY <1>2, <1>7 DEF Process

\* The process of an instance in a table that is not refused.
LEMMA ProcessTyped ==
  ASSUME TableTyped, WellFormed, NEW i \in InTable
  PROVE  /\ i \in Instances /\ Process(i) \in Nodes /\ Kind[Process(i)] = "process"
         /\ Parent[Process(i)] = "" /\ Timestamp(Process(i)) \in Attributes
  <1>1. table \in Seq(Rows)
    BY TableAssumption DEF TableTyped
  <1>2. PICK k \in DOMAIN table : table[k].inst = i /\ i # "" /\ table[k].node = Process(i)
    BY FirstTyped
  <1>3. i \in Instances
    <2>1. table[k] \in Rows
      BY <1>1, <1>2, SequenceStarts
    <2> QED
      BY <1>2, <2>1 DEF Rows
  <1>4. Kind[Process(i)] = "process" /\ Process(i) \in Nodes
    BY <1>2 DEF WellFormed
  <1> QED
    BY <1>3, <1>4, TimestampOfProcess

\* Sampling the next row keeps what the rows before it have made of the scenario.
LEMMA RowKeeps ==
  ASSUME TableTyped, WellFormed, NEW origin \in Origins, NEW spawn \in Int,
         NEW k \in 1..Len(inits), NEW s \in Partials, SampledSoFar(s, k - 1, origin, spawn),
         NEW v \in Int, NEW t \in Int, NEW r, r = Revealed(Valued(s, k, v), k, t),
         IF KeptRow(origin, k, spawn)
           THEN v = origin.values[inits[k].inst][inits[k].attr] /\ t = origin.rows[k]
           ELSE t >= spawn
  PROVE  SampledSoFar(r, k, origin, spawn)
  <1> DEFINE p == inits[k].inst
             a == inits[k].attr
             n == inits[k].node
  <1>1. inits \in Seq(Initializations) /\ k \in Nat /\ k - 1 \in Nat /\ k - 1 + 1 = k
    BY InitializationTyped DEF TableTyped
  <1>2. /\ r \in Partials /\ Len(s.rows) = k - 1 /\ Len(r.rows) = k /\ r.rows[k] = t
        /\ \A j \in 1..(k - 1) : r.rows[j] = s.rows[j]
        /\ \A i \in Instances, b \in Attributes :
              r.values[i][b] = IF i = p /\ b = a THEN v ELSE s.values[i][b]
        /\ r.nodes = Disclosed(s.nodes, inits[k], t)
    <2>1. Len(s.rows) = k - 1
      BY DEF SampledSoFar, RowsSoFar
    <2>2. Reveals(r, s, k, v, t)
      BY <1>1, RevealedTyped
    <2>3. r.nodes = Disclosed(s.nodes, inits[k], t)
      BY <2>2 DEF Reveals
    <2> QED
      BY <1>1, <2>1, <2>2, <2>3 DEF Reveals
  <1>3. \A j \in 1..Len(inits) : /\ inits[j].inst \in Instances /\ inits[j].attr \in Attributes
                                  /\ inits[j].node \in Nodes
    BY <1>1, InitializationTyped
  <1>4. \A j \in 1..k : j \in 1..Len(inits) /\ (j = k \/ j \in 1..(k - 1))
    BY <1>1, InitializationTyped
  <1>5. RowsSoFar(r, k, origin, spawn)
    BY <1>2, <1>4 DEF SampledSoFar, RowsSoFar
  <1>6. KeptSoFar(r, k, origin, spawn)
    <2> SUFFICES ASSUME NEW j \in 1..k, KeptRow(origin, j, spawn),
                        \A l \in 1..k : j < l => ~SameCell(j, l)
                 PROVE  r.values[inits[j].inst][inits[j].attr] = origin.values[inits[j].inst][inits[j].attr]
      BY DEF KeptSoFar
    <2>1. CASE j = k
      BY <1>2, <1>3, <2>1
    <2>2. CASE j \in 1..(k - 1)
      <3>1. \A l \in 1..(k - 1) : j < l => ~SameCell(j, l)
        BY <1>1
      <3>2. s.values[inits[j].inst][inits[j].attr] = origin.values[inits[j].inst][inits[j].attr]
        BY <2>2, <3>1 DEF SampledSoFar, KeptSoFar
      <3>3. ~SameCell(j, k) /\ inits[j].inst \in Instances /\ inits[j].attr \in Attributes
        BY <1>1, <1>3, <1>4, <2>2
      <3> QED
        BY <1>2, <3>2, <3>3 DEF SameCell
    <2> QED
      BY <1>4, <2>1, <2>2
  <1>7. DefinedSoFar(r, k)
    <2>1. \A i \in Instances, b \in Attributes : s.values[i][b] \in Int => r.values[i][b] \in Int
      BY <1>2
    <2>2. \A i \in Instances, b \in Attributes : values[i][b] \in Int => r.values[i][b] \in Int
      BY <2>1 DEF SampledSoFar, DefinedSoFar
    <2>3. ASSUME NEW j \in 1..k PROVE r.values[inits[j].inst][inits[j].attr] \in Int
      <3>1. CASE j = k
        BY <1>2, <1>3, <3>1
      <3>2. CASE j \in 1..(k - 1)
        <4>1. s.values[inits[j].inst][inits[j].attr] \in Int
          BY <3>2 DEF SampledSoFar, DefinedSoFar
        <4>2. inits[j].inst \in Instances /\ inits[j].attr \in Attributes
          BY <1>3, <1>4
        <4> QED
          BY <2>1, <4>1, <4>2
      <3> QED
        BY <1>4, <3>1, <3>2
    <2> QED
      BY <2>2, <2>3 DEF DefinedSoFar
  <1>8. NodesSoFar(r, k)
    <2>1. p \in Instances /\ n \in Nodes
      BY <1>3
    <2>2. s.nodes \in [Instances -> [Nodes -> Numbers]] /\ r.nodes \in [Instances -> [Nodes -> Numbers]]
      BY <1>2 DEF Partials
    <2>3. /\ \A i \in Instances, m \in Nodes : i # p \/ m # n => r.nodes[i][m] = s.nodes[i][m]
          /\ r.nodes[p][n] \in Int /\ r.nodes[p][n] >= t
          /\ s.nodes[p][n] # Undefined => r.nodes[p][n] >= s.nodes[p][n]
          /\ Parent[n] = "" => r.nodes[p][n] \in {0, t, s.nodes[p][n]}
      <3>1. Discloses(Disclosed(s.nodes, inits[k], t), s.nodes, p, n, t)
        BY <2>1, <2>2, DisclosedTyped
      <3>2. Discloses(r.nodes, s.nodes, p, n, t)
        BY <1>2, <3>1
      <3> QED
        BY <3>2 DEF Discloses
    <2>4. Undefined \notin Int
      BY TableAssumption
    <2>5. ASSUME NEW j \in 1..k
          PROVE  /\ r.nodes[inits[j].inst][inits[j].node] \in Int
                 /\ r.nodes[inits[j].inst][inits[j].node] >= r.rows[j]
      <3>1. CASE j = k
        BY <1>2, <2>3, <3>1
      <3>2. CASE j \in 1..(k - 1)
        <4> DEFINE i == inits[j].inst
                   m == inits[j].node
        <4>1. i \in Instances /\ m \in Nodes /\ r.rows[j] = s.rows[j] /\ s.rows[j] \in Int
          <5>1. s.rows \in Seq(Int)
            BY DEF Partials
          <5>2. s.rows[j] \in Int
            BY <1>2, <3>2, <5>1, SequenceStarts
          <5> QED
            BY <1>2, <1>3, <1>4, <3>2, <5>2
        <4>2. s.nodes[i][m] \in Int /\ s.nodes[i][m] >= s.rows[j]
          BY <3>2 DEF SampledSoFar, NodesSoFar
        <4> HIDE DEF i, m
        <4>3. CASE i = p /\ m = n
          <5>1. s.nodes[p][n] \in Int /\ s.nodes[p][n] >= s.rows[j]
            BY <4>2, <4>3
          <5>2. r.nodes[p][n] >= s.nodes[p][n] /\ r.nodes[p][n] \in Int
            BY <2>3, <2>4, <5>1
          <5>3. r.nodes[p][n] >= r.rows[j]
            <6> HIDE DEF p, n
            <6> QED
              BY <4>1, <5>1, <5>2
          <5> QED
            BY <4>3, <5>2, <5>3 DEF i, m
        <4>4. CASE i # p \/ m # n
          BY <2>3, <4>1, <4>2, <4>4 DEF i, m
        <4> QED
          BY <4>3, <4>4
      <3> QED
        BY <1>4, <3>1, <3>2
    <2>6. ASSUME NEW i \in InTable
          PROVE  /\ r.nodes[i][Process(i)] \in Int /\ r.nodes[i][Process(i)] >= 0
                 /\ \/ r.nodes[i][Process(i)] = 0
                    \/ \E j \in 1..k : /\ inits[j].inst = i /\ inits[j].node = Process(i)
                                       /\ r.nodes[i][Process(i)] = r.rows[j]
      <3> DEFINE q == Process(i)
      <3>1. i \in Instances /\ q \in Nodes /\ Parent[q] = ""
        BY ProcessTyped
      <3>2. /\ s.nodes[i][q] \in Int /\ s.nodes[i][q] >= 0
            /\ \/ s.nodes[i][q] = 0
               \/ \E j \in 1..(k - 1) : /\ inits[j].inst = i /\ inits[j].node = q
                                        /\ s.nodes[i][q] = s.rows[j]
        BY DEF SampledSoFar, NodesSoFar
      <3> HIDE DEF q
      <3>3. s.nodes[i][q] = 0 \/ \E j \in 1..k : /\ inits[j].inst = i /\ inits[j].node = q
                                                  /\ s.nodes[i][q] = r.rows[j]
        BY <1>1, <1>2, <3>2
      <3>4. CASE i = p /\ q = n
        <4>1. r.nodes[i][q] \in {0, t, s.nodes[i][q]} /\ r.nodes[i][q] >= s.nodes[i][q] /\ r.nodes[i][q] \in Int
          BY <2>3, <2>4, <3>1, <3>2, <3>4
        <4>2. r.nodes[i][q] >= 0
          BY <3>2, <4>1
        <4>3. CASE r.nodes[i][q] = t
          <5>1. inits[k].inst = i /\ inits[k].node = q /\ r.nodes[i][q] = r.rows[k] /\ k \in 1..k
            BY <1>1, <1>2, <3>4, <4>3
          <5> QED
            BY <4>1, <4>2, <5>1 DEF q
        <4>4. CASE r.nodes[i][q] = s.nodes[i][q]
          BY <3>3, <4>1, <4>2, <4>4 DEF q
        <4>5. CASE r.nodes[i][q] = 0
          BY <4>1, <4>2, <4>5 DEF q
        <4> QED
          BY <4>1, <4>3, <4>4, <4>5
      <3>5. CASE i # p \/ q # n
        <4>1. r.nodes[i][q] = s.nodes[i][q]
          BY <2>3, <3>1, <3>5
        <4> QED
          BY <3>2, <3>3, <4>1 DEF q
      <3> QED
        BY <3>4, <3>5
    <2> QED
      BY <2>5, <2>6 DEF NodesSoFar
  <1>9. UntouchedSoFar(r, k)
    <2> SUFFICES ASSUME NEW i \in Instances, NEW b \in Attributes,
                        \A j \in 1..k : inits[j].inst # i \/ inits[j].attr # b
                 PROVE  r.values[i][b] = values[i][b]
      BY DEF UntouchedSoFar
    <2>1. k \in 1..k /\ \A j \in 1..(k - 1) : j \in 1..k
      BY <1>1
    <2>2. s.values[i][b] = values[i][b]
      BY <2>1 DEF SampledSoFar, UntouchedSoFar
    <2> QED
      BY <1>2, <2>1, <2>2
  <1> QED
    BY <1>5, <1>6, <1>7, <1>8, <1>9 DEF SampledSoFar

\* What comes of sampling a row is a scenario again.
LEMMA RowSamplesTyped ==
  ASSUME globals \in Givens, inits \in Seq(Initializations), NEW origin \in Origins, NEW spawn \in Int,
         NEW k \in 1..Len(inits), NEW s \in Partials
  PROVE  /\ RowSamples(s, k, origin, spawn) \subseteq Partials
         /\ s.fails => RowSamples(s, k, origin, spawn) = {s}
         /\ [s EXCEPT !.fails = TRUE] \in Partials /\ [s EXCEPT !.fails = TRUE].fails
  <1>1. [s EXCEPT !.fails = TRUE] \in Partials /\ [s EXCEPT !.fails = TRUE].fails
    BY DEF Partials
  <1>2. s.fails => RowSamples(s, k, origin, spawn) = {s}
    BY DEF RowSamples
  <1>3. ASSUME NEW r \in RowSamples(s, k, origin, spawn), ~s.fails PROVE r \in Partials
    <2>1. CASE r = [s EXCEPT !.fails = TRUE]
      BY <1>1, <2>1
    <2>2. ASSUME NEW v \in Int, NEW t \in Int, r = Revealed(Valued(s, k, v), k, t) PROVE r \in Partials
      BY <2>2, RevealedTyped DEF Reveals
    <2> QED
      BY <1>3, <2>1, <2>2, RowSampled
  <1> QED
    BY <1>1, <1>2, <1>3

\* Nothing has been sampled.
LEMMA UnsampledKeeps ==
  ASSUME TableTyped, WellFormed, NEW origin, NEW spawn
  PROVE  Unsampled \in Partials /\ ~Unsampled.fails /\ SampledSoFar(Unsampled, 0, origin, spawn)
  <1> DEFINE rows == <<>>
  <1>1. rows \in Seq(Int) /\ Len(rows) = 0
    OBVIOUS
  <1> HIDE DEF rows
  <1>2. /\ Unsampled.values = values /\ Unsampled.rows = rows /\ Unsampled.fails = FALSE
        /\ Unsampled.nodes = [i \in Instances |-> [n \in Nodes |->
                                IF i \in InTable /\ n = Process(i) THEN 0 ELSE Undefined]]
    BY DEF Unsampled, rows
  <1>3. Unsampled \in Partials
    BY <1>1 DEF Unsampled, Partials, TableTyped, Numbers, rows
  <1>4. RowsSoFar(Unsampled, 0, origin, spawn) /\ KeptSoFar(Unsampled, 0, origin, spawn)
    BY <1>1, <1>2 DEF RowsSoFar, KeptSoFar
  <1>5. DefinedSoFar(Unsampled, 0)
    BY <1>2 DEF DefinedSoFar
  <1>6. ASSUME NEW i \in InTable PROVE Unsampled.nodes[i][Process(i)] = 0
    BY <1>2, ProcessTyped
  <1>7. NodesSoFar(Unsampled, 0)
    BY <1>6 DEF NodesSoFar
  <1>8. UntouchedSoFar(Unsampled, 0)
    BY <1>2 DEF UntouchedSoFar
  <1> QED
    BY <1>2, <1>3, <1>4, <1>5, <1>7, <1>8 DEF SampledSoFar

\* A row reads what the rows before it give to its instance, or what has a global value.
EarlierGiven(k) == {inits[j].attr : j \in {l \in 1..(k - 1) : inits[l].inst = inits[k].inst}}
ReadsEarlier(k) ==
  LET before == (EarlierGiven(k) \ Global) \union {a \in Global : globals[a] # Undefined}
  IN /\ inits[k].init.reads \subseteq before
     /\ inits[k].disclosure.reads \subseteq (before \union ({inits[k].attr} \ Global))

\* A row that reads what the rows before it give is sampled without failing.
LEMMA RowSucceeds ==
  ASSUME TableTyped, WellFormed, NEW origin \in Origins, NEW spawn \in Int,
         NEW k \in 1..Len(inits), ReadsEarlier(k),
         NEW s \in Partials, ~s.fails, SampledSoFar(s, k - 1, origin, spawn),
         KeptRow(origin, k, spawn) => origin.values[inits[k].inst][inits[k].attr] \in Int,
         NEW r \in RowSamples(s, k, origin, spawn)
  PROVE  ~r.fails
  <1> DEFINE i == inits[k].inst
             a == inits[k].attr
  <1>1. inits \in Seq(Initializations) /\ globals \in Givens
    BY DEF TableTyped
  <1>2. /\ i \in Instances /\ a \in Attributes
        /\ inits[k].init.reads \in SUBSET Attributes /\ inits[k].init.spread \in SUBSET Int
        /\ inits[k].disclosure.reads \in SUBSET Attributes /\ inits[k].disclosure.spread \in SUBSET Int
    BY <1>1, InitializationTyped
  <1>3. Undefined \notin Int
    BY TableAssumption
  <1>4. ASSUME NEW g \in Givens,
               \A b \in Attributes : s.values[i][b] \in Int => g[b] \in Int
        PROVE  /\ HasValue(View(g), inits[k].init)
               /\ g[a] \in Int => HasValue(View(g), inits[k].disclosure)
    <2> DEFINE before == ({inits[j].attr : j \in {l \in 1..(k - 1) : inits[l].inst = i}} \ Global)
                         \union {b \in Global : globals[b] # Undefined}
    <2>1. \A b \in Attributes : b \in before => View(g)[b] # Undefined
      <3> SUFFICES ASSUME NEW b \in Attributes, b \in before PROVE View(g)[b] # Undefined
        OBVIOUS
      <3>1. CASE b \in Global
        BY <3>1 DEF View
      <3>2. CASE b \notin Global
        <4>1. PICK j \in 1..(k - 1) : inits[j].inst = i /\ inits[j].attr = b
          BY <3>2
        <4>2. s.values[i][b] \in Int
          BY <4>1 DEF SampledSoFar, DefinedSoFar
        <4> QED
          BY <1>3, <1>4, <3>2, <4>2 DEF View
      <3> QED
        BY <3>1, <3>2
    <2>2. g[a] \in Int /\ a \notin Global => View(g)[a] # Undefined
      BY <1>2, <1>3 DEF View
    <2>3. /\ inits[k].init.reads \subseteq before
          /\ inits[k].disclosure.reads \subseteq (before \union ({a} \ Global))
      BY DEF ReadsEarlier, EarlierGiven
    <2> HIDE DEF before
    <2>4. HasValue(View(g), inits[k].init)
      BY <1>2, <2>1, <2>3 DEF HasValue
    <2> QED
      BY <1>2, <2>1, <2>2, <2>3, <2>4 DEF HasValue
  <1>5. s.values \in [Instances -> Givens]
    BY DEF Partials
  <1>6. HasValue(View(s.values[i]), inits[k].init)
    BY <1>2, <1>4, <1>5
  <1> SUFFICES ASSUME r = [s EXCEPT !.fails = TRUE] PROVE FALSE
    <2>1. ASSUME NEW v \in Int, NEW t \in Int, r = Revealed(Valued(s, k, v), k, t) PROVE ~r.fails
      <3>1. Reveals(r, s, k, v, t)
        BY <1>1, <2>1, RevealedTyped
      <3> QED
        BY <3>1 DEF Reveals
    <2> QED
      BY <1>1, <2>1, RowSampled
  <1>7. r.fails
    BY DEF Partials
  <1>8. \A v \in RowValues(s, k, origin, spawn) : v \in Int
    <2>1. CASE KeptRow(origin, k, spawn)
      BY <2>1 DEF RowValues
    <2>2. CASE ~KeptRow(origin, k, spawn)
      <3>1. \A d \in inits[k].init.spread : Value(View(s.values[i]), inits[k].init, d) \in Int
        BY <1>1, <1>2, <1>5, <1>6, ViewTyped, ValueTyped
      <3>2. \A d \in inits[k].init.spread : AtLeast(Value(View(s.values[i]), inits[k].init, d), spawn) \in Int
        BY <3>1, AtLeastTyped
      <3> QED
        BY <1>6, <2>2, <3>1, <3>2 DEF RowValues
    <2> QED
      BY <2>1, <2>2
  <1>9. ASSUME NEW v \in Int, NEW t \in RowDisclosures(Valued(s, k, v), k, origin, spawn) PROVE t \in Int
    <2> DEFINE g == Valued(s, k, v).values[i]
    <2>1. /\ g \in Givens /\ g[a] \in Int
          /\ \A b \in Attributes : s.values[i][b] \in Int => g[b] \in Int
      <3> DEFINE new == [s.values EXCEPT ![i] = [s.values[i] EXCEPT ![a] = v]]
      <3>1. Valued(s, k, v) = [s EXCEPT !.values = new]
        BY <1>5 DEF Valued
      <3>2. Valued(s, k, v).values = new
        <4> HIDE DEF new
        <4> QED
          BY <3>1 DEF Partials
      <3>3. g = [s.values[i] EXCEPT ![a] = v]
        BY <1>2, <1>5, <3>2
      <3>4. s.values[i] \in Givens
        BY <1>2, <1>5
      <3> HIDE DEF g
      <3> QED
        BY <1>2, <3>3, <3>4 DEF Givens, Numbers
    <2> HIDE DEF g
    <2>2. HasValue(View(g), inits[k].disclosure)
      BY <1>4, <2>1
    <2>3. \A d \in Int : Value(View(g), inits[k].disclosure, d) \in Int
      BY <1>1, <1>2, <2>1, <2>2, ViewTyped, ValueTyped
    <2>4. \A d \in Int : AtLeast(Value(View(g), inits[k].disclosure, d), spawn) \in Int
      BY <2>3, AtLeastTyped
    <2>5. CASE KeptRow(origin, k, spawn)
      BY <1>9, <2>5 DEF RowDisclosures, Origins
    <2>6. CASE ~KeptRow(origin, k, spawn)
      BY <1>2, <1>9, <2>2, <2>4, <2>6 DEF RowDisclosures, g
    <2> QED
      BY <2>5, <2>6
  <1>10. PICK v \in RowValues(s, k, origin, spawn) :
          r \in IF v = Undefined THEN {[s EXCEPT !.fails = TRUE]}
                ELSE {IF t = Undefined THEN [s EXCEPT !.fails = TRUE] ELSE Revealed(Valued(s, k, v), k, t) :
                        t \in RowDisclosures(Valued(s, k, v), k, origin, spawn)}
    BY DEF RowSamples
  <1>11. PICK t \in RowDisclosures(Valued(s, k, v), k, origin, spawn) :
           r = IF t = Undefined THEN [s EXCEPT !.fails = TRUE] ELSE Revealed(Valued(s, k, v), k, t)
    BY <1>3, <1>8, <1>10
  <1>12. v \in Int /\ t \in Int
    BY <1>8, <1>9, <1>10, <1>11
  <1>13. r = Revealed(Valued(s, k, v), k, t)
    BY <1>3, <1>11, <1>12
  <1>14. Reveals(Revealed(Valued(s, k, v), k, t), s, k, v, t)
    BY <1>1, <1>12, RevealedTyped
  <1> QED
    BY <1>7, <1>13, <1>14 DEF Reveals

\* What sampling all rows makes of a scenario, and when it does not fail.
LEMMA SamplesKeep ==
  ASSUME TableTyped, WellFormed, NEW origin \in Origins, NEW spawn \in Int,
         NEW r \in Samples(origin, spawn)
  PROVE  /\ r \in Partials
         /\ ~r.fails => SampledSoFar(r, Len(inits), origin, spawn)
         /\ (\A k \in 1..Len(inits) :
               ReadsEarlier(k) /\ (KeptRow(origin, k, spawn) =>
                                     origin.values[inits[k].inst][inits[k].attr] \in Int)) => ~r.fails
  <1> DEFINE N == Len(inits)
             next_(f) == [k \in 0..N |-> IF k = 0 THEN {Unsampled}
                                         ELSE UNION {RowSamples(s, k, origin, spawn) : s \in f[k - 1]}]
             up == CHOOSE f : f = next_(f)
             Succeeds == \A k \in 1..N :
               ReadsEarlier(k) /\ (KeptRow(origin, k, spawn) =>
                                     origin.values[inits[k].inst][inits[k].attr] \in Int)
  <1>1. N \in Nat /\ inits \in Seq(Initializations) /\ globals \in Givens
    BY SequenceStarts DEF TableTyped
  <1>2. Unsampled \in Partials /\ ~Unsampled.fails /\ SampledSoFar(Unsampled, 0, origin, spawn)
    BY UnsampledKeeps
  <1>3. \A k \in 1..N : \A s \in Partials : RowSamples(s, k, origin, spawn) \subseteq Partials
    BY <1>1, RowSamplesTyped
  <1>4. \E f : f = next_(f)
    <2> DEFINE S == SUBSET Partials
               after(k) == [X \in S |-> UNION {RowSamples(s, k, origin, spawn) : s \in X}]
               step == [k \in 1..N |-> after(k)]
               base == {Unsampled}
    <2>1. \A k \in 1..N : after(k) \in [S -> S]
      BY <1>3
    <2>2. \A k \in 1..N : \A X \in S : after(k)[X] = UNION {RowSamples(s, k, origin, spawn) : s \in X}
      OBVIOUS
    <2>3. base \in S
      BY <1>2
    <2> HIDE DEF after, base, S
    <2>4. step \in Steps(N, S)
      BY <2>1 DEF Steps
    <2>5. \A k \in 1..N : step[k] = after(k)
      OBVIOUS
    <2> HIDE DEF step, N
    <2>6. Built(N, S, base, step) # {}
      BY <1>1, <2>3, <2>4, Iterated
    <2>7. PICK f \in [0..N -> S] : f[0] = base /\ \A k \in 1..N : f[k] = step[k][f[k - 1]]
      BY <2>6 DEF Built
    <2>8. ASSUME NEW k \in 0..N
          PROVE  f[k] = IF k = 0 THEN {Unsampled}
                        ELSE UNION {RowSamples(s, k, origin, spawn) : s \in f[k - 1]}
      <3>1. CASE k = 0
        BY <2>7, <3>1 DEF base
      <3>2. CASE k # 0
        <4>1. k \in 1..N /\ k - 1 \in 0..N
          BY <1>1, <3>2
        <4>2. f[k - 1] \in S
          BY <2>7, <4>1
        <4>3. f[k] = after(k)[f[k - 1]]
          BY <2>5, <2>7, <4>1
        <4> QED
          BY <2>2, <3>2, <4>1, <4>2, <4>3
      <3> QED
        BY <3>1, <3>2
    <2>9. f = next_(f)
      BY <2>7, <2>8
    <2> QED
      BY <2>9
  <1>5. up = next_(up)
    BY <1>4
  <1>6. Samples(origin, spawn) = up[N]
    BY DEF Samples
  <1> HIDE DEF up
  <1>7. up[0] = {Unsampled} /\ \A k \in 1..N : up[k] = UNION {RowSamples(s, k, origin, spawn) : s \in up[k - 1]}
    <2>1. \A k \in 0..N : up[k] = IF k = 0 THEN {Unsampled}
                                 ELSE UNION {RowSamples(s, k, origin, spawn) : s \in up[k - 1]}
      <3> DEFINE w == next_(up)
      <3>1. \A k \in 0..N : w[k] = IF k = 0 THEN {Unsampled}
                                   ELSE UNION {RowSamples(s, k, origin, spawn) : s \in up[k - 1]}
        OBVIOUS
      <3> HIDE DEF w
      <3>2. up = w
        BY <1>5 DEF w
      <3> QED
        BY <3>1, <3>2
    <2>2. 0 \in 0..N /\ \A k \in 1..N : k \in 0..N /\ k # 0
      BY <1>1
    <2> HIDE DEF N
    <2> QED
      BY <2>1, <2>2
  <1> HIDE DEF next_
  <1> DEFINE Good(s, k) == /\ s \in Partials
                           /\ s.fails \/ SampledSoFar(s, k, origin, spawn)
                           /\ Succeeds => ~s.fails
             P == {k \in 0..N : \A s \in up[k] : Good(s, k)}
  <1>8. 0 \in P
    BY <1>1, <1>2, <1>7
  <1>9. ASSUME NEW k \in 1..N, k - 1 \in P PROVE k \in P
    <2>1. k \in 0..N
      BY <1>1
    <2>2. ASSUME NEW w \in up[k] PROVE Good(w, k)
      <3>1. PICK s \in up[k - 1] : w \in RowSamples(s, k, origin, spawn)
        BY <1>7
      <3>2. s \in Partials /\ (s.fails \/ SampledSoFar(s, k - 1, origin, spawn)) /\ (Succeeds => ~s.fails)
        BY <1>9, <3>1
      <3>3. w \in Partials
        BY <1>3, <3>1, <3>2
      <3>4. CASE s.fails
        <4>1. w = s
          <5>1. RowSamples(s, k, origin, spawn) = {s}
            BY <3>4 DEF RowSamples
          <5> QED
            BY <3>1, <5>1
        <4> HIDE DEF Succeeds
        <4> QED
          BY <3>2, <3>4, <4>1
      <3>5. CASE ~s.fails
        <4>1. w.fails \/ SampledSoFar(w, k, origin, spawn)
          <5>1. CASE w = [s EXCEPT !.fails = TRUE]
            BY <1>1, <3>2, <5>1, RowSamplesTyped
          <5>2. ASSUME NEW v \in Int, NEW t \in Int, w = Revealed(Valued(s, k, v), k, t),
                       IF KeptRow(origin, k, spawn)
                         THEN v = origin.values[inits[k].inst][inits[k].attr] /\ t = origin.rows[k]
                         ELSE t >= spawn
                PROVE  SampledSoFar(w, k, origin, spawn)
            BY <3>2, <3>5, <5>2, RowKeeps
          <5> QED
            BY <1>1, <3>1, <3>2, <3>5, <5>1, <5>2, RowSampled
        <4>2. Succeeds => ~w.fails
          <5> HAVE Succeeds
          <5>1. ReadsEarlier(k) /\ (KeptRow(origin, k, spawn) =>
                                      origin.values[inits[k].inst][inits[k].attr] \in Int)
            OBVIOUS
          <5> HIDE DEF Succeeds
          <5> QED
            BY <3>1, <3>2, <3>5, <5>1, RowSucceeds
        <4> QED
          BY <3>3, <4>1, <4>2
      <3> QED
        BY <3>4, <3>5
    <2> QED
      BY <2>1, <2>2
  <1> HIDE DEF P, Good
  <1>10. 0..N \subseteq P
    BY <1>1, <1>8, <1>9, UpToAll
  <1>11. Good(r, N)
    <2>1. N \in P
      BY <1>1, <1>10
    <2> HIDE DEF N
    <2> QED
      BY <1>6, <2>1 DEF P
  <1> QED
    BY <1>11 DEF Good

-----------------------------------------------------------------------------
\* The form of a table and the processes of its instances are those of its rows.
LEMMA SameTable ==
  ASSUME UNCHANGED <<provider, table>>
  PROVE  WellFormed' = WellFormed /\ InTable' = InTable /\ \A i : Process(i)' = Process(i)
  BY DEF WellFormed, InTable, Process, FirstOf, Empty

\* The row read next.
LEMMA NextRow ==
  ASSUME TableTyped, next <= Len(table)
  PROVE  LET row == table[next] IN
         /\ next \in DOMAIN table /\ row \in Rows
         /\ row.attr # "" => row.attr \in Attributes
         /\ row.attr # "" => row.init.spread # {}
         /\ row.init.reads \in SUBSET Attributes /\ row.init.spread \in SUBSET Int /\ IsFiniteSet(row.init.spread)
         /\ row.disclosure.reads \in SUBSET Attributes /\ row.disclosure.spread \in SUBSET Int
         /\ IsFiniteSet(row.disclosure.spread)
         /\ row.inst # "" => row.inst \in Instances
         /\ WellFormed /\ row.inst # "" => row.node \in Nodes
  <1> DEFINE row == table[next]
  <1>1. table \in Tables /\ table \in Seq(Rows) /\ next \in Nat \ {0}
    BY TableAssumption DEF TableTyped
  <1>2. next \in DOMAIN table /\ row \in Rows
    BY <1>1, SequenceStarts
  <1>3. /\ row.attr # "" => row.init.spread # {}
        /\ IsFiniteSet(row.init.spread) /\ IsFiniteSet(row.disclosure.spread)
    BY <1>1, <1>2, TableAssumption
  <1>4. WellFormed /\ row.inst # "" => row.node \in Nodes
    BY <1>2 DEF WellFormed
  <1>5. /\ row.attr \in Attributes \union {""} /\ row.inst \in Instances \union {""}
        /\ row.init.reads \in SUBSET Attributes /\ row.init.spread \in SUBSET Int
        /\ row.disclosure.reads \in SUBSET Attributes /\ row.disclosure.spread \in SUBSET Int
    BY <1>2 DEF Rows, Expressions
  <1> QED
    BY <1>2, <1>3, <1>4, <1>5

\* What a row legally reads has a value when the row is evaluated.
LEMMA ReadsDefined ==
  ASSUME TableTyped, provider # "stochastic", NEW row, row.inst \in Instances, row.attr \in Attributes,
         row.init.reads \in SUBSET Attributes, row.disclosure.reads \in SUBSET Attributes,
         ReadsGiven(row), NEW v \in Int
  PROVE  /\ HasValue(View(values[row.inst]), row.init)
         /\ provider = "dynamic" => HasValue(View([values[row.inst] EXCEPT ![row.attr] = v]), row.disclosure)
  <1> DEFINE given_ == values[row.inst]
             later == [given_ EXCEPT ![row.attr] = v]
             before == ({a \in Attributes : given_[a] # Undefined} \ Global)
                       \union {a \in Global : globals[a] # Undefined}
  <1>1. given_ \in Givens /\ Undefined \notin Int
    BY TableAssumption DEF TableTyped
  <1>2. GivenBefore(row.inst) = before
    BY DEF GivenBefore
  <1>3. \A a \in Attributes : a \in before => View(given_)[a] # Undefined
    BY DEF View
  <1>4. \A a \in Attributes : later[a] = IF a = row.attr THEN v ELSE given_[a]
    BY <1>1 DEF Givens
  <1> HIDE DEF later
  <1>5. \A a \in Attributes : a \in before => View(later)[a] # Undefined
    BY <1>1, <1>4 DEF View
  <1>6. row.attr \notin Global => View(later)[row.attr] # Undefined
    BY <1>1, <1>4 DEF View
  <1> HIDE DEF before, given_
  <1>7. /\ row.init.reads \subseteq before
        /\ provider = "dynamic" => row.disclosure.reads \subseteq (before \union ({row.attr} \ Global))
    BY <1>2 DEF ReadsGiven
  <1>8. HasValue(View(given_), row.init)
    BY <1>3, <1>7 DEF HasValue
  <1>9. provider = "dynamic" => HasValue(View(later), row.disclosure)
    BY <1>5, <1>6, <1>7 DEF HasValue
  <1> QED
    BY <1>8, <1>9 DEF later, given_

\* The global attributes given in the end have the values they had before.
LEMMA GlobalsTyped ==
  ASSUME TableTyped
  PROVE  GlobalsGiven \in Givens /\ \A a \in Attributes : globals[a] # Undefined => GlobalsGiven[a] # Undefined
  <1> DEFINE N == Len(Own[""])
             Assigns(k, g) == LET a == Own[""][k] IN
                              /\ a \in DOMAIN ModelGiven /\ HasValue(g, ModelGiven[a])
                              /\ ModelGiven[a].reads \subseteq {Own[""][j] : j \in 1..(k - 1)}
             assigned(k, g) ==
               LET a == Own[""][k] IN
               IF Assigns(k, g)
                 THEN [g EXCEPT ![a] = Value(g, ModelGiven[a], Mean(ModelGiven[a].spread))]
                 ELSE g
             next_(f) == [k \in 0..N |-> IF k = 0 THEN globals
                          ELSE LET a == Own[""][k] IN
                            IF Assigns(k, f[k - 1])
                              THEN [f[k - 1] EXCEPT ![a] = Value(f[k - 1], ModelGiven[a], Mean(ModelGiven[a].spread))]
                              ELSE f[k - 1]]
             up == CHOOSE f : f = next_(f)
             S == {g \in Givens : \A a \in Attributes : globals[a] # Undefined => g[a] # Undefined}
  <1>1. Own[""] \in Seq(Attributes) /\ N \in Nat /\ \A k \in 1..N : Own[""][k] \in Attributes
    BY ModelAssumption, SequenceStarts
  <1>0. N \in Nat
    BY <1>1
  <1>2. globals \in S /\ Undefined \notin Int
    BY TableAssumption DEF TableTyped
  <1>3. ASSUME NEW k \in 1..N, NEW g \in S PROVE assigned(k, g) \in S
    <2> DEFINE a == Own[""][k]
    <2>1. CASE Assigns(k, g)
      <3> DEFINE m == Value(g, ModelGiven[a], Mean(ModelGiven[a].spread))
      <3>1. ModelGiven[a] \in Expressions /\ ModelGiven[a].spread # {} /\ IsFiniteSet(ModelGiven[a].spread)
        BY <2>1, ModelAssumption
      <3>2. ModelGiven[a].reads \in SUBSET Attributes /\ ModelGiven[a].spread \in SUBSET Int
        BY <3>1 DEF Expressions
      <3>3. Mean(ModelGiven[a].spread) \in Int
        BY <3>1, <3>2, MeanTyped
      <3>4. m \in Int
        BY <2>1, <3>2, <3>3, ValueTyped
      <3> HIDE DEF m
      <3>5. [g EXCEPT ![a] = m] \in S
        BY <1>1, <1>2, <3>4 DEF Givens, Numbers
      <3> QED
        BY <2>1, <3>5 DEF m
    <2>2. CASE ~Assigns(k, g)
      BY <2>2
    <2> QED
      BY <2>1, <2>2
  <1>4. \A f : next_(f) = [k \in 0..N |-> IF k = 0 THEN globals ELSE assigned(k, f[k - 1])]
    OBVIOUS
  <1>5. GlobalsGiven = up[N]
    BY DEF GlobalsGiven
  <1> HIDE DEF S, next_, assigned, Assigns
  <1>6. \E f : f = next_(f)
    <2> DEFINE after(k) == [g \in S |-> assigned(k, g)]
               step == [k \in 1..N |-> after(k)]
    <2>1. \A k \in 1..N : after(k) \in [S -> S]
      BY <1>3
    <2>2. \A k \in 1..N : \A g \in S : after(k)[g] = assigned(k, g)
      OBVIOUS
    <2> HIDE DEF after
    <2>4. step \in Steps(N, S)
      BY <2>1 DEF Steps
    <2>5. \A k \in 1..N : step[k] = after(k)
      OBVIOUS
    <2> HIDE DEF step, N
    <2>6. Built(N, S, globals, step) # {}
      BY <1>1, <1>2, <2>4, Iterated
    <2>7. PICK f \in [0..N -> S] : f[0] = globals /\ \A k \in 1..N : f[k] = step[k][f[k - 1]]
      BY <2>6 DEF Built
    <2>8. ASSUME NEW k \in 0..N PROVE f[k] = IF k = 0 THEN globals ELSE assigned(k, f[k - 1])
      <3>1. CASE k = 0
        BY <2>7, <3>1
      <3>2. CASE k # 0
        <4>1. k \in 1..N /\ k - 1 \in 0..N
          BY <1>0, <3>2
        <4>2. f[k - 1] \in S
          BY <2>7, <4>1
        <4>3. f[k] = after(k)[f[k - 1]]
          BY <2>5, <2>7, <4>1
        <4> QED
          BY <2>2, <3>2, <4>1, <4>2, <4>3
      <3> QED
        BY <3>1, <3>2
    <2>9. f = next_(f)
      BY <1>4, <2>7, <2>8
    <2> QED
      BY <2>9
  <1>7. up = next_(up)
    BY <1>6
  <1> HIDE DEF up
  <1>8. \A k \in 0..N : up[k] = IF k = 0 THEN globals ELSE assigned(k, up[k - 1])
    <2> DEFINE w == next_(up)
    <2>1. \A k \in 0..N : w[k] = IF k = 0 THEN globals ELSE assigned(k, up[k - 1])
      BY <1>4
    <2> HIDE DEF w
    <2>2. up = w
      BY <1>7 DEF w
    <2> QED
      BY <2>1, <2>2
  <1> HIDE DEF N
  <1> DEFINE P == {k \in 0..N : up[k] \in S}
  <1>9. 0 \in P
    BY <1>0, <1>2, <1>8
  <1>10. \A k \in 1..N : k - 1 \in P => k \in P
    <2> TAKE k \in 1..N
    <2> HAVE k - 1 \in P
    <2>1. k \in 0..N /\ k # 0
      BY <1>0
    <2>2. up[k] = assigned(k, up[k - 1])
      BY <1>8, <2>1
    <2> QED
      BY <1>3, <2>1, <2>2
  <1> HIDE DEF P
  <1>11. N \in P
    BY <1>0, <1>9, <1>10, UpToAll
  <1> QED
    BY <1>5, <1>11 DEF P, S

-----------------------------------------------------------------------------
\* The rows of a table.
LEMMA RowNumbers ==
  ASSUME TableTyped
  PROVE  /\ table \in Seq(Rows) /\ Len(table) \in Nat /\ DOMAIN table = 1..Len(table)
         /\ DOMAIN table \subseteq Nat
  <1>1. table \in Seq(Rows)
    BY TableAssumption DEF TableTyped
  <1>2. Len(table) \in Nat /\ DOMAIN table = 1..Len(table)
    BY <1>1, SequenceStarts
  <1> QED
    BY <1>1, <1>2

\* What has been read of a table: every row accepted reads what the rows before it give
\* and initialises an attribute the model does not assign, a node with a row is disclosed,
\* and all instances have a timestamp in the end.
ShownRead ==
  provider = "dynamic" =>
    /\ \A k \in DOMAIN table :
         k < next /\ table[k].inst # "" => shown[table[k].inst][table[k].node] \in Int
    /\ \A k \in 1..Len(inits) : shown[inits[k].inst][inits[k].node] \in Int
RowsRead ==
  \A k \in 1..Len(inits) : /\ inits[k].attr \notin DOMAIN ModelGiven
                           /\ provider = "stochastic" => ReadsEarlier(k)
AllRead ==
  phase \in {"ready", "run", "failed"} =>
    /\ next > Len(table)
    /\ \A i \in InTable : values[i][Timestamp(Process(i))] \in Int

TableRead == TableTyped /\ ShownRead /\ RowsRead /\ AllRead

\* Nothing has been read at first.
LEMMA TableInitRead ==
  ASSUME TableInit
  PROVE  TableRead
  <1> DEFINE empty == <<>>
  <1>1. empty \in Seq(Initializations) /\ empty \in Seq(ReadyExpressions) /\ Len(empty) = 0
    OBVIOUS
  <1>2. [a \in Attributes |-> Undefined] \in Givens
    BY DEF Givens, Numbers
  <1> HIDE DEF empty
  <1>3. /\ provider \in Providers /\ table \in Tables /\ phase = "parse" /\ next = 1
        /\ globals = [a \in Attributes |-> Undefined]
        /\ values = [i \in Instances |-> [a \in Attributes |-> Undefined]]
        /\ shown = [i \in Instances |-> [n \in Nodes |-> Undefined]]
        /\ inits = empty /\ readies = [i \in Instances |-> [n \in Nodes |-> empty]]
    BY DEF TableInit, empty
  <1>4. table \in Seq(Rows)
    BY <1>3, TableAssumption
  <1>5. TableTyped
    BY <1>1, <1>2, <1>3 DEF TableTyped, Numbers
  <1>6. ShownRead
    <2>1. DOMAIN table = 1..Len(table) /\ Len(table) \in Nat
      BY <1>4, SequenceStarts
    <2>2. \A k \in DOMAIN table : ~(k < next)
      BY <1>3, <2>1
    <2>3. Len(inits) = 0
      BY <1>1, <1>3
    <2>4. 1..Len(inits) = {}
      BY <2>3
    <2> QED
      BY <2>2, <2>4 DEF ShownRead
  <1>7. RowsRead /\ AllRead
    BY <1>1, <1>3 DEF RowsRead, AllRead
  <1> QED
    BY <1>5, <1>6, <1>7 DEF TableRead

\* Rows accepted still read what the rows before them give when more has been given.
LEMMA MoreRead ==
  ASSUME RowsRead, UNCHANGED <<provider, inits>>,
         \A a \in Attributes : globals[a] # Undefined => globals'[a] # Undefined,
         Global \subseteq Attributes
  PROVE  RowsRead'
  <1>1. ASSUME NEW k \in 1..Len(inits), ReadsEarlier(k) PROVE ReadsEarlier(k)'
    <2>1. {a \in Global : globals[a] # Undefined} \subseteq {a \in Global : globals'[a] # Undefined}
      OBVIOUS
    <2>2. EarlierGiven(k)' = EarlierGiven(k)
      BY DEF EarlierGiven
    <2> QED
      BY <1>1, <2>1, <2>2 DEF ReadsEarlier
  <1> QED
    BY <1>1 DEF RowsRead

\* The global attributes are some of the attributes.
LEMMA GlobalAttributes ==
  Global \subseteq Attributes /\ IsFiniteSet(Global)
  <1>1. "" \in DOMAIN Own /\ IsFiniteSet(Attributes)
    BY ModelAssumption
  <1>2. Global \subseteq Attributes
    BY <1>1 DEF Global, Attributes
  <1> QED
    BY <1>1, <1>2, FS_Subset

\* Where only the phase changes.
LEMMA PhaseRead ==
  ASSUME TableRead, UNCHANGED <<provider, table, next, globals, values, shown, inits, readies>>,
         \/ phase' = "refused"
         \/ phase = "parse" /\ phase' = "read" /\ WellFormed
         \/ phase' = phase
         \/ phase \in {"ready", "run"} /\ phase' \in {"run", "failed"}
  PROVE  TableRead'
  <1>1. WellFormed' = WellFormed /\ InTable' = InTable /\ \A i : Process(i)' = Process(i)
    BY SameTable
  <1>2. TableTyped'
    BY <1>1 DEF TableRead, TableTyped
  <1>3. ShownRead'
    BY DEF TableRead, ShownRead
  <1>5. RowsRead'
    BY MoreRead, GlobalAttributes DEF TableRead
  <1>4. AllRead'
    BY <1>1 DEF TableRead, AllRead
  <1> QED
    BY <1>2, <1>3, <1>4, <1>5 DEF TableRead

\* Reading a row giving a value to a global attribute, or an empty one.
LEMMA GlobalRead ==
  ASSUME TableRead, phase = "read", next <= Len(table), LET row == table[next] IN Legal(row) /\ ReadGlobal(row),
         next' = next + 1, UNCHANGED <<provider, table, phase>>
  PROVE  TableRead'
  <1> DEFINE row == table[next]
  <1>1. row.inst = "" /\ UNCHANGED <<values, shown, inits, readies>>
    BY DEF ReadGlobal
  <1>2. TableTyped /\ WellFormed /\ next \in Nat \ {0} /\ globals \in Givens /\ provider \in Providers
    BY DEF TableRead, TableTyped
  <1>7. globals' \in Givens /\ \A a \in Attributes : globals[a] # Undefined => globals'[a] # Undefined
    <2>1. CASE row.attr = ""
      <3>1. globals' = globals
        BY <2>1 DEF ReadGlobal
      <3> QED
        BY <1>2, <3>1
    <2>2. CASE row.attr # ""
      <3>1. row.attr \in Global /\ HasValue(globals, row.init)
        BY <1>1, <2>2 DEF Legal
      <3>2. /\ row.attr \in Attributes /\ row.init.spread # {}
            /\ row.init.reads \in SUBSET Attributes /\ row.init.spread \in SUBSET Int
            /\ IsFiniteSet(row.init.spread)
        BY <1>2, <2>2, NextRow
      <3>3. \A drawn \in Outcomes(row.init) : drawn \in Int
        BY <3>2, MeanTyped DEF Outcomes
      <3>4. PICK v \in Int : globals' = [globals EXCEPT ![row.attr] = v]
        <4>1. PICK drawn \in Outcomes(row.init) :
                globals' = [globals EXCEPT ![row.attr] = Value(globals, row.init, drawn)]
          BY <2>2 DEF ReadGlobal
        <4>2. Value(globals, row.init, drawn) \in Int
          BY <1>2, <3>1, <3>2, <3>3, <4>1, ValueTyped
        <4> QED
          BY <4>1, <4>2
      <3> QED
        BY <1>2, <3>4, TableAssumption DEF Givens, Numbers
    <2> QED
      BY <2>1, <2>2
  <1>8. WellFormed' = WellFormed
    BY SameTable
  <1>9. TableTyped'
    <2>1. next' \in Nat \ {0}
      BY <1>2
    <2> QED
      BY <1>1, <1>2, <1>7, <1>8, <2>1 DEF TableTyped
  <1>10. ShownRead'
    <2>1. DOMAIN table \subseteq Nat
      BY <1>2, RowNumbers
    <2> HIDE DEF row
    <2>2. \A k \in DOMAIN table : k < next' => k < next \/ k = next
      BY <1>2, <2>1
    <2> QED
      BY <1>1, <2>2 DEF TableRead, ShownRead, row
  <1>11. RowsRead'
    BY <1>1, <1>7, MoreRead, GlobalAttributes DEF TableRead
  <1>12. AllRead'
    BY <1>1 DEF TableRead, AllRead
  <1> QED
    BY <1>9, <1>10, <1>11, <1>12 DEF TableRead

\* Where a row of an instance is evaluated.
LEMMA EvaluateRead ==
  ASSUME TableRead, phase = "read", next <= Len(table), LET row == table[next] IN Legal(row) /\ Evaluate(row),
         next' = next + 1, UNCHANGED <<provider, table, phase>>
  PROVE  TableRead'
  <1> DEFINE row == table[next]
             i == row.inst
  <1>1. row.inst # "" /\ provider # "stochastic" /\ UNCHANGED <<globals, readies, ends>>
    BY DEF Evaluate
  <1>2. /\ TableTyped /\ WellFormed /\ next \in Nat \ {0} /\ globals \in Givens /\ provider \in Providers
        /\ values \in [Instances -> Givens] /\ shown \in [Instances -> [Nodes -> Numbers]]
        /\ inits \in Seq(Initializations)
    BY DEF TableRead, TableTyped
  <1>3. LegalInitialization(row) /\ LegalDisclosure(row)
    BY <1>1 DEF Legal
  <1>4. /\ row \in Rows /\ i \in Instances /\ row.node \in Nodes /\ next \in DOMAIN table
        /\ row.attr # "" => row.attr \in Attributes /\ row.init.spread # {}
        /\ row.init.reads \in SUBSET Attributes /\ row.init.spread \in SUBSET Int /\ IsFiniteSet(row.init.spread)
        /\ row.disclosure.reads \in SUBSET Attributes /\ row.disclosure.spread \in SUBSET Int
        /\ IsFiniteSet(row.disclosure.spread)
    BY <1>1, <1>2, NextRow
  <1>0. Evaluate(row)
    OBVIOUS
  <1> HIDE DEF row
  <1>5. PICK v \in Int :
          values' = IF row.attr = "" THEN values
                    ELSE [values EXCEPT ![i] = [values[i] EXCEPT ![row.attr] = v]]
    <2>1. CASE row.attr = ""
      <3>1. values' = values
        BY <1>0, <2>1 DEF Evaluate
      <3>2. 0 \in Int
        OBVIOUS
      <3> QED
        BY <2>1, <3>1, <3>2
    <2>2. CASE row.attr # ""
      <3>1. PICK drawn \in Outcomes(row.init), view \in Views(values[i], row.init) :
              values' = [values EXCEPT ![i][row.attr] = Value(view, row.init, drawn)]
        BY <2>2 DEF Evaluate, row
      <3>2. drawn \in Int
        BY <1>4, <2>2, <3>1, MeanTyped DEF Outcomes
      <3>3. HasValue(View(values[i]), row.init)
        BY <1>1, <1>2, <1>3, <1>4, <2>2, ReadsDefined DEF LegalInitialization
      <3>4. view \in Givens /\ HasValue(view, row.init)
        BY <1>2, <1>4, <3>1, <3>3, ViewsTyped
      <3> DEFINE v == Value(view, row.init, drawn)
      <3>5. v \in Int
        BY <1>4, <3>2, <3>4, ValueTyped
      <3> HIDE DEF v
      <3>6. values' = [values EXCEPT ![i] = [values[i] EXCEPT ![row.attr] = v]]
        BY <3>1 DEF v
      <3> QED
        BY <2>2, <3>5, <3>6
    <2> QED
      BY <2>1, <2>2
  <1>6. /\ values' \in [Instances -> Givens]
        /\ \A j \in Instances, a \in Attributes : values[j][a] \in Int => values'[j][a] \in Int
    <2>1. CASE row.attr = ""
      BY <1>2, <1>5, <2>1
    <2>2. CASE row.attr # ""
      <3> DEFINE later == [values[i] EXCEPT ![row.attr] = v]
      <3>1. later \in Givens /\ \A a \in Attributes : values[i][a] \in Int => later[a] \in Int
        BY <1>2, <1>4, <2>2 DEF Givens, Numbers
      <3>2. values' = [values EXCEPT ![i] = later]
        BY <1>5, <2>2
      <3> HIDE DEF later
      <3> QED
        BY <1>2, <1>4, <3>1, <3>2
    <2> QED
      BY <2>1, <2>2
  <1>7. /\ inits' \in Seq(Initializations)
        /\ \A k \in 1..Len(inits') : inits'[k].attr \notin DOMAIN ModelGiven
    <2>1. CASE row.attr = ""
      <3>1. inits' = inits
        BY <2>1 DEF Evaluate, row
      <3> QED
        BY <1>2, <3>1 DEF TableRead, RowsRead
    <2>2. CASE row.attr # ""
      <3>1. inits' = Append(inits, row)
        BY <2>2 DEF Evaluate, row
      <3>2. row \in Initializations
        BY <1>4, <2>2 DEF Initializations
      <3>3. row.attr \notin DOMAIN ModelGiven
        BY <1>3, <2>2 DEF LegalInitialization, NamesAttribute
      <3>4. /\ inits' \in Seq(Initializations) /\ Len(inits) \in Nat /\ Len(inits') = Len(inits) + 1
            /\ inits'[Len(inits) + 1] = row /\ \A k \in 1..Len(inits) : inits'[k] = inits[k]
        BY <1>2, <3>1, <3>2, AppendProperties, SequenceStarts
      <3>5. \A k \in 1..Len(inits') : k \in 1..Len(inits) \/ k = Len(inits) + 1
        BY <3>4
      <3> QED
        BY <3>3, <3>4, <3>5 DEF TableRead, RowsRead
    <2> QED
      BY <2>1, <2>2
  <1>8. /\ shown' \in [Instances -> [Nodes -> Numbers]]
        /\ provider = "dynamic" =>
             /\ shown'[i][row.node] \in Int
             /\ \A j \in Instances, n \in Nodes : shown[j][n] \in Int => shown'[j][n] \in Int
    <2>1. CASE provider # "dynamic"
      <3>1. shown' = shown
        BY <2>1 DEF Evaluate, row
      <3> QED
        BY <1>2, <2>1, <3>1
    <2>2. CASE provider = "dynamic"
      <3>1. PICK t \in Int : shown' = Disclosed(shown, row, t)
        <4>1. CASE Empty(row.disclosure)
          <5>1. shown' = Disclosed(shown, row, 0)
            BY <2>2, <4>1 DEF Evaluate, row
          <5> QED
            BY <5>1
        <4>2. CASE ~Empty(row.disclosure)
          <5>1. row.attr # ""
            BY <1>3, <2>2, <4>2 DEF LegalDisclosure
          <5>2. PICK view \in Views(values'[i], row.disclosure) :
                  shown' = Disclosed(shown, row, Value(view, row.disclosure, Mean(row.disclosure.spread)))
            BY <2>2, <4>2 DEF Evaluate, row
          <5>3. Mean(row.disclosure.spread) \in Int
            BY <1>4, <4>2, MeanTyped DEF Empty
          <5>4. values'[i] = [values[i] EXCEPT ![row.attr] = v]
            BY <1>2, <1>4, <1>5, <5>1
          <5>5. HasValue(View([values[i] EXCEPT ![row.attr] = v]), row.disclosure)
            BY <1>1, <1>2, <1>3, <1>4, <2>2, <5>1, ReadsDefined DEF LegalInitialization
          <5>6. HasValue(View(values'[i]), row.disclosure) /\ values'[i] \in Givens
            BY <1>4, <1>6, <5>4, <5>5
          <5>7. view \in Givens /\ HasValue(view, row.disclosure)
            BY <1>2, <1>4, <5>2, <5>6, ViewsTyped
          <5>8. Value(view, row.disclosure, Mean(row.disclosure.spread)) \in Int
            BY <1>4, <5>3, <5>7, ValueTyped
          <5> QED
            BY <5>2, <5>8
        <4> QED
          BY <4>1, <4>2
      <3>3. Discloses(Disclosed(shown, row, t), shown, i, row.node, t)
        BY <1>2, <1>4, <3>1, DisclosedTyped
      <3>4. Discloses(shown', shown, i, row.node, t)
        BY <3>1, <3>3
      <3>5. \A j \in Instances, n \in Nodes : shown[j][n] \in Int => shown'[j][n] \in Int
        <4>1. \A j \in Instances, n \in Nodes : j # i \/ n # row.node => shown'[j][n] = shown[j][n]
          BY <3>4 DEF Discloses
        <4>2. shown'[i][row.node] \in Int
          BY <3>4 DEF Discloses
        <4> QED
          BY <4>1, <4>2
      <3> QED
        BY <3>4, <3>5 DEF Discloses
    <2> QED
      BY <2>1, <2>2
  <1>9. WellFormed' = WellFormed
    BY SameTable
  <1>10. TableTyped'
    <2>1. next' \in Nat \ {0}
      BY <1>2
    <2> QED
      BY <1>1, <1>2, <1>6, <1>7, <1>8, <1>9, <2>1 DEF TableTyped
  <1>11. ShownRead'
    <2>1. \A m \in Nat : m < next' => m = next \/ m < next
      BY <1>2
    <2>2. ASSUME provider = "dynamic", NEW k \in 1..Len(inits')
          PROVE  shown'[inits'[k].inst][inits'[k].node] \in Int
      <3>1. CASE row.attr = ""
        <4>1. inits' = inits
          BY <1>0, <3>1 DEF Evaluate
        <4>2. inits[k].inst \in Instances /\ inits[k].node \in Nodes
          BY <1>2, <4>1, InitializationTyped
        <4> QED
          BY <1>8, <2>2, <4>1, <4>2 DEF TableRead, ShownRead
      <3>2. CASE row.attr # ""
        <4>1. inits' = Append(inits, row)
          BY <1>0, <3>2 DEF Evaluate
        <4>2. row \in Initializations
          BY <1>4, <3>2 DEF Initializations
        <4>3. /\ Len(inits) \in Nat /\ Len(inits') = Len(inits) + 1
              /\ inits'[Len(inits) + 1] = row /\ \A l \in 1..Len(inits) : inits'[l] = inits[l]
          BY <1>2, <4>1, <4>2, AppendProperties, SequenceStarts
        <4>4. CASE k = Len(inits) + 1
          BY <1>8, <2>2, <4>3, <4>4
        <4>5. CASE k \in 1..Len(inits)
          <5>1. inits[k].inst \in Instances /\ inits[k].node \in Nodes
            BY <1>2, <4>5, InitializationTyped
          <5> QED
            BY <1>8, <2>2, <4>3, <4>5, <5>1 DEF TableRead, ShownRead
        <4> QED
          BY <4>3, <4>4, <4>5
      <3> QED
        BY <3>1, <3>2
    <2>3. ASSUME provider = "dynamic", NEW k \in DOMAIN table, k < next', table[k].inst # ""
          PROVE  shown'[table[k].inst][table[k].node] \in Int
      <3>1. k = next \/ k < next
        <4>1. k \in Nat
          BY <1>2, RowNumbers
        <4> QED
          BY <2>1, <2>3, <4>1
      <3>2. CASE k = next
        BY <1>8, <2>3, <3>2 DEF row
      <3>3. CASE k < next
        <4>1. shown[table[k].inst][table[k].node] \in Int
          BY <2>3, <3>3 DEF TableRead, ShownRead
        <4>2. table[k] \in Rows /\ table[k].inst \in Instances /\ table[k].node \in Nodes
          <5>1. table[k] \in Rows
            <6>1. table \in Seq(Rows)
              BY <1>2, RowNumbers
            <6> QED
              BY <6>1, SequenceStarts
          <5> QED
            BY <1>2, <2>3, <5>1 DEF Rows, WellFormed
        <4> QED
          BY <1>8, <2>3, <4>1, <4>2
      <3> QED
        BY <3>1, <3>2, <3>3
    <2> QED
      BY <2>2, <2>3 DEF ShownRead
  <1>12. RowsRead'
    BY <1>1, <1>7 DEF RowsRead
  <1>13. AllRead'
    BY <1>1 DEF TableRead, AllRead
  <1> QED
    BY <1>10, <1>11, <1>12, <1>13 DEF TableRead

\* Where a row of an instance is kept.
LEMMA KeepRead ==
  ASSUME TableRead, phase = "read", next <= Len(table), LET row == table[next] IN Legal(row) /\ Keep(row),
         next' = next + 1, UNCHANGED <<provider, table, phase>>
  PROVE  TableRead'
  <1> DEFINE row == table[next]
             i == row.inst
             n == row.node
  <1>1. row.inst # "" /\ provider = "stochastic" /\ UNCHANGED <<globals, values, shown>>
    BY DEF Keep
  <1>2. /\ TableTyped /\ WellFormed /\ next \in Nat \ {0} /\ globals \in Givens /\ provider \in Providers
        /\ inits \in Seq(Initializations) /\ readies \in [Instances -> [Nodes -> Seq(ReadyExpressions)]]
    BY DEF TableRead, TableTyped
  <1>3. LegalInitialization(row) /\ LegalReady(row)
    BY <1>1 DEF Legal
  <1>4. /\ row \in Rows /\ i \in Instances /\ n \in Nodes
        /\ row.attr # "" => row.attr \in Attributes
    BY <1>1, <1>2, NextRow
  <1>5. row.ready \in ReadyExpressions
    BY <1>4 DEF Rows, ReadyExpressions
  <1> HIDE DEF row
  <1>6. inits' \in Seq(Initializations) /\ RowsRead'
    <2>1. CASE row.attr = ""
      <3>1. inits' = inits
        BY <2>1 DEF Keep, row
      <3> QED
        BY <1>1, <1>2, <3>1, MoreRead, GlobalAttributes DEF TableRead
    <2>2. CASE row.attr # ""
      <3>1. inits' = Append(inits, row)
        BY <2>2 DEF Keep, row
      <3>2. row \in Initializations
        BY <1>4, <2>2 DEF Initializations
      <3>3. row.attr \notin DOMAIN ModelGiven /\ ReadsGiven(row)
        BY <1>3, <2>2 DEF LegalInitialization, NamesAttribute
      <3>4. PICK N \in Nat : N = Len(inits)
        BY <1>2, SequenceStarts
      <3>5. /\ inits' \in Seq(Initializations) /\ Len(inits') = N + 1
            /\ inits'[N + 1] = row /\ \A k \in 1..N : inits'[k] = inits[k]
            /\ DOMAIN inits = 1..N
        BY <1>2, <3>1, <3>2, <3>4, AppendProperties, SequenceStarts
      <3>6. \A k \in 1..N : inits[k].attr \notin DOMAIN ModelGiven /\ ReadsEarlier(k)
        BY <1>1, <3>4 DEF TableRead, RowsRead
      <3>7. ASSUME NEW k \in 1..N PROVE ReadsEarlier(k)'
        <4>1. inits'[k] = inits[k] /\ \A l \in 1..(k - 1) : inits'[l] = inits[l]
          BY <3>5
        <4>2. EarlierGiven(k)' = EarlierGiven(k)
          BY <4>1 DEF EarlierGiven
        <4> QED
          BY <1>1, <3>6, <4>1, <4>2 DEF ReadsEarlier
      <3>8. ReadsEarlier(N + 1)'
        <4> DEFINE given_ == {inits[j].attr : j \in {l \in 1..N : inits[l].inst = i}}
                   before == (given_ \ Global) \union {a \in Global : globals[a] # Undefined}
        <4>1. GivenBefore(i) = before
          BY <1>1, <3>5 DEF GivenBefore
        <4>2. row.init.reads \subseteq before /\ row.disclosure.reads \subseteq (before \union ({row.attr} \ Global))
          BY <1>1, <3>3, <4>1 DEF ReadsGiven
        <4>3. EarlierGiven(N + 1)' = given_
          <5>1. (N + 1) - 1 = N /\ inits'[N + 1].inst = i
            BY <3>5
          <5>2. EarlierGiven(N + 1)' = {inits'[j].attr : j \in {l \in 1..N : inits'[l].inst = i}}
            BY <5>1 DEF EarlierGiven
          <5> HIDE DEF i
          <5> QED
            BY <3>5, <5>2
        <4> HIDE DEF given_
        <4> QED
          BY <1>1, <3>5, <4>2, <4>3 DEF ReadsEarlier
      <3>9. ASSUME NEW k \in 1..(N + 1) PROVE inits'[k].attr \notin DOMAIN ModelGiven /\ ReadsEarlier(k)'
        <4>1. CASE k \in 1..N
          BY <3>5, <3>6, <3>7, <4>1
        <4>2. CASE k = N + 1
          BY <3>3, <3>5, <3>8, <4>2
        <4> QED
          BY <4>1, <4>2
      <3> QED
        BY <3>5, <3>9 DEF RowsRead
    <2> QED
      BY <2>1, <2>2
  <1>7. readies' \in [Instances -> [Nodes -> Seq(ReadyExpressions)]]
    <2>1. CASE Empty(row.ready)
      <3>1. readies' = readies
        BY <2>1 DEF Keep, row
      <3> QED
        BY <1>2, <3>1
    <2>2. CASE ~Empty(row.ready)
      <3> DEFINE q == readies[i][n]
                 w == Append(q, row.ready)
                 new == [readies[i] EXCEPT ![n] = w]
      <3>1. readies' = [readies EXCEPT ![i] = new]
        BY <2>2 DEF Keep, row
      <3>2. q \in Seq(ReadyExpressions) /\ readies[i] \in [Nodes -> Seq(ReadyExpressions)]
        BY <1>2, <1>4
      <3> HIDE DEF q
      <3>3. /\ w \in Seq(ReadyExpressions) /\ Len(q) \in Nat /\ Len(w) = Len(q) + 1
            /\ w[Len(q) + 1] = row.ready /\ \A k \in 1..Len(q) : w[k] = q[k]
        BY <1>5, <3>2, AppendProperties, SequenceStarts
      <3> HIDE DEF w, i, n
      <3>4. new \in [Nodes -> Seq(ReadyExpressions)] /\ new[n] = w
            /\ \A m \in Nodes : m # n => new[m] = readies[i][m]
        BY <1>4, <3>2, <3>3 DEF i, n
      <3> HIDE DEF new
      <3>5. readies' \in [Instances -> [Nodes -> Seq(ReadyExpressions)]] /\ readies'[i][n] = w
            /\ \A j \in Instances, m \in Nodes : j # i \/ m # n => readies'[j][m] = readies[j][m]
        BY <1>2, <1>4, <3>1, <3>4
      <3> QED
        BY <3>5
    <2> QED
      BY <2>1, <2>2
  <1>8. WellFormed' = WellFormed
    BY SameTable
  <1>9. TableTyped'
    <2>1. next' \in Nat \ {0}
      BY <1>2
    <2> QED
      BY <1>1, <1>2, <1>6, <1>7, <1>8, <2>1 DEF TableTyped
  <1>10. ShownRead' /\ AllRead'
    BY <1>1 DEF ShownRead, TableRead, AllRead
  <1> QED
    BY <1>6, <1>7, <1>9, <1>10 DEF TableRead

\* Where the reading ends.
LEMMA FinishRead ==
  ASSUME TableRead, FinishReading
  PROVE  TableRead'
  <1>1. UNCHANGED <<provider, table, next, shown, inits, readies>> /\ phase' \in {"refused", "ready"}
        /\ globals' = GlobalsGiven /\ next > Len(table) /\ phase = "read"
    BY DEF FinishReading
  <1>2. /\ TableTyped /\ WellFormed /\ values \in [Instances -> Givens]
    BY <1>1 DEF TableRead, TableTyped
  <1>3. globals' \in Givens /\ \A a \in Attributes : globals[a] # Undefined => globals'[a] # Undefined
    BY <1>1, <1>2, GlobalsTyped
  <1>4. WellFormed' = WellFormed /\ InTable' = InTable /\ \A i : Process(i)' = Process(i)
    BY <1>1, SameTable
  <1>5. /\ values' \in [Instances -> Givens]
        /\ \A i \in InTable : values'[i][Timestamp(Process(i))] \in Int
    <2>1. values' = [i \in Instances |->
                  IF i \in InTable /\ values[i][Timestamp(Process(i))] = Undefined
                    THEN [values[i] EXCEPT ![Timestamp(Process(i))] = 0]
                    ELSE values[i]]
      BY DEF FinishReading
    <2>2. ASSUME NEW i \in Instances PROVE values'[i] \in Givens
      <3>0. 0 \in Numbers
        BY DEF Numbers
      <3>1. \A g \in Givens : \A a : [g EXCEPT ![a] = 0] \in Givens
        BY <3>0 DEF Givens
      <3>2. values[i] \in Givens
        BY <1>2
      <3> QED
        BY <2>1, <3>1, <3>2
    <2>3. ASSUME NEW i \in InTable PROVE values'[i][Timestamp(Process(i))] \in Int
      <3>1. i \in Instances /\ Timestamp(Process(i)) \in Attributes
        BY <1>2, ProcessTyped
      <3> DEFINE a == Timestamp(Process(i))
      <3> HIDE DEF a
      <3>2. values[i] \in Givens /\ values[i][a] \in Int \union {Undefined}
        BY <1>2, <3>1 DEF Givens, Numbers, a
      <3>3. values'[i] = IF values[i][a] = Undefined THEN [values[i] EXCEPT ![a] = 0] ELSE values[i]
        BY <2>1, <3>1 DEF a
      <3>4. values'[i][a] \in Int
        BY <3>1, <3>2, <3>3 DEF a, Givens
      <3> QED
        BY <3>4 DEF a
    <2> QED
      BY <2>1, <2>2, <2>3
  <1>6. TableTyped'
    BY <1>1, <1>2, <1>3, <1>4, <1>5 DEF TableTyped
  <1>7. ShownRead'
    BY <1>1 DEF TableRead, ShownRead
  <1>8. RowsRead'
    BY <1>1, <1>3, MoreRead, GlobalAttributes DEF TableRead
  <1>9. AllRead'
    BY <1>1, <1>4, <1>5 DEF AllRead
  <1> QED
    BY <1>6, <1>7, <1>8, <1>9 DEF TableRead

\* Reading changes nothing else.
LEMMA TableNextRead ==
  ASSUME TableRead, TableNext
  PROVE  TableRead'
  <1>1. CASE Parse
    <2>1. /\ UNCHANGED <<provider, table, next, globals, values, shown, inits, readies>>
          /\ phase' = "refused" \/ (phase = "parse" /\ phase' = "read" /\ WellFormed)
      BY <1>1 DEF Parse
    <2> QED
      BY <2>1, PhaseRead
  <1>2. CASE ReadRow
    <2>1. /\ phase = "read" /\ next <= Len(table) /\ next' = next + 1 /\ UNCHANGED <<provider, table, phase>>
          /\ Legal(table[next])
      BY <1>2 DEF ReadRow
    <2>2. CASE ReadGlobal(table[next])
      BY <2>1, <2>2, GlobalRead
    <2>3. CASE Evaluate(table[next])
      BY <2>1, <2>3, EvaluateRead
    <2>4. CASE Keep(table[next])
      BY <2>1, <2>4, KeepRead
    <2> QED
      BY <1>2, <2>2, <2>3, <2>4 DEF ReadRow
  <1>3. CASE RefuseRow
    <2>1. UNCHANGED <<provider, table, next, globals, values, shown, inits, readies>> /\ phase' = "refused"
      BY <1>3 DEF RefuseRow
    <2> QED
      BY <2>1, PhaseRead
  <1>4. CASE FinishReading
    BY <1>4, FinishRead
  <1> QED
    BY <1>1, <1>2, <1>3, <1>4 DEF TableNext

-----------------------------------------------------------------------------
RunTyped ==
  /\ time \in Int
  /\ coming \in [Instances -> Numbers]
  /\ at \in [Tokens -> {"absent", "waiting", "ready", "busy", "done"}]
  /\ due = [k \in Tokens |-> due[k]]
  /\ stamp \in [Tokens -> Numbers]
  /\ given \in [Tokens -> Givens]

\* A scenario sampled from the table, or what the table says.
Sound(s) ==
  /\ s \in Partials /\ ~s.fails /\ Len(s.rows) = Len(inits)
  /\ provider # "stochastic" => s = Certainty
  /\ provider = "stochastic" =>
       DefinedSoFar(s, Len(inits)) /\ NodesSoFar(s, Len(inits)) /\ UntouchedSoFar(s, Len(inits))

\* The clock is not behind the times of a scenario.
Timed ==
  /\ provider \in {"static", "expected"} => time >= Lowest
  /\ provider = "stochastic" => time >= 0

\* An instance is either still to come, at the time it becomes known, or held, its time
\* having passed.
Absent(i) == at[ProcessToken(i)] = "absent"
Arrivals ==
  /\ \A i \in Instances \ InTable : coming[i] = Undefined
  /\ \A i \in InTable : IF Absent(i) THEN coming[i] = KnownTime(scen, i)
                        ELSE coming[i] = Undefined /\ KnownTime(scen, i) <= time

\* Only the process of an instance is instantiated, and a token is at a node only when the
\* scope around it has begun.
Started(i, n) == at[<<i, n>>] \in {"ready", "busy", "done"}
Nested ==
  \A i \in Instances, n \in Nodes : at[<<i, n>>] # "absent" =>
    IF Parent[n] = "" THEN i \in InTable /\ n = Process(i) /\ at[<<i, n>>] # "ready"
    ELSE Started(i, Parent[n])

\* A token waits until its node is disclosed.
Awaited ==
  \A i \in Instances, n \in Nodes : at[<<i, n>>] = "waiting" =>
    /\ due[<<i, n>>] \in Int
    /\ Parent[n] = "" => due[<<i, n>>] = ProcessReadyTime(scen, i)
    /\ provider \in {"dynamic", "stochastic"} /\ scen.nodes[i][n] # Undefined =>
         due[<<i, n>>] >= scen.nodes[i][n]

\* The rows of a node have been disclosed when it has begun.
Shown ==
  \A k \in 1..Len(inits) : Started(inits[k].inst, inits[k].node) => scen.rows[k] <= time

\* The attributes of a node that has begun keep what the scenario gave them.
Given ==
  \A k \in 1..Len(inits) : LET i == inits[k].inst n == inits[k].node a == inits[k].attr IN
    Started(i, n) /\ Decides(k) /\ a \in ToSet(Own[n]) \ {Timestamp(n)} =>
      given[<<i, n>>][a] = scen.values[i][a] \/ \E j \in DOMAIN readies[i][n] : readies[i][n][j].target = a

\* A process has not begun before its instance was due.
Stamped ==
  \A i \in Instances, n \in Nodes :
    Started(i, n) /\ Parent[n] = "" /\ GivenAt(i, Timestamp(n), n) =>
      stamp[<<i, n>>] \in Int /\ stamp[<<i, n>>] >= scen.values[i][Timestamp(n)]

Running == Sound(scen) /\ Timed /\ Arrivals /\ Nested /\ Awaited /\ Shown /\ Given /\ Stamped
RunInv ==
  /\ TableRead /\ RunTyped
  /\ phase # "failed"
  /\ phase # "run" => at = [k \in Tokens |-> "absent"]
  /\ phase = "run" => Running

\* The times of an instance are numbers.
LEMMA TimesTyped ==
  ASSUME TableRead, phase \in {"ready", "run"}, NEW s, Sound(s), NEW i \in InTable
  PROVE  /\ i \in Instances /\ KnownTime(s, i) \in Int
         /\ s.values[i][Timestamp(Process(i))] \in Int
         /\ ProcessReadyTime(s, i) \in Int /\ ProcessReadyTime(s, i) >= KnownTime(s, i)
         /\ ProcessReadyTime(s, i) >= s.values[i][Timestamp(Process(i))]
         /\ provider = "stochastic" => KnownTime(s, i) >= 0
         /\ provider \in {"static", "expected"} => KnownTime(s, i) = Lowest
         /\ provider \in {"dynamic", "stochastic"} => KnownTime(s, i) = s.nodes[i][Process(i)]
  <1>1. TableTyped /\ WellFormed /\ next > Len(table) /\ values[i][Timestamp(Process(i))] \in Int
    BY DEF TableRead, TableTyped, AllRead
  <1>2. i \in Instances /\ Process(i) \in Nodes /\ Timestamp(Process(i)) \in Attributes
    BY <1>1, ProcessTyped
  <1>3. provider \in {"static", "expected", "dynamic", "stochastic"}
    BY <1>1, TableAssumption DEF TableTyped
  <1>4. s.values[i][Timestamp(Process(i))] \in Int
    <2>1. CASE provider = "stochastic"
      BY <1>1, <1>2, <2>1 DEF Sound, DefinedSoFar
    <2>2. CASE provider # "stochastic"
      BY <1>1, <2>2 DEF Sound, Certainty
    <2> QED
      BY <2>1, <2>2
  <1>5. provider \in {"static", "expected"} => KnownTime(s, i) = Lowest
    BY DEF KnownTime
  <1>6. provider \in {"dynamic", "stochastic"} => KnownTime(s, i) = s.nodes[i][Process(i)]
    BY DEF KnownTime
  <1>7. provider = "stochastic" => s.nodes[i][Process(i)] \in Int /\ s.nodes[i][Process(i)] >= 0
    BY DEF Sound, NodesSoFar
  <1>8. provider = "dynamic" => s.nodes[i][Process(i)] \in Int
    <2> HAVE provider = "dynamic"
    <2>1. s.nodes = shown
      BY DEF Sound, Certainty
    <2>2. PICK k \in DOMAIN table : table[k].inst = i /\ i # "" /\ table[k].node = Process(i)
      BY <1>1, FirstTyped
    <2>3. k < next
      <3>1. k \in 1..Len(table) /\ Len(table) \in Nat /\ next \in Nat
        BY <1>1, RowNumbers DEF TableTyped
      <3> QED
        BY <1>1, <3>1
    <2> QED
      BY <2>1, <2>2, <2>3 DEF TableRead, ShownRead
  <1>9. KnownTime(s, i) \in Int
    BY <1>3, <1>5, <1>6, <1>7, <1>8, ScenarioAssumption
  <1> QED
    BY <1>2, <1>4, <1>5, <1>6, <1>7, <1>9, AtLeastTyped DEF ProcessReadyTime

\* What a table says is a scenario.
LEMMA CertaintyTyped ==
  ASSUME TableRead
  PROVE  /\ Certainty \in Partials /\ ~Certainty.fails /\ Len(Certainty.rows) = Len(inits)
         /\ Certainty \in Origins
         /\ provider # "dynamic" => \A k \in 1..Len(inits) : Certainty.rows[k] = Lowest
         /\ provider = "dynamic" =>
              \A k \in 1..Len(inits) : Certainty.rows[k] = shown[inits[k].inst][inits[k].node]
  <1> DEFINE rows == [k \in DOMAIN inits |->
                        IF provider = "dynamic" THEN shown[inits[k].inst][inits[k].node] ELSE Lowest]
  <1>1. PICK N \in Nat : N = Len(inits) /\ DOMAIN inits = 1..N
    BY SequenceStarts DEF TableRead, TableTyped
  <1>2. rows \in [1..N -> Int]
    BY <1>1, ScenarioAssumption DEF TableRead, ShownRead
  <1>3. \A k \in 1..N : rows[k] = IF provider = "dynamic" THEN shown[inits[k].inst][inits[k].node] ELSE Lowest
    BY <1>1
  <1> HIDE DEF rows
  <1>4. rows \in Seq(Int) /\ Len(rows) = N
    BY <1>2
  <1>5. Certainty = [values |-> values, nodes |-> shown, fails |-> FALSE, rows |-> rows]
    BY DEF Certainty, rows
  <1>6. Certainty \in Partials /\ ~Certainty.fails /\ Certainty.rows = rows
    BY <1>4, <1>5 DEF Partials, TableRead, TableTyped
  <1>7. Certainty \in Origins
    BY <1>1, <1>2, <1>6 DEF Origins
  <1> QED
    BY <1>1, <1>3, <1>4, <1>6, <1>7

\* A scenario made of a table that is not refused is sound.
LEMMA StartsSound ==
  ASSUME TableRead, phase = "ready", NEW s \in Scenarios
  PROVE  Sound(s)
  <1>1. TableTyped /\ WellFormed /\ Lowest \in Int
    BY ScenarioAssumption DEF TableRead, TableTyped
  <1>2. CASE provider # "stochastic"
    <2>1. s = Certainty
      BY <1>2 DEF Scenarios
    <2> QED
      BY <1>2, <2>1, CertaintyTyped DEF Sound
  <1>3. CASE provider = "stochastic"
    <2>1. s \in Samples(Certainty, Lowest) /\ Certainty \in Origins
      BY <1>3, CertaintyTyped DEF Scenarios
    <2>2. \A k \in 1..Len(inits) : ReadsEarlier(k) /\ ~KeptRow(Certainty, k, Lowest)
      <3>1. \A k \in 1..Len(inits) : Certainty.rows[k] = Lowest
        BY <1>3, CertaintyTyped
      <3> QED
        BY <1>1, <1>3, <3>1 DEF TableRead, RowsRead, KeptRow
    <2>3. s \in Partials /\ ~s.fails /\ SampledSoFar(s, Len(inits), Certainty, Lowest)
      BY <1>1, <2>1, <2>2, SamplesKeep
    <2> QED
      BY <1>3, <2>3 DEF Sound, SampledSoFar, RowsSoFar
  <1> QED
    BY <1>2, <1>3

\* A fork keeps what is disclosed by the current time, and discloses nothing else by then.
KeepsThePast(s) ==
  \A k \in 1..Len(inits) :
    IF scen.rows[k] <= time
      THEN /\ s.rows[k] = scen.rows[k]
           /\ Decides(k) => s.values[inits[k].inst][inits[k].attr] = scen.values[inits[k].inst][inits[k].attr]
      ELSE s.rows[k] > time

\* The rows of a scenario are disclosed at times that are numbers.
LEMMA RowsTyped ==
  ASSUME NEW s, Sound(s), NEW k \in 1..Len(inits)
  PROVE  s.rows[k] \in Int
  <1>1. s.rows \in Seq(Int) /\ Len(s.rows) = Len(inits)
    BY DEF Sound, Partials
  <1> QED
    BY <1>1, SequenceStarts

\* A fork of a sound scenario does not fail, and is one that keeps the past.
LEMMA ForksSound ==
  ASSUME TableRead, phase = "run", time \in Int, Sound(scen), NEW s \in Forks
  PROVE  Sound(s) /\ KeepsThePast(s)
  <1>1. TableTyped /\ WellFormed
    BY DEF TableRead, TableTyped
  <1>2. \A k \in 1..Len(inits) : scen.rows[k] \in Int
    BY RowsTyped
  <1>3. CASE provider # "stochastic"
    <2>1. s = Certainty /\ scen = Certainty
      BY <1>3 DEF Forks, Scenarios, Sound
    <2> QED
      BY <1>2, <2>1 DEF KeepsThePast
  <1>4. CASE provider = "stochastic"
    <2>1. s \in Samples(scen, time + 1) /\ scen \in Origins /\ time + 1 \in Int
      BY <1>2, <1>4 DEF Forks, SpawnTime, Origins, Sound
    <2>2. \A k \in 1..Len(inits) :
            ReadsEarlier(k) /\ scen.values[inits[k].inst][inits[k].attr] \in Int
      BY <1>4 DEF TableRead, RowsRead, Sound, DefinedSoFar
    <2>3. s \in Partials /\ ~s.fails /\ SampledSoFar(s, Len(inits), scen, time + 1)
      BY <1>1, <2>1, <2>2, SamplesKeep
    <2>4. Sound(s)
      BY <1>4, <2>3 DEF Sound, SampledSoFar, RowsSoFar
    <2>5. ASSUME NEW k \in 1..Len(inits)
          PROVE  IF scen.rows[k] <= time
                   THEN /\ s.rows[k] = scen.rows[k]
                        /\ Decides(k) => s.values[inits[k].inst][inits[k].attr]
                                         = scen.values[inits[k].inst][inits[k].attr]
                   ELSE s.rows[k] > time
      <3>1. IF KeptRow(scen, k, time + 1) THEN s.rows[k] = scen.rows[k] ELSE s.rows[k] >= time + 1
        BY <2>3 DEF SampledSoFar, RowsSoFar
      <3>2. KeptRow(scen, k, time + 1) = (scen.rows[k] <= time)
        BY <1>2 DEF KeptRow
      <3>3. s.rows[k] \in Int
        BY <2>4, RowsTyped
      <3>4. ASSUME Decides(k), KeptRow(scen, k, time + 1)
            PROVE  s.values[inits[k].inst][inits[k].attr] = scen.values[inits[k].inst][inits[k].attr]
        <4>1. DOMAIN inits = 1..Len(inits) /\ k \in Nat /\ Len(inits) \in Nat
          BY <1>1, SequenceStarts DEF TableTyped
        <4>2. \A l \in 1..Len(inits) : k < l => ~SameCell(k, l)
          BY <3>4, <4>1 DEF Decides, SameCell
        <4> QED
          BY <2>3, <3>4, <4>2 DEF SampledSoFar, KeptSoFar
      <3>5. CASE KeptRow(scen, k, time + 1)
        BY <3>1, <3>2, <3>4, <3>5
      <3>6. CASE ~KeptRow(scen, k, time + 1)
        <4>1. s.rows[k] >= time + 1 /\ ~(scen.rows[k] <= time)
          BY <3>1, <3>2, <3>6
        <4>2. s.rows[k] > time
          BY <3>3, <4>1
        <4> QED
          BY <4>1, <4>2
      <3> QED
        BY <3>5, <3>6
    <2> QED
      BY <2>4, <2>5 DEF KeepsThePast
  <1> QED
    BY <1>3, <1>4

\* A fork neither makes an instance known that is still to come nor one known unknown.
LEMMA ForksKnow ==
  ASSUME TableRead, phase = "run", time \in Int, Sound(scen), Timed, NEW s \in Forks, NEW i \in InTable
  PROVE  (KnownTime(s, i) > time) = (KnownTime(scen, i) > time)
  <1>1. Sound(s) /\ KeepsThePast(s)
    BY ForksSound
  <1>2. CASE provider # "stochastic"
    BY <1>1, <1>2 DEF Sound
  <1>3. CASE provider = "stochastic"
    <2> DEFINE p == Process(i)
    <2>1. /\ KnownTime(s, i) = s.nodes[i][p] /\ KnownTime(scen, i) = scen.nodes[i][p] /\ time >= 0
          /\ s.nodes[i][p] \in Int /\ scen.nodes[i][p] \in Int
      BY <1>1, <1>3, TimesTyped DEF Timed
    <2>2. ASSUME NEW u, NEW w, Sound(u), Sound(w), u.nodes[i][p] > time,
                 \A k \in 1..Len(inits) : u.rows[k] > time => w.rows[k] > time
          PROVE  w.nodes[i][p] > time
      <3>1. u.nodes[i][p] \in Int /\ w.nodes[i][p] \in Int /\ u.nodes[i][p] # 0
        BY <1>3, <2>1, <2>2 DEF Sound, NodesSoFar
      <3>2. PICK k \in 1..Len(inits) : inits[k].inst = i /\ inits[k].node = p /\ u.nodes[i][p] = u.rows[k]
        BY <1>3, <2>2, <3>1 DEF Sound, NodesSoFar
      <3>3. w.rows[k] > time
        BY <2>2, <3>2
      <3>4. w.nodes[i][p] >= w.rows[k]
        BY <1>3, <2>2, <3>2 DEF Sound, NodesSoFar
      <3>5. w.rows[k] \in Int
        BY <2>2, RowsTyped
      <3> HIDE DEF p
      <3> QED
        BY <3>1, <3>3, <3>4, <3>5
    <2>3. \A k \in 1..Len(inits) : scen.rows[k] \in Int /\ s.rows[k] \in Int
      BY <1>1, RowsTyped
    <2>4. \A k \in 1..Len(inits) : (s.rows[k] > time) = (scen.rows[k] > time)
      BY <1>1, <2>3 DEF KeepsThePast
    <2> HIDE DEF p
    <2>5. s.nodes[i][p] > time => scen.nodes[i][p] > time
      BY <1>1, <2>2, <2>4
    <2>6. scen.nodes[i][p] > time => s.nodes[i][p] > time
      BY <1>1, <2>2, <2>4
    <2> QED
      BY <2>1, <2>5, <2>6
  <1> QED
    BY <1>2, <1>3

-----------------------------------------------------------------------------
\* An initial value is one the scenario gives, unless the model assigns it or it is a timestamp.
LEMMA InitialValueTyped ==
  ASSUME globals \in Givens, scen \in Partials, time \in Int,
         NEW g \in Givens, NEW i \in Instances, NEW n \in Nodes, NEW a \in Attributes
  PROVE  /\ InitialValue(g, i, n, a) \in Numbers
         /\ a # Timestamp(n) /\ a \notin DOMAIN ModelGiven => InitialValue(g, i, n, a) = scen.values[i][a]
  <1>1. time \in Numbers /\ Undefined \in Numbers /\ scen.values[i][a] \in Numbers /\ \A v \in Int : v \in Numbers
    BY DEF Numbers, Partials, Givens
  <1>2. CASE a = Timestamp(n)
    BY <1>1, <1>2 DEF InitialValue
  <1>3. CASE a # Timestamp(n) /\ a \in DOMAIN ModelGiven
    <2>1. ModelGiven[a] \in Expressions /\ ModelGiven[a].spread # {} /\ IsFiniteSet(ModelGiven[a].spread)
      BY <1>3, ModelAssumption
    <2>2. ModelGiven[a].reads \in SUBSET Attributes /\ ModelGiven[a].spread \in SUBSET Int
      BY <2>1 DEF Expressions
    <2>3. Mean(ModelGiven[a].spread) \in Int
      BY <2>1, <2>2, MeanTyped
    <2>4. View(g) \in Givens
      BY ViewTyped
    <2>5. HasValue(View(g), ModelGiven[a]) =>
            Value(View(g), ModelGiven[a], Mean(ModelGiven[a].spread)) \in Int
      BY <2>2, <2>3, <2>4, ValueTyped
    <2>6. InitialValue(g, i, n, a) =
            IF HasValue(View(g), ModelGiven[a])
              THEN Value(View(g), ModelGiven[a], Mean(ModelGiven[a].spread)) ELSE Undefined
      BY <1>3 DEF InitialValue
    <2> QED
      BY <1>1, <1>3, <2>5, <2>6
  <1>4. CASE a # Timestamp(n) /\ a \notin DOMAIN ModelGiven
    BY <1>1, <1>4 DEF InitialValue
  <1> QED
    BY <1>2, <1>3, <1>4

\* A token arrives with numbers.
LEMMA AroundTyped ==
  ASSUME given \in [Tokens -> Givens], NEW i \in Instances, NEW n \in Nodes
  PROVE  Around(i, n) \in Givens
  <1>1. Parent[n] # "" => <<i, Parent[n]>> \in Tokens
    BY ModelAssumption DEF Tokens
  <1> QED
    BY <1>1 DEF Around, Givens, Numbers

\* The initial values of a scope are those of its own attributes; the others stay.
LEMMA InitialValuesTyped ==
  ASSUME globals \in Givens, scen \in Partials, time \in Int, given \in [Tokens -> Givens],
         NEW i \in Instances, NEW n \in Nodes
  PROVE  /\ InitialValues(i, n) \in Givens
         /\ \A a \in Attributes \ ToSet(Own[n]) : InitialValues(i, n)[a] = Around(i, n)[a]
         /\ \A a \in ToSet(Own[n]) \ {Timestamp(n)} :
              a \notin DOMAIN ModelGiven => InitialValues(i, n)[a] = scen.values[i][a]
  <1> DEFINE own == Own[n]
             valued(k, g) == [g EXCEPT ![own[k]] = InitialValue(g, i, n, own[k])]
  <1>1. PICK N \in Nat : N = Len(own) /\ DOMAIN own = 1..N /\ \A k \in 1..N : own[k] \in Attributes
    <2>1. own \in Seq(Attributes)
      BY ModelAssumption
    <2> QED
      BY <2>1, SequenceStarts
  <1>2. Around(i, n) \in Givens
    BY AroundTyped
  <1>3. ASSUME NEW k \in 1..N, NEW g \in Givens
        PROVE  /\ valued(k, g) \in Givens
               /\ \A a \in Attributes : a # own[k] => valued(k, g)[a] = g[a]
               /\ valued(k, g)[own[k]] = InitialValue(g, i, n, own[k])
    <2>1. own[k] \in Attributes
      BY <1>1
    <2>2. InitialValue(g, i, n, own[k]) \in Numbers
      BY <2>1, InitialValueTyped
    <2> HIDE DEF own
    <2> QED
      BY <2>1, <2>2 DEF Givens
  <1> DEFINE next_(f) == [k \in 0..N |-> IF k = 0 THEN Around(i, n) ELSE valued(k, f[k - 1])]
             up == CHOOSE f : f = next_(f)
  <1>4. InitialValues(i, n) = up[N]
    BY <1>1 DEF InitialValues
  <1> HIDE DEF valued
  <1>5. \E f : f = next_(f)
    <2> DEFINE after(k) == [g \in Givens |-> valued(k, g)]
               step == [k \in 1..N |-> after(k)]
               base == Around(i, n)
    <2>1. \A k \in 1..N : after(k) \in [Givens -> Givens]
      BY <1>3
    <2>2. \A k \in 1..N : \A g \in Givens : after(k)[g] = valued(k, g)
      OBVIOUS
    <2>3. \A k \in 1..N : step[k] = after(k)
      OBVIOUS
    <2> HIDE DEF after, base
    <2>4. step \in Steps(N, Givens)
      BY <2>1 DEF Steps
    <2>5. base \in Givens
      BY <1>2 DEF base
    <2> HIDE DEF step
    <2>6. Built(N, Givens, base, step) # {}
      BY <2>4, <2>5, Iterated
    <2>7. PICK f \in [0..N -> Givens] : f[0] = base /\ \A k \in 1..N : f[k] = step[k][f[k - 1]]
      BY <2>6 DEF Built
    <2>8. ASSUME NEW k \in 0..N PROVE f[k] = IF k = 0 THEN Around(i, n) ELSE valued(k, f[k - 1])
      <3>1. CASE k = 0
        BY <2>7, <3>1 DEF base
      <3>2. CASE k # 0
        <4>1. k \in 1..N /\ k - 1 \in 0..N
          BY <3>2
        <4>2. f[k - 1] \in Givens /\ f[k] = after(k)[f[k - 1]]
          BY <2>3, <2>7, <4>1
        <4> QED
          BY <2>2, <3>2, <4>1, <4>2
      <3> QED
        BY <3>1, <3>2
    <2>9. f = next_(f)
      BY <2>7, <2>8
    <2> QED
      BY <2>9
  <1>6. up = next_(up)
    BY <1>5
  <1> HIDE DEF up
  <1>7. \A k \in 0..N : up[k] = IF k = 0 THEN Around(i, n) ELSE valued(k, up[k - 1])
    <2> DEFINE w == next_(up)
    <2>1. \A k \in 0..N : w[k] = IF k = 0 THEN Around(i, n) ELSE valued(k, up[k - 1])
      OBVIOUS
    <2> HIDE DEF w
    <2>2. up = w
      BY <1>6 DEF w
    <2> QED
      BY <2>1, <2>2
  <1> HIDE DEF own
  <1> DEFINE Good(g, k) ==
               /\ g \in Givens
               /\ \A a \in Attributes : (\A j \in 1..k : own[j] # a) => g[a] = Around(i, n)[a]
               /\ \A j \in 1..k : own[j] # Timestamp(n) /\ own[j] \notin DOMAIN ModelGiven =>
                                    g[own[j]] = scen.values[i][own[j]]
             P == {k \in 0..N : Good(up[k], k)}
  <1>8. 0 \in P
    <2>1. up[0] = Around(i, n)
      BY <1>7
    <2>2. Good(Around(i, n), 0)
      BY <1>2
    <2> HIDE DEF Good
    <2> QED
      BY <2>1, <2>2
  <1>9. ASSUME NEW k \in 1..N, k - 1 \in P PROVE k \in P
    <2> DEFINE g == up[k - 1]
    <2>1. Good(g, k - 1) /\ k \in 0..N /\ k # 0 /\ up[k] = valued(k, g) /\ own[k] \in Attributes
      BY <1>1, <1>7, <1>9
    <2> HIDE DEF g
    <2>2. \A j \in 1..k : j = k \/ j \in 1..(k - 1)
      OBVIOUS
    <2>3. /\ valued(k, g) \in Givens
          /\ \A a \in Attributes : a # own[k] => valued(k, g)[a] = g[a]
          /\ valued(k, g)[own[k]] = InitialValue(g, i, n, own[k])
      BY <1>3, <2>1
    <2>4. ASSUME NEW a \in Attributes, \A j \in 1..k : own[j] # a PROVE valued(k, g)[a] = Around(i, n)[a]
      <3>1. k \in 1..k /\ \A j \in 1..(k - 1) : j \in 1..k
        OBVIOUS
      <3> QED
        BY <2>1, <2>3, <2>4, <3>1
    <2>5. ASSUME NEW j \in 1..k, own[j] # Timestamp(n), own[j] \notin DOMAIN ModelGiven
          PROVE  valued(k, g)[own[j]] = scen.values[i][own[j]]
      <3>1. CASE own[j] = own[k]
        <4>1. InitialValue(g, i, n, own[k]) = scen.values[i][own[k]]
          BY <2>1, <2>5, <3>1, InitialValueTyped
        <4> QED
          BY <2>3, <3>1, <4>1
      <3>2. CASE own[j] # own[k]
        <4>1. j \in 1..(k - 1) /\ own[j] \in Attributes
          BY <1>1, <2>2, <3>2
        <4> QED
          BY <2>1, <2>3, <2>5, <3>2, <4>1
      <3> QED
        BY <3>1, <3>2
    <2>6. Good(valued(k, g), k)
      BY <2>3, <2>4, <2>5
    <2> HIDE DEF Good
    <2> QED
      BY <2>1, <2>6
  <1> HIDE DEF P
  <1>10. N \in P
    BY <1>8, <1>9, UpToAll
  <1>11. Good(InitialValues(i, n), N)
    BY <1>4, <1>10 DEF P
  <1>12. ToSet(Own[n]) = {own[k] : k \in 1..N}
    BY <1>1 DEF ToSet, own
  <1> QED
    BY <1>11, <1>12

\* A ready expression changes only the attribute it assigns.
LEMMA AppliedTyped ==
  ASSUME globals \in Givens, NEW g \in Givens, NEW n \in Nodes, NEW e \in ReadyExpressions,
         NEW h \in Applied(g, n, e)
  PROVE  /\ h \in Givens
         /\ \A a \in Attributes : a # e.target \/ e.target = Timestamp(n) => h[a] = g[a]
  <1>1. CASE e.target = Timestamp(n)
    BY <1>1 DEF Applied
  <1>2. CASE e.target # Timestamp(n)
    <2>1. PICK d \in e.spread :
            h = [g EXCEPT ![e.target] = IF HasValue(View(g), e) THEN Value(View(g), e, d) ELSE g[e.target]]
      BY <1>2 DEF Applied
    <2> DEFINE v == IF HasValue(View(g), e) THEN Value(View(g), e, d) ELSE g[e.target]
    <2>2. e.reads \in SUBSET Attributes /\ d \in Int /\ e.target \in Attributes \union {""}
      BY DEF ReadyExpressions
    <2>3. View(g) \in Givens
      BY ViewTyped
    <2>4. HasValue(View(g), e) => Value(View(g), e, d) \in Int
      BY <2>2, <2>3, ValueTyped
    <2>5. e.target \in Attributes => v \in Numbers
      BY <2>2, <2>4 DEF Givens, Numbers
    <2>6. h = [g EXCEPT ![e.target] = v]
      BY <2>1
    <2> HIDE DEF v
    <2> QED
      BY <1>2, <2>2, <2>5, <2>6 DEF Givens
  <1> QED
    BY <1>1, <1>2

\* The ready expressions change only what they assign.
LEMMA ReadyValuesTyped ==
  ASSUME TableRead, scen \in Partials, time \in Int, given \in [Tokens -> Givens],
         NEW i \in Instances, NEW n \in Nodes, NEW r \in ReadyValues(i, n)
  PROVE  /\ r \in Givens
         /\ \A a \in Attributes :
              (\A j \in DOMAIN readies[i][n] : readies[i][n][j].target \notin {a} \ {Timestamp(n)}) =>
                r[a] = InitialValues(i, n)[a]
  <1> DEFINE es == readies[i][n]
             start == InitialValues(i, n)
  <1>1. globals \in Givens
    BY DEF TableRead, TableTyped
  <1>2. PICK N \in Nat : /\ N = Len(es) /\ DOMAIN es = 1..N
                         /\ \A k \in 1..N : es[k] \in ReadyExpressions
    <2>1. es \in Seq(ReadyExpressions)
      BY DEF TableRead, TableTyped
    <2> HIDE DEF es
    <2> QED
      BY <2>1, SequenceStarts
  <1>3. start \in Givens
    BY <1>1, InitialValuesTyped
  <1> DEFINE S == SUBSET Givens
             applied(k, X) == UNION {Applied(g, n, es[k]) : g \in X}
             next_(f) == [k \in 0..N |-> IF k = 0 THEN {start} ELSE applied(k, f[k - 1])]
             up == CHOOSE f : f = next_(f)
  <1>4. ReadyValues(i, n) = up[N]
    BY <1>2 DEF ReadyValues
  <1> HIDE DEF es, start
  <1>5. \A k \in 1..N : \A X \in S : applied(k, X) \in S
    BY <1>1, <1>2, AppliedTyped
  <1>6. \A k \in 1..N : \A X : \A h \in applied(k, X) : \E g \in X : h \in Applied(g, n, es[k])
    OBVIOUS
  <1> HIDE DEF applied, S
  <1>7. \E f : f = next_(f)
    <2> DEFINE after(k) == [X \in S |-> applied(k, X)]
               step == [k \in 1..N |-> after(k)]
               base == {start}
    <2>1. \A k \in 1..N : after(k) \in [S -> S]
      BY <1>5
    <2>2. \A k \in 1..N : \A X \in S : after(k)[X] = applied(k, X)
      OBVIOUS
    <2>3. \A k \in 1..N : step[k] = after(k)
      OBVIOUS
    <2> HIDE DEF after
    <2>4. step \in Steps(N, S)
      BY <2>1 DEF Steps
    <2>5. base \in S
      BY <1>3 DEF S
    <2> HIDE DEF step, base
    <2>6. Built(N, S, base, step) # {}
      BY <2>4, <2>5, Iterated
    <2>7. PICK f \in [0..N -> S] : f[0] = base /\ \A k \in 1..N : f[k] = step[k][f[k - 1]]
      BY <2>6 DEF Built
    <2>8. ASSUME NEW k \in 0..N PROVE f[k] = IF k = 0 THEN {start} ELSE applied(k, f[k - 1])
      <3>1. CASE k = 0
        BY <2>7, <3>1 DEF base
      <3>2. CASE k # 0
        <4>1. k \in 1..N /\ k - 1 \in 0..N
          BY <3>2
        <4>2. f[k - 1] \in S /\ f[k] = after(k)[f[k - 1]]
          BY <2>3, <2>7, <4>1
        <4> QED
          BY <2>2, <3>2, <4>1, <4>2
      <3> QED
        BY <3>1, <3>2
    <2>9. f = next_(f)
      BY <2>7, <2>8
    <2> QED
      BY <2>9
  <1>8. up = next_(up)
    BY <1>7
  <1> HIDE DEF up
  <1>9. \A k \in 0..N : up[k] = IF k = 0 THEN {start} ELSE applied(k, up[k - 1])
    <2> DEFINE w == next_(up)
    <2>1. \A k \in 0..N : w[k] = IF k = 0 THEN {start} ELSE applied(k, up[k - 1])
      OBVIOUS
    <2> HIDE DEF w
    <2>2. up = w
      BY <1>8 DEF w
    <2> QED
      BY <2>1, <2>2
  <1> DEFINE Same(g) == \A a \in Attributes : (\A j \in 1..N : es[j].target \notin {a} \ {Timestamp(n)}) =>
                                                g[a] = start[a]
             P == {k \in 0..N : \A g \in up[k] : g \in Givens /\ Same(g)}
  <1>10. 0 \in P
    <2>1. up[0] = {start}
      BY <1>9
    <2> QED
      BY <1>3, <2>1
  <1>11. ASSUME NEW k \in 1..N, k - 1 \in P PROVE k \in P
    <2>1. k \in 0..N /\ k # 0 /\ up[k] = applied(k, up[k - 1])
      BY <1>9
    <2>2. ASSUME NEW h \in up[k] PROVE h \in Givens /\ Same(h)
      <3>1. PICK g \in up[k - 1] : h \in Applied(g, n, es[k])
        BY <1>6, <2>1, <2>2
      <3>2. g \in Givens /\ Same(g)
        BY <1>11, <3>1
      <3>3. /\ h \in Givens
            /\ \A a \in Attributes : a # es[k].target \/ es[k].target = Timestamp(n) => h[a] = g[a]
        BY <1>1, <1>2, <3>1, <3>2, AppliedTyped
      <3>4. Same(h)
        BY <3>2, <3>3
      <3> QED
        BY <3>3, <3>4
    <2> QED
      BY <2>1, <2>2
  <1> HIDE DEF P, Same
  <1>12. N \in P
    BY <1>10, <1>11, UpToAll
  <1>13. r \in Givens /\ Same(r)
    BY <1>4, <1>12 DEF P
  <1> QED
    BY <1>2, <1>13 DEF Same, es, start

-----------------------------------------------------------------------------
\* The time a ready expression gives is a number.
LEMMA ReadyTimestampsTyped ==
  ASSUME TableRead, given \in [Tokens -> Givens], NEW i \in Instances, NEW n \in Nodes,
         NEW earliest \in Int, NEW t \in ReadyTimestamps(i, n, earliest)
  PROVE  t \in Int
  <1>1. CASE GivesTimestamp(i, n) /\ HasValue(View(Around(i, n)), readies[i][n][1])
    <2> DEFINE e == readies[i][n][1]
    <2>1. readies[i][n] \in Seq(ReadyExpressions) /\ readies[i][n] # <<>> /\ globals \in Givens
      BY <1>1 DEF TableRead, TableTyped, GivesTimestamp
    <2>2. e \in ReadyExpressions
      BY <2>1, SequenceStarts
    <2>3. e.reads \in SUBSET Attributes /\ e.spread \in SUBSET Int
      BY <2>2 DEF ReadyExpressions
    <2>4. PICK d \in e.spread : t = AtLeast(Value(View(Around(i, n)), e, d), earliest)
      BY <1>1 DEF ReadyTimestamps
    <2>5. View(Around(i, n)) \in Givens
      BY <2>1, AroundTyped, ViewTyped
    <2>6. Value(View(Around(i, n)), e, d) \in Int
      BY <1>1, <2>3, <2>4, <2>5, ValueTyped
    <2> QED
      BY <2>4, <2>6, AtLeastTyped
  <1>2. CASE ~(GivesTimestamp(i, n) /\ HasValue(View(Around(i, n)), readies[i][n][1]))
    BY <1>2, ScenarioAssumption DEF ReadyTimestamps
  <1> QED
    BY <1>1, <1>2

\* An activity awaits its disclosure.
LEMMA ActivityTyped ==
  ASSUME NEW s, s \in Partials, NEW i \in Instances, NEW n \in Nodes, NEW t \in Int
  PROVE  /\ ActivityReadyTime(s, i, n, t) \in Int
         /\ s.nodes[i][n] # Undefined => ActivityReadyTime(s, i, n, t) >= s.nodes[i][n]
  <1>1. s.nodes[i][n] # Undefined => s.nodes[i][n] \in Int
    BY DEF Partials, Numbers
  <1> QED
    BY <1>1, AtLeastTyped DEF ActivityReadyTime

\* Where neither the table nor the scenario changes, their times do not.
LEMMA SameScenario ==
  ASSUME UNCHANGED <<provider, table, values, shown, inits>>
  PROVE  /\ \A s : Sound(s)' = Sound(s)
         /\ InTable' = InTable /\ \A i : Process(i)' = Process(i)
         /\ \A s, i : KnownTime(s, i)' = KnownTime(s, i) /\ ProcessReadyTime(s, i)' = ProcessReadyTime(s, i)
         /\ \A k : Decides(k)' = Decides(k)
         /\ \A i, a, n : GivenAt(i, a, n)' = GivenAt(i, a, n)
  <1>1. InTable' = InTable /\ \A i : Process(i)' = Process(i)
    BY SameTable
  <1>2. \A s : NodesSoFar(s, Len(inits))' = NodesSoFar(s, Len(inits))
    BY <1>1 DEF NodesSoFar
  <1>3. \A s : DefinedSoFar(s, Len(inits))' = DefinedSoFar(s, Len(inits))
    BY DEF DefinedSoFar
  <1>4. \A s : UntouchedSoFar(s, Len(inits))' = UntouchedSoFar(s, Len(inits))
    BY DEF UntouchedSoFar
  <1>5. Certainty' = Certainty
    BY DEF Certainty
  <1>6. \A s : Sound(s)' = Sound(s)
    BY <1>2, <1>3, <1>4, <1>5 DEF Sound, Partials
  <1>7. \A s, i : KnownTime(s, i)' = KnownTime(s, i)
    BY <1>1 DEF KnownTime
  <1>8. \A s, i : ProcessReadyTime(s, i)' = ProcessReadyTime(s, i)
    BY <1>1, <1>7 DEF ProcessReadyTime
  <1>9. \A k : Decides(k)' = Decides(k)
    BY DEF Decides
  <1>10. \A i, a, n : GivenAt(i, a, n)' = GivenAt(i, a, n)
    BY DEF GivenAt
  <1> QED
    BY <1>1, <1>6, <1>7, <1>8, <1>9, <1>10

\* The clock.
LEMMA ClockTickRuns ==
  ASSUME RunInv, ClockTick
  PROVE  RunTyped' /\ Running'
  <1>1. /\ phase = "run" /\ time' = time + 1 /\ time \in Int /\ Running /\ RunTyped
        /\ UNCHANGED <<tableVars, scen, coming, at, due, stamp, given>>
    BY DEF ClockTick, RunInv, RunTyped
  <1>2. UNCHANGED <<provider, table, values, shown, inits, readies>>
    BY <1>1 DEF tableVars
  <1>3. RunTyped'
    BY <1>1 DEF RunTyped
  <1>4. Sound(scen)' /\ Timed'
    BY <1>1, <1>2, SameScenario, ScenarioAssumption DEF Running, Timed
  <1>5. Arrivals'
    <2>1. \A i \in InTable : KnownTime(scen, i) \in Int
      BY <1>1, TimesTyped DEF RunInv, Running
    <2>2. InTable' = InTable /\ \A i \in InTable : KnownTime(scen, i)' = KnownTime(scen, i) /\ Absent(i)' = Absent(i)
      BY <1>1, <1>2, SameScenario DEF Absent, ProcessToken
    <2> QED
      BY <1>1, <2>1, <2>2 DEF Running, Arrivals
  <1>6. Nested'
    BY <1>1, <1>2, SameScenario DEF Running, Nested, Started
  <1>7. Awaited'
    <2>1. \A i : ProcessReadyTime(scen, i)' = ProcessReadyTime(scen, i)
      BY <1>1, <1>2, SameScenario
    <2> QED
      BY <1>1, <1>2, <2>1 DEF Running, Awaited
  <1>8. Shown'
    <2>1. \A k \in 1..Len(inits) : scen.rows[k] \in Int
      BY <1>1, RowsTyped DEF Running
    <2> QED
      BY <1>1, <1>2, <2>1 DEF Running, Shown, Started
  <1>9. Given'
    BY <1>1, <1>2, SameScenario DEF Running, Given, Started
  <1>10. Stamped'
    BY <1>1, <1>2, SameScenario DEF Running, Stamped, Started
  <1> QED
    BY <1>3, <1>4, <1>5, <1>6, <1>7, <1>8, <1>9, <1>10 DEF Running

\* Where a token moves without its node beginning or ending, and the scenario stays, what
\* has begun stays as it was.
Moves(i, n, from, to) == at[<<i, n>>] = from /\ at' = [at EXCEPT ![<<i, n>>] = to]

\* Only the token that moves does.
LEMMA MovesTyped ==
  ASSUME RunTyped, NEW i \in Instances, NEW n \in Nodes, NEW from,
         NEW to \in {"absent", "waiting", "ready", "busy", "done"}, Moves(i, n, from, to)
  PROVE  /\ at' \in [Tokens -> {"absent", "waiting", "ready", "busy", "done"}]
         /\ at'[<<i, n>>] = to
         /\ \A j \in Instances, m \in Nodes : j # i \/ m # n => at'[<<j, m>>] = at[<<j, m>>]
  <1>1. <<i, n>> \in Tokens
    BY DEF Tokens
  <1>2. \A j \in Instances, m \in Nodes : <<j, m>> \in Tokens /\ (j # i \/ m # n => <<j, m>> # <<i, n>>)
    BY DEF Tokens
  <1> QED
    BY <1>1, <1>2 DEF RunTyped, Moves

\* Where one token moves and the event it awaits is scheduled or taken.
LEMMA OneMoves ==
  ASSUME RunInv, phase = "run", UNCHANGED <<tableVars, scen, time>>,
         NEW i \in Instances, NEW n \in Nodes, NEW from,
         NEW to \in {"absent", "waiting", "ready", "busy", "done"}, Moves(i, n, from, to),
         NEW d, due' = [due EXCEPT ![<<i, n>>] = d],
         to = "waiting" =>
           /\ d \in Int
           /\ Parent[n] = "" => d = ProcessReadyTime(scen, i)
           /\ provider \in {"dynamic", "stochastic"} /\ scen.nodes[i][n] # Undefined => d >= scen.nodes[i][n]
  PROVE  /\ at' \in [Tokens -> {"absent", "waiting", "ready", "busy", "done"}]
         /\ at[<<i, n>>] = from /\ at'[<<i, n>>] = to
         /\ \A j \in Instances, m \in Nodes : j # i \/ m # n => at'[<<j, m>>] = at[<<j, m>>]
         /\ due' = [k \in Tokens |-> due'[k]]
         /\ Sound(scen)' /\ Timed' /\ Awaited'
  <1>1. RunTyped /\ Running
    BY DEF RunInv
  <1>2. UNCHANGED <<provider, table, values, shown, inits, readies>>
    BY DEF tableVars
  <1>3. /\ at' \in [Tokens -> {"absent", "waiting", "ready", "busy", "done"}]
        /\ at[<<i, n>>] = from /\ at'[<<i, n>>] = to
        /\ \A j \in Instances, m \in Nodes : j # i \/ m # n => at'[<<j, m>>] = at[<<j, m>>]
    BY <1>1, MovesTyped DEF Moves
  <1>4. due'[<<i, n>>] = d /\ due' = [k \in Tokens |-> due'[k]]
        /\ \A j \in Instances, m \in Nodes : j # i \/ m # n => due'[<<j, m>>] = due[<<j, m>>]
    <2>1. due = [k \in Tokens |-> due[k]] /\ <<i, n>> \in Tokens
      BY <1>1 DEF RunTyped, Tokens
    <2>2. \A j \in Instances, m \in Nodes : <<j, m>> \in Tokens /\ (j # i \/ m # n => <<j, m>> # <<i, n>>)
      BY DEF Tokens
    <2> QED
      BY <2>1, <2>2
  <1>5. Sound(scen)' /\ Timed'
    BY <1>1, <1>2, SameScenario DEF Running, Timed
  <1>6. Awaited'
    <2> SUFFICES ASSUME NEW j \in Instances, NEW m \in Nodes, at'[<<j, m>>] = "waiting"
                 PROVE  /\ due'[<<j, m>>] \in Int
                        /\ Parent[m] = "" => due'[<<j, m>>] = ProcessReadyTime(scen, j)
                        /\ provider \in {"dynamic", "stochastic"} /\ scen.nodes[j][m] # Undefined =>
                             due'[<<j, m>>] >= scen.nodes[j][m]
      BY <1>2, SameScenario DEF Awaited
    <2>1. CASE j = i /\ m = n
      BY <1>3, <1>4, <2>1
    <2>2. CASE j # i \/ m # n
      <3>1. at[<<j, m>>] = "waiting" /\ due'[<<j, m>>] = due[<<j, m>>]
        BY <1>3, <1>4, <2>2
      <3> QED
        BY <1>1, <3>1 DEF Running, Awaited
    <2> QED
      BY <2>1, <2>2
  <1> QED
    BY <1>3, <1>4, <1>5, <1>6

\* Where no node begins, what has begun stays as it was.
LEMMA NoneBegins ==
  ASSUME RunInv, phase = "run", UNCHANGED <<tableVars, scen, time, given>>,
         \A j \in Instances, m \in Nodes : Started(j, m)' = Started(j, m),
         \A j \in Instances, m \in Nodes : Parent[m] = "" => stamp'[<<j, m>>] = stamp[<<j, m>>]
  PROVE  Shown' /\ Given' /\ Stamped'
  <1>1. RunTyped /\ Running /\ TableTyped
    BY DEF RunInv, TableRead
  <1>2. UNCHANGED <<provider, table, values, shown, inits, readies>>
    BY DEF tableVars
  <1>3. \A k \in 1..Len(inits) : inits[k].inst \in Instances /\ inits[k].node \in Nodes
    BY <1>1, InitializationTyped DEF TableTyped
  <1>4. Shown'
    BY <1>1, <1>2, <1>3 DEF Running, Shown
  <1>5. Given'
    BY <1>1, <1>2, <1>3, SameScenario DEF Running, Given
  <1>6. Stamped'
    BY <1>1, <1>2, SameScenario DEF Running, Stamped
  <1> QED
    BY <1>4, <1>5, <1>6

\* Instantiation.
LEMMA InstantiateRuns ==
  ASSUME RunInv, NEW i \in Instances, Instantiate(i)
  PROVE  RunTyped' /\ Running'
  <1> DEFINE p == Process(i)
  <1>1. /\ phase = "run" /\ Running /\ RunTyped /\ TableRead
        /\ coming[i] # Undefined /\ coming[i] <= time /\ coming' = [coming EXCEPT ![i] = Undefined]
        /\ at' = [at EXCEPT ![<<i, p>>] = "waiting"]
        /\ due' = [due EXCEPT ![<<i, p>>] = ProcessReadyTime(scen, i)]
        /\ UNCHANGED <<tableVars, scen, time, stamp, given>>
    BY DEF Instantiate, RunInv, ProcessToken
  <1>2. UNCHANGED <<provider, table, values, shown, inits, readies>>
    BY <1>1 DEF tableVars
  <1>3. TableTyped /\ WellFormed /\ Sound(scen)
    BY <1>1 DEF TableRead, TableTyped, Running
  <1>4. i \in InTable /\ Absent(i) /\ coming[i] = KnownTime(scen, i)
    BY <1>1 DEF Running, Arrivals
  <1>5. p \in Nodes /\ Parent[p] = ""
    BY <1>3, <1>4, ProcessTyped
  <1> HIDE DEF p
  <1>6. Moves(i, p, "absent", "waiting")
    BY <1>1, <1>4 DEF Moves, Absent, ProcessToken, p
  <1>7. /\ ProcessReadyTime(scen, i) \in Int /\ KnownTime(scen, i) \in Int
        /\ ProcessReadyTime(scen, i) >= KnownTime(scen, i)
        /\ provider \in {"dynamic", "stochastic"} => KnownTime(scen, i) = scen.nodes[i][p]
    BY <1>1, <1>3, <1>4, TimesTyped DEF p
  <1>8. /\ at' \in [Tokens -> {"absent", "waiting", "ready", "busy", "done"}]
        /\ at[<<i, p>>] = "absent" /\ at'[<<i, p>>] = "waiting"
        /\ \A j \in Instances, m \in Nodes : j # i \/ m # p => at'[<<j, m>>] = at[<<j, m>>]
        /\ due' = [k \in Tokens |-> due'[k]]
        /\ Sound(scen)' /\ Timed' /\ Awaited'
    <2>1. UNCHANGED <<tableVars, scen, time>> /\ phase = "run"
      BY <1>1
    <2>2. due' = [due EXCEPT ![<<i, p>>] = ProcessReadyTime(scen, i)]
      BY <1>1 DEF p
    <2> QED
      BY <1>5, <1>6, <1>7, <2>1, <2>2, OneMoves
  <1>9. RunTyped'
    BY <1>1, <1>8 DEF RunTyped, Numbers
  <1>10. \A j \in Instances, m \in Nodes : Started(j, m)' = Started(j, m)
    <2> SUFFICES ASSUME NEW j \in Instances, NEW m \in Nodes PROVE Started(j, m)' = Started(j, m)
      OBVIOUS
    <2>1. CASE j = i /\ m = p
      BY <1>8, <2>1 DEF Started
    <2>2. CASE j # i \/ m # p
      <3>1. at'[<<j, m>>] = at[<<j, m>>]
        BY <1>8, <2>2
      <3> QED
        BY <3>1 DEF Started
    <2> QED
      BY <2>1, <2>2
  <1>11. \A j \in InTable : j \in Instances /\ Process(j) \in Nodes
    BY <1>3, ProcessTyped
  <1>12. /\ InTable' = InTable
         /\ \A j : KnownTime(scen, j)' = KnownTime(scen, j) /\ ProcessReadyTime(scen, j)' = ProcessReadyTime(scen, j)
    BY <1>1, <1>2, SameScenario
  <1>13. Arrivals'
    <2>1. \A j \in Instances : coming'[j] = IF j = i THEN Undefined ELSE coming[j]
      BY <1>1 DEF RunTyped
    <2>2. Absent(i)' = FALSE
      BY <1>2, <1>8, SameScenario DEF Absent, ProcessToken, p
    <2>3. \A j \in InTable : j # i => Absent(j)' = Absent(j)
      BY <1>2, <1>8, <1>11, SameScenario DEF Absent, ProcessToken
    <2> QED
      BY <1>1, <1>4, <1>11, <1>12, <2>1, <2>2, <2>3 DEF Running, Arrivals
  <1>14. Nested'
    <2> SUFFICES ASSUME NEW j \in Instances, NEW m \in Nodes, at'[<<j, m>>] # "absent"
                 PROVE  IF Parent[m] = "" THEN j \in InTable /\ m = Process(j) /\ at'[<<j, m>>] # "ready"
                        ELSE Started(j, Parent[m])'
      BY <1>2, SameScenario DEF Nested
    <2>1. CASE j = i /\ m = p
      BY <1>4, <1>5, <1>8, <2>1 DEF p
    <2>2. CASE j # i \/ m # p
      <3>1. at[<<j, m>>] # "absent" /\ at'[<<j, m>>] = at[<<j, m>>]
        BY <1>8, <2>2
      <3>2. Parent[m] # "" => Parent[m] \in Nodes
        BY ModelAssumption
      <3> QED
        BY <1>1, <1>10, <3>1, <3>2 DEF Running, Nested
    <2> QED
      BY <2>1, <2>2
  <1>15. Shown' /\ Given' /\ Stamped'
    <2>1. UNCHANGED <<tableVars, scen, time, given>> /\ phase = "run"
      BY <1>1
    <2>2. \A j \in Instances, m \in Nodes : Parent[m] = "" => stamp'[<<j, m>>] = stamp[<<j, m>>]
      BY <1>1
    <2> QED
      BY <1>10, <2>1, <2>2, NoneBegins
  <1> QED
    BY <1>8, <1>9, <1>13, <1>14, <1>15 DEF Running

\* The arrival of a token at an activity.
LEMMA ArriveRuns ==
  ASSUME RunInv, NEW i \in Instances, NEW n \in Nodes, Arrive(i, n)
  PROVE  RunTyped' /\ Running'
  <1>1. /\ phase = "run" /\ Running /\ RunTyped /\ TableRead /\ TableTyped /\ WellFormed
        /\ Kind[n] # "process" /\ at[<<i, Parent[n]>>] = "busy" /\ Moves(i, n, "absent", "waiting")
        /\ UNCHANGED <<tableVars, scen, time, coming, stamp, given>>
    BY DEF Arrive, RunInv, Moves, TableRead, TableTyped
  <1>2. UNCHANGED <<provider, table, values, shown, inits, readies>>
    BY <1>1 DEF tableVars
  <1>3. Parent[n] # "" /\ \A m \in Nodes : Parent[m] # "" => Parent[m] \in Nodes
    BY <1>1, ModelAssumption
  <1>4. PICK t \in ReadyTimestamps(i, n, Lowest) :
          due' = [due EXCEPT ![<<i, n>>] = ActivityReadyTime(scen, i, n, t)]
    BY DEF Arrive
  <1>5. t \in Int
    BY <1>1, <1>4, ReadyTimestampsTyped, ScenarioAssumption DEF RunTyped
  <1>6. scen \in Partials
    BY <1>1 DEF Running, Sound
  <1> DEFINE d == ActivityReadyTime(scen, i, n, t)
  <1>7. d \in Int /\ (scen.nodes[i][n] # Undefined => d >= scen.nodes[i][n])
    BY <1>5, <1>6, ActivityTyped
  <1>8. due' = [due EXCEPT ![<<i, n>>] = d]
    BY <1>4
  <1> HIDE DEF d
  <1>9. /\ at' \in [Tokens -> {"absent", "waiting", "ready", "busy", "done"}]
        /\ at[<<i, n>>] = "absent" /\ at'[<<i, n>>] = "waiting"
        /\ \A j \in Instances, m \in Nodes : j # i \/ m # n => at'[<<j, m>>] = at[<<j, m>>]
        /\ due' = [k \in Tokens |-> due'[k]]
        /\ Sound(scen)' /\ Timed' /\ Awaited'
    BY <1>1, <1>3, <1>7, <1>8, OneMoves
  <1>10. RunTyped'
    BY <1>1, <1>9 DEF RunTyped
  <1>11. \A j \in Instances, m \in Nodes : Started(j, m)' = Started(j, m)
    <2> SUFFICES ASSUME NEW j \in Instances, NEW m \in Nodes PROVE Started(j, m)' = Started(j, m)
      OBVIOUS
    <2>1. CASE j = i /\ m = n
      BY <1>9, <2>1 DEF Started
    <2>2. CASE j # i \/ m # n
      <3>1. at'[<<j, m>>] = at[<<j, m>>]
        BY <1>9, <2>2
      <3> QED
        BY <3>1 DEF Started
    <2> QED
      BY <2>1, <2>2
  <1>12. Shown' /\ Given' /\ Stamped'
    BY <1>1, <1>11, NoneBegins
  <1>13. \A j \in InTable : j \in Instances /\ Process(j) \in Nodes /\ Process(j) # n
    BY <1>1, <1>3, ProcessTyped
  <1>14. Arrivals'
    <2>1. \A j \in InTable : Absent(j)' = Absent(j)
      BY <1>2, <1>9, <1>13, SameScenario DEF Absent, ProcessToken
    <2> QED
      BY <1>1, <1>2, <2>1, SameScenario DEF Running, Arrivals
  <1>15. Nested'
    <2> SUFFICES ASSUME NEW j \in Instances, NEW m \in Nodes, at'[<<j, m>>] # "absent"
                 PROVE  IF Parent[m] = "" THEN j \in InTable /\ m = Process(j) /\ at'[<<j, m>>] # "ready"
                        ELSE Started(j, Parent[m])'
      BY <1>2, SameScenario DEF Nested
    <2>1. CASE j = i /\ m = n
      <3>1. Started(i, Parent[n])
        BY <1>1 DEF Started
      <3> QED
        BY <1>3, <1>11, <2>1, <3>1
    <2>2. CASE j # i \/ m # n
      <3>1. at[<<j, m>>] # "absent" /\ at'[<<j, m>>] = at[<<j, m>>]
        BY <1>9, <2>2
      <3> QED
        BY <1>1, <1>3, <1>11, <3>1 DEF Running, Nested
    <2> QED
      BY <2>1, <2>2
  <1> QED
    BY <1>9, <1>10, <1>12, <1>14, <1>15 DEF Running
\* A node that has begun goes on.
LEMMA GoesOnRuns ==
  ASSUME RunInv, phase = "run", UNCHANGED <<tableVars, scen, time, coming, given>>,
         NEW i \in Instances, NEW n \in Nodes, NEW from \in {"ready", "busy"}, NEW to \in {"busy", "done"},
         Moves(i, n, from, to), NEW d, due' = [due EXCEPT ![<<i, n>>] = d],
         stamp' \in [Tokens -> Numbers],
         \A j \in Instances, m \in Nodes : Parent[m] = "" => stamp'[<<j, m>>] = stamp[<<j, m>>]
  PROVE  RunTyped' /\ Running'
  <1>1. Running /\ RunTyped /\ TableTyped /\ WellFormed
    BY DEF RunInv, TableRead, TableTyped
  <1>2. UNCHANGED <<provider, table, values, shown, inits, readies>>
    BY DEF tableVars
  <1>3. /\ at' \in [Tokens -> {"absent", "waiting", "ready", "busy", "done"}]
        /\ at[<<i, n>>] = from /\ at'[<<i, n>>] = to
        /\ \A j \in Instances, m \in Nodes : j # i \/ m # n => at'[<<j, m>>] = at[<<j, m>>]
        /\ due' = [k \in Tokens |-> due'[k]]
        /\ Sound(scen)' /\ Timed' /\ Awaited'
    <2>1. to \in {"absent", "waiting", "ready", "busy", "done"} /\ to # "waiting"
      OBVIOUS
    <2>2. UNCHANGED <<tableVars, scen, time>>
      OBVIOUS
    <2> QED
      BY <2>1, <2>2, OneMoves
  <1>4. RunTyped'
    BY <1>1, <1>3 DEF RunTyped
  <1>5. \A j \in Instances, m \in Nodes :
          /\ Started(j, m)' = Started(j, m)
          /\ (at'[<<j, m>>] = "absent") = (at[<<j, m>>] = "absent")
          /\ at'[<<j, m>>] = "ready" => at[<<j, m>>] = "ready"
    <2> SUFFICES ASSUME NEW j \in Instances, NEW m \in Nodes
                 PROVE  /\ Started(j, m)' = Started(j, m)
                        /\ (at'[<<j, m>>] = "absent") = (at[<<j, m>>] = "absent")
                        /\ at'[<<j, m>>] = "ready" => at[<<j, m>>] = "ready"
      OBVIOUS
    <2>1. CASE j = i /\ m = n
      <3>1. at[<<j, m>>] \in {"ready", "busy"} /\ at'[<<j, m>>] \in {"busy", "done"}
        BY <1>3, <2>1
      <3>2. Started(j, m) /\ Started(j, m)'
        BY <3>1 DEF Started
      <3> QED
        BY <3>1, <3>2 DEF Started
    <2>2. CASE j # i \/ m # n
      <3>1. at'[<<j, m>>] = at[<<j, m>>]
        BY <1>3, <2>2
      <3> QED
        BY <3>1 DEF Started
    <2> QED
      BY <2>1, <2>2
  <1>6. Shown' /\ Given' /\ Stamped'
    BY <1>5, NoneBegins
  <1>7. Arrivals'
    <2>1. \A j \in InTable : j \in Instances /\ Process(j) \in Nodes
      BY <1>1, ProcessTyped
    <2>2. \A j \in InTable : Absent(j)' = Absent(j)
      <3>1. \A j \in InTable : Process(j)' = Process(j)
        BY <1>2, SameScenario
      <3>2. \A j \in InTable : (at'[<<j, Process(j)>>] = "absent") = (at[<<j, Process(j)>>] = "absent")
        BY <1>5, <2>1
      <3>3. \A j \in InTable : Absent(j)' = (at'[<<j, Process(j)>>] = "absent")
        BY <3>1 DEF Absent, ProcessToken
      <3> QED
        BY <3>2, <3>3 DEF Absent, ProcessToken
    <2> QED
      BY <1>1, <1>2, <2>2, SameScenario DEF Running, Arrivals
  <1>8. Nested'
    <2>1. \A m \in Nodes : Parent[m] # "" => Parent[m] \in Nodes
      BY ModelAssumption
    <2>0. InTable' = InTable /\ \A j : Process(j)' = Process(j)
      BY <1>2, SameScenario
    <2> SUFFICES ASSUME NEW j \in Instances, NEW m \in Nodes, at'[<<j, m>>] # "absent"
                 PROVE  IF Parent[m] = "" THEN j \in InTable /\ m = Process(j) /\ at'[<<j, m>>] # "ready"
                        ELSE Started(j, Parent[m])'
      BY <2>0 DEF Nested
    <2>2. at[<<j, m>>] # "absent" /\ (at'[<<j, m>>] = "ready" => at[<<j, m>>] = "ready")
      BY <1>5
    <2>3. Parent[m] # "" => Started(j, Parent[m])' = Started(j, Parent[m])
      BY <1>5, <2>1
    <2> QED
      BY <1>1, <2>2, <2>3 DEF Running, Nested
  <1> QED
    BY <1>3, <1>4, <1>6, <1>7, <1>8 DEF Running

\* An activity is entered, and a task completes.
LEMMA EnterRuns ==
  ASSUME RunInv, NEW i \in Instances, NEW n \in Nodes, Enter(i, n)
  PROVE  RunTyped' /\ Running'
  <1>1. /\ phase = "run" /\ Running /\ RunTyped /\ Moves(i, n, "ready", "busy")
        /\ UNCHANGED <<tableVars, scen, time, coming, given>> /\ stamp' = [stamp EXCEPT ![<<i, n>>] = time]
    BY DEF Enter, RunInv, Moves
  <1>2. Parent[n] # ""
    BY <1>1 DEF Running, Nested, Moves
  <1>3. \E d : due' = [due EXCEPT ![<<i, n>>] = d]
    <2>1. CASE Kind[n] \in {"task", "compensation"}
      BY <2>1 DEF Enter
    <2>2. CASE Kind[n] \notin {"task", "compensation"}
      <3>1. due' = due /\ due = [k \in Tokens |-> due[k]]
        BY <1>1, <2>2 DEF Enter, RunTyped
      <3>2. due = [due EXCEPT ![<<i, n>>] = due[<<i, n>>]]
        BY <3>1
      <3> QED
        BY <3>1, <3>2
    <2> QED
      BY <2>1, <2>2
  <1>4. /\ stamp' \in [Tokens -> Numbers]
        /\ \A j \in Instances, m \in Nodes : Parent[m] = "" => stamp'[<<j, m>>] = stamp[<<j, m>>]
    <2>1. \A j \in Instances, m \in Nodes : <<j, m>> \in Tokens /\ (m # n => <<j, m>> # <<i, n>>)
      BY DEF Tokens
    <2>2. stamp \in [Tokens -> Numbers] /\ time \in Numbers
      BY <1>1 DEF RunTyped, Numbers
    <2> QED
      BY <1>1, <1>2, <2>1, <2>2
  <1> QED
    BY <1>1, <1>3, <1>4, GoesOnRuns

\* A task completes when its completion is due.
LEMMA CompleteRuns ==
  ASSUME RunInv, NEW i \in Instances, NEW n \in Nodes, Complete(i, n)
  PROVE  RunTyped' /\ Running'
  <1>1. /\ phase = "run" /\ RunTyped /\ Moves(i, n, "busy", "done")
        /\ UNCHANGED <<tableVars, scen, time, coming, given, stamp>>
        /\ due' = [due EXCEPT ![<<i, n>>] = Undefined]
    BY DEF Complete, RunInv, Moves
  <1>2. stamp' \in [Tokens -> Numbers]
    BY <1>1 DEF RunTyped
  <1> QED
    BY <1>1, <1>2, GoesOnRuns
\* A token becomes ready when what it waits for has been disclosed, and its node is given
\* what the scenario says.
LEMMA BecomeReadyRuns ==
  ASSUME RunInv, NEW i \in Instances, NEW n \in Nodes, BecomeReady(i, n)
  PROVE  RunTyped' /\ Running'
  <1> DEFINE to == IF Kind[n] = "process" THEN "busy" ELSE "ready"
  <1>1. /\ phase = "run" /\ Running /\ RunTyped /\ TableRead /\ TableTyped /\ WellFormed
        /\ Moves(i, n, "waiting", to) /\ due[<<i, n>>] <= time
        /\ due' = [due EXCEPT ![<<i, n>>] = Undefined] /\ stamp' = [stamp EXCEPT ![<<i, n>>] = time]
        /\ UNCHANGED <<tableVars, scen, time, coming>>
    BY DEF BecomeReady, RunInv, Moves, TableRead, TableTyped
  <1>2. UNCHANGED <<provider, table, values, shown, inits, readies>>
    BY <1>1 DEF tableVars
  <1>3. PICK g \in ReadyValues(i, n) : given' = [given EXCEPT ![<<i, n>>] = g]
    BY DEF BecomeReady
  <1>4. to \in {"ready", "busy"} /\ (Parent[n] = "" => to = "busy")
    BY ModelAssumption
  <1> HIDE DEF to
  <1>5. /\ at' \in [Tokens -> {"absent", "waiting", "ready", "busy", "done"}]
        /\ at[<<i, n>>] = "waiting" /\ at'[<<i, n>>] = to
        /\ \A j \in Instances, m \in Nodes : j # i \/ m # n => at'[<<j, m>>] = at[<<j, m>>]
        /\ due' = [k \in Tokens |-> due'[k]]
        /\ Sound(scen)' /\ Timed' /\ Awaited'
    <2>1. to \in {"absent", "waiting", "ready", "busy", "done"} /\ to # "waiting"
      BY <1>4
    <2>2. UNCHANGED <<tableVars, scen, time>>
      BY <1>1
    <2>3. phase = "run" /\ Moves(i, n, "waiting", to) /\ due' = [due EXCEPT ![<<i, n>>] = Undefined]
      BY <1>1
    <2> QED
      BY <2>1, <2>2, <2>3, OneMoves
  <1>6. /\ time \in Int /\ scen \in Partials /\ given \in [Tokens -> Givens] /\ globals \in Givens
        /\ stamp \in [Tokens -> Numbers] /\ coming \in [Instances -> Numbers]
    BY <1>1 DEF RunTyped, Running, Sound, TableTyped
  <1>7. /\ g \in Givens
        /\ \A a \in Attributes :
              (\A j \in DOMAIN readies[i][n] : readies[i][n][j].target \notin {a} \ {Timestamp(n)}) =>
                g[a] = InitialValues(i, n)[a]
    BY <1>1, <1>3, <1>6, ReadyValuesTyped
  <1>8. \A a \in ToSet(Own[n]) \ {Timestamp(n)} :
              a \notin DOMAIN ModelGiven => InitialValues(i, n)[a] = scen.values[i][a]
    BY <1>6, InitialValuesTyped
  <1>9. /\ given' \in [Tokens -> Givens] /\ given'[<<i, n>>] = g
        /\ \A j \in Instances, m \in Nodes : j # i \/ m # n => given'[<<j, m>>] = given[<<j, m>>]
    <2>1. \A j \in Instances, m \in Nodes : <<j, m>> \in Tokens /\ (j # i \/ m # n => <<j, m>> # <<i, n>>)
      BY DEF Tokens
    <2> QED
      BY <1>3, <1>6, <1>7, <2>1
  <1>10. /\ stamp' \in [Tokens -> Numbers] /\ stamp'[<<i, n>>] = time
         /\ \A j \in Instances, m \in Nodes : j # i \/ m # n => stamp'[<<j, m>>] = stamp[<<j, m>>]
    <2>1. \A j \in Instances, m \in Nodes : <<j, m>> \in Tokens /\ (j # i \/ m # n => <<j, m>> # <<i, n>>)
      BY DEF Tokens
    <2>2. time \in Numbers
      BY <1>6 DEF Numbers
    <2> QED
      BY <1>1, <1>6, <2>1, <2>2
  <1>11. RunTyped'
    BY <1>1, <1>5, <1>6, <1>9, <1>10 DEF RunTyped
  <1>12. \A j \in Instances, m \in Nodes :
           /\ j # i \/ m # n => Started(j, m)' = Started(j, m)
           /\ Started(j, m) => Started(j, m)'
    <2> SUFFICES ASSUME NEW j \in Instances, NEW m \in Nodes
                 PROVE  /\ j # i \/ m # n => Started(j, m)' = Started(j, m)
                        /\ Started(j, m) => Started(j, m)'
      OBVIOUS
    <2>1. CASE j = i /\ m = n
      BY <1>5, <2>1 DEF Started
    <2>2. CASE j # i \/ m # n
      <3>1. at'[<<j, m>>] = at[<<j, m>>]
        BY <1>5, <2>2
      <3> QED
        BY <3>1 DEF Started
    <2> QED
      BY <2>1, <2>2
  <1>13. Arrivals'
    <2>1. \A j \in InTable : j \in Instances /\ Process(j) \in Nodes
      BY <1>1, ProcessTyped
    <2>2. \A j \in Instances, m \in Nodes : (at'[<<j, m>>] = "absent") = (at[<<j, m>>] = "absent")
      <3> SUFFICES ASSUME NEW j \in Instances, NEW m \in Nodes
                   PROVE  (at'[<<j, m>>] = "absent") = (at[<<j, m>>] = "absent")
        OBVIOUS
      <3>1. CASE j = i /\ m = n
        <4>1. at'[<<j, m>>] # "absent" /\ at[<<j, m>>] # "absent"
          BY <1>4, <1>5, <3>1
        <4> QED
          BY <4>1
      <3>2. CASE j # i \/ m # n
        BY <1>5, <3>2
      <3> QED
        BY <3>1, <3>2
    <2>3. \A j \in InTable : (at'[<<j, Process(j)>>] = "absent") = (at[<<j, Process(j)>>] = "absent")
      BY <2>1, <2>2
    <2>4. \A j \in InTable : Process(j)' = Process(j)
      BY <1>2, SameScenario
    <2>5. \A j \in InTable : Absent(j)' = (at'[<<j, Process(j)>>] = "absent")
      BY <2>4 DEF Absent, ProcessToken
    <2>6. \A j \in InTable : Absent(j)' = Absent(j)
      BY <2>3, <2>5 DEF Absent, ProcessToken
    <2> QED
      BY <1>1, <1>2, <2>6, SameScenario DEF Running, Arrivals
  <1>14. IF Parent[n] = "" THEN i \in InTable /\ n = Process(i) ELSE Started(i, Parent[n])
    BY <1>1, <1>5 DEF Running, Nested
  <1>15. \A m \in Nodes : Parent[m] # "" => Parent[m] \in Nodes
    BY ModelAssumption
  <1>16. Nested'
    <2> SUFFICES ASSUME NEW j \in Instances, NEW m \in Nodes, at'[<<j, m>>] # "absent"
                 PROVE  IF Parent[m] = "" THEN j \in InTable /\ m = Process(j) /\ at'[<<j, m>>] # "ready"
                        ELSE Started(j, Parent[m])'
      BY <1>2, SameScenario DEF Nested
    <2>1. CASE j = i /\ m = n
      BY <1>4, <1>5, <1>12, <1>14, <1>15, <2>1
    <2>2. CASE j # i \/ m # n
      <3>1. at[<<j, m>>] # "absent" /\ at'[<<j, m>>] = at[<<j, m>>]
        BY <1>5, <2>2
      <3> QED
        BY <1>1, <1>12, <1>15, <3>1 DEF Running, Nested
    <2> QED
      BY <2>1, <2>2
  <1>17. \A k \in 1..Len(inits) : /\ inits[k].inst \in Instances /\ inits[k].node \in Nodes
                                  /\ inits[k].attr \in Attributes /\ inits[k].attr \notin DOMAIN ModelGiven
    BY <1>1, InitializationTyped DEF TableTyped, TableRead, RowsRead
  <1>18. time \in Int /\ due[<<i, n>>] \in Int /\ due[<<i, n>>] <= time
    BY <1>1, <1>5 DEF Running, Awaited, RunTyped
  <1>19. (Parent[n] = "" => due[<<i, n>>] = ProcessReadyTime(scen, i))
         /\ (provider \in {"dynamic", "stochastic"} /\ scen.nodes[i][n] # Undefined =>
               due[<<i, n>>] >= scen.nodes[i][n])
    BY <1>1, <1>5 DEF Running, Awaited
  <1>20. ASSUME NEW k \in 1..Len(inits), inits[k].inst = i, inits[k].node = n
         PROVE  scen.rows[k] <= time
    <2>1. scen.rows[k] \in Int /\ Undefined \notin Int
      BY <1>1, RowsTyped, TableAssumption DEF Running
    <2>2. provider \in {"static", "expected", "dynamic", "stochastic"}
      BY <1>1, TableAssumption DEF TableTyped
    <2>3. CASE provider = "stochastic"
      <3>1. scen.nodes[i][n] \in Int /\ scen.nodes[i][n] >= scen.rows[k]
        BY <1>1, <1>20, <2>3 DEF Running, Sound, NodesSoFar
      <3>2. due[<<i, n>>] >= scen.nodes[i][n]
        BY <1>19, <2>1, <2>3, <3>1
      <3> QED
        BY <1>18, <2>1, <3>1, <3>2
    <2>4. CASE provider = "dynamic"
      <3>1. scen = Certainty /\ scen.rows[k] = shown[i][n]
        BY <1>1, <1>20, <2>4, CertaintyTyped DEF Running, Sound
      <3>2. scen.nodes[i][n] = shown[i][n]
        BY <3>1 DEF Certainty
      <3>3. due[<<i, n>>] >= scen.nodes[i][n]
        BY <1>19, <2>1, <2>4, <3>1, <3>2
      <3> QED
        BY <1>18, <2>1, <3>1, <3>2, <3>3
    <2>5. CASE provider \in {"static", "expected"}
      <3>1. scen = Certainty /\ scen.rows[k] = Lowest /\ time >= Lowest
        BY <1>1, <2>5, CertaintyTyped DEF Running, Sound, Timed
      <3> QED
        BY <1>6, <2>1, <3>1
    <2> QED
      BY <2>2, <2>3, <2>4, <2>5
  <1>21. Shown'
    <2> SUFFICES ASSUME NEW k \in 1..Len(inits), Started(inits[k].inst, inits[k].node)'
                 PROVE  scen.rows[k] <= time
      BY <1>1, <1>2 DEF Shown
    <2>1. CASE inits[k].inst = i /\ inits[k].node = n
      BY <1>20, <2>1
    <2>2. CASE inits[k].inst # i \/ inits[k].node # n
      <3>1. Started(inits[k].inst, inits[k].node)
        BY <1>2, <1>12, <1>17, <2>2
      <3> QED
        BY <1>1, <3>1 DEF Running, Shown
    <2> QED
      BY <2>1, <2>2
  <1>22. ASSUME NEW k \in 1..Len(inits), Started(inits[k].inst, inits[k].node)', Decides(k),
                inits[k].attr \in ToSet(Own[inits[k].node]) \ {Timestamp(inits[k].node)}
         PROVE  \/ given'[<<inits[k].inst, inits[k].node>>][inits[k].attr] = scen.values[inits[k].inst][inits[k].attr]
                \/ \E j \in DOMAIN readies[inits[k].inst][inits[k].node] :
                     readies[inits[k].inst][inits[k].node][j].target = inits[k].attr
    <2>1. PICK l \in Instances, m \in Nodes, a \in Attributes :
            /\ l = inits[k].inst /\ m = inits[k].node /\ a = inits[k].attr /\ a \notin DOMAIN ModelGiven
            /\ a \in ToSet(Own[m]) \ {Timestamp(m)} /\ Started(l, m)'
      BY <1>2, <1>17, <1>22
    <2> DEFINE Result == given'[<<l, m>>][a] = scen.values[l][a] \/ \E j \in DOMAIN readies[l][m] : readies[l][m][j].target = a
    <2>2. Started(l, m) =>
            given[<<l, m>>][a] = scen.values[l][a] \/ \E j \in DOMAIN readies[l][m] : readies[l][m][j].target = a
      BY <1>1, <1>22, <2>1 DEF Running, Given
    <2>3. ASSUME l # i \/ m # n PROVE Result
      BY <1>9, <1>12, <2>1, <2>2, <2>3
    <2>4. ASSUME l = i /\ m = n PROVE Result
      <3>1. (\A j \in DOMAIN readies[i][n] : readies[i][n][j].target # a) => g[a] = scen.values[i][a]
        BY <1>7, <1>8, <2>1, <2>4
      <3> QED
        BY <1>9, <2>4, <3>1
    <2> QED
      BY <2>1, <2>3, <2>4
  <1>23. Given'
    <2>1. \A k : Decides(k)' = Decides(k)
      BY <1>2, SameScenario
    <2> QED
      BY <1>1, <1>2, <1>22, <2>1 DEF Given
  <1>24. ASSUME Parent[n] = "" PROVE time >= scen.values[i][Timestamp(n)]
    <2>1. i \in InTable /\ n = Process(i) /\ due[<<i, n>>] = ProcessReadyTime(scen, i)
      BY <1>14, <1>19, <1>24
    <2>2. /\ scen.values[i][Timestamp(n)] \in Int /\ due[<<i, n>>] >= scen.values[i][Timestamp(n)]
      BY <1>1, <2>1, TimesTyped DEF Running
    <2> QED
      BY <1>18, <2>2
  <1>25. Stamped'
    <2> SUFFICES ASSUME NEW j \in Instances, NEW m \in Nodes, Started(j, m)', Parent[m] = "",
                        GivenAt(j, Timestamp(m), m)
                 PROVE  stamp'[<<j, m>>] \in Int /\ stamp'[<<j, m>>] >= scen.values[j][Timestamp(m)]
      BY <1>1, <1>2, SameScenario DEF Stamped
    <2>1. CASE j = i /\ m = n
      <3>1. /\ i \in InTable /\ n = Process(i) /\ stamp'[<<j, m>>] = time
            /\ due[<<i, n>>] = ProcessReadyTime(scen, i)
        BY <1>10, <1>14, <1>19, <2>1
      <3>2. /\ scen.values[i][Timestamp(n)] \in Int /\ due[<<i, n>>] >= scen.values[i][Timestamp(n)]
        BY <1>1, <3>1, TimesTyped DEF Running
      <3>3. time >= scen.values[i][Timestamp(n)]
        BY <1>24, <2>1
      <3> QED
        BY <1>18, <2>1, <3>1, <3>3
    <2>2. CASE j # i \/ m # n
      <3>1. Started(j, m) /\ stamp'[<<j, m>>] = stamp[<<j, m>>]
        BY <1>10, <1>12, <2>2
      <3> QED
        BY <1>1, <3>1 DEF Running, Stamped
    <2> QED
      BY <2>1, <2>2
  <1> QED
    BY <1>5, <1>11, <1>13, <1>16, <1>21, <1>23, <1>25 DEF Running
-----------------------------------------------------------------------------
\* The last row giving an attribute its value.
LEMMA LastGives ==
  ASSUME inits \in Seq(Initializations), NEW i, NEW a, NEW k \in 1..Len(inits),
         inits[k].inst = i, inits[k].attr = a
  PROVE  \E l \in 1..Len(inits) : inits[l].inst = i /\ inits[l].attr = a /\ Decides(l)
  <1>1. PICK N \in Nat : N = Len(inits) /\ DOMAIN inits = 1..N
    BY SequenceStarts
  <1> DEFINE S == {x \in Nat : \E l \in 1..N : x = N - l /\ inits[l].inst = i /\ inits[l].attr = a}
  <1>2. N - k \in S /\ S \in SUBSET Nat
    <2>1. k \in 1..N /\ N - k \in Nat
      BY <1>1
    <2>2. \E l \in 1..N : N - k = N - l /\ inits[l].inst = i /\ inits[l].attr = a
      BY <2>1
    <2> QED
      BY <2>1, <2>2
  <1>3. PICK x \in S : \A y \in S : x <= y
    <2> HIDE DEF S
    <2> QED
      BY <1>2, Least
  <1>4. PICK l \in 1..N : x = N - l /\ inits[l].inst = i /\ inits[l].attr = a
    OBVIOUS
  <1>5. ASSUME NEW j \in 1..N, j > l PROVE inits[j].inst # i \/ inits[j].attr # a
    <2>1. N - j \in Nat /\ ~(x <= N - j)
      BY <1>1, <1>4, <1>5
    <2> QED
      BY <1>3, <2>1
  <1> QED
    BY <1>1, <1>4, <1>5 DEF Decides

\* A value of an instance that counts as disclosed is kept by a fork.
LEMMA ForksAgree ==
  ASSUME TableRead, Sound(scen), NEW s, Sound(s), KeepsThePast(s), Shown,
         NEW i \in Instances, NEW n \in Nodes, Started(i, n), NEW a \in Attributes, GivenAt(i, a, n)
  PROVE  s.values[i][a] = scen.values[i][a]
  <1>1. inits \in Seq(Initializations) /\ DOMAIN inits = 1..Len(inits)
    BY SequenceStarts DEF TableRead, TableTyped
  <1>2. CASE \E k \in 1..Len(inits) : inits[k].inst = i /\ inits[k].attr = a
    <2>1. PICK k \in 1..Len(inits) : inits[k].inst = i /\ inits[k].attr = a /\ Decides(k)
      BY <1>1, <1>2, LastGives
    <2>2. inits[k].node = n
      BY <1>1, <2>1 DEF GivenAt
    <2>3. scen.rows[k] <= time
      BY <2>1, <2>2 DEF Shown
    <2> QED
      BY <2>1, <2>3 DEF KeepsThePast
  <1>3. CASE \A k \in 1..Len(inits) : inits[k].inst # i \/ inits[k].attr # a
    <2>1. CASE provider = "stochastic"
      <3>1. \A u : Sound(u) => u.values[i][a] = values[i][a]
        BY <1>3, <2>1 DEF Sound, UntouchedSoFar
      <3> QED
        BY <3>1
    <2>2. CASE provider # "stochastic"
      BY <2>2 DEF Sound
    <2> QED
      BY <2>1, <2>2
  <1> QED
    BY <1>2, <1>3

\* A fork.
LEMMA ForkRuns ==
  ASSUME RunInv, Fork
  PROVE  /\ phase' = "run" /\ RunTyped' /\ Running'
         /\ UNCHANGED <<provider, table, next, globals, values, shown, inits, readies, time, at>>
         /\ KeepsThePast(scen')
  <1>1. /\ phase = "run" /\ Running /\ RunTyped /\ TableRead /\ TableTyped /\ WellFormed /\ Quiet
        /\ UNCHANGED <<provider, table, next, globals, values, shown, inits, readies, time, at, stamp, given>>
    BY DEF Fork, RunInv, TableRead, TableTyped
  <1>2. PICK s \in Forks :
          /\ scen' = s
          /\ phase' = IF s.fails THEN "failed" ELSE "run"
          /\ coming' = [i \in Instances |-> IF ~s.fails /\ NotYetHeld(s, i) THEN KnownTime(s, i) ELSE Undefined]
          /\ due' \in IF s.fails THEN {due} ELSE DuesAgain(s)
    BY DEF Fork
  <1>3. Sound(s) /\ KeepsThePast(s) /\ Sound(scen) /\ time \in Int /\ Timed
    BY <1>1, ForksSound DEF Running, RunTyped
  <1>4. /\ phase' = "run" /\ due' \in DuesAgain(s)
        /\ coming' = [i \in Instances |-> IF NotYetHeld(s, i) THEN KnownTime(s, i) ELSE Undefined]
    BY <1>2, <1>3 DEF Sound
  <1>5. UNCHANGED <<provider, table, values, shown, inits>>
    BY <1>1
  <1>6. \A i \in InTable : /\ i \in Instances
                           /\ KnownTime(s, i) \in Int /\ KnownTime(scen, i) \in Int
                           /\ (KnownTime(s, i) > time) = (KnownTime(scen, i) > time)
    BY <1>1, <1>3, TimesTyped, ForksKnow
  <1>7. Undefined \notin Int
    BY TableAssumption
  <1>8. coming' \in [Instances -> Numbers]
    BY <1>4, <1>6 DEF Numbers, NotYetHeld
  <1> DEFINE awaiting == {k \in Tokens : due[k] # Undefined}
  <1>9. PICK d \in [awaiting -> UNION {DueAgain(s, k) : k \in awaiting}] :
          /\ \A k \in awaiting : d[k] \in DueAgain(s, k)
          /\ due' = [k \in Tokens |-> IF k \in awaiting THEN d[k] ELSE Undefined]
    BY <1>4 DEF DuesAgain
  <1>10. RunTyped'
    BY <1>1, <1>8, <1>9 DEF RunTyped
  <1>11. Sound(scen)' /\ Timed'
    <2>1. Sound(s)' = Sound(s)
      BY <1>5, SameScenario
    <2> QED
      BY <1>1, <1>2, <1>3, <2>1 DEF Timed
  <1>12. \A i : KnownTime(scen, i)' = KnownTime(s, i) /\ ProcessReadyTime(scen, i)' = ProcessReadyTime(s, i)
    BY <1>2, <1>5, SameScenario
  <1>13. \A i, n : Started(i, n)' = Started(i, n)
    BY <1>1 DEF Started
  <1>14. Arrivals'
    <2>1. InTable' = InTable /\ \A i : Absent(i)' = Absent(i)
      BY <1>1, <1>5, SameScenario DEF Absent, ProcessToken
    <2>2. ASSUME NEW i \in InTable, Absent(i) PROVE coming'[i] = KnownTime(s, i)
      <3>1. coming[i] = KnownTime(scen, i)
        BY <1>1, <2>2 DEF Running, Arrivals
      <3>2. KnownTime(scen, i) > time
        BY <1>1, <1>6, <1>7, <3>1 DEF Quiet
      <3> QED
        BY <1>4, <1>6, <3>2 DEF NotYetHeld
    <2>3. ASSUME NEW i \in InTable, ~Absent(i) PROVE coming'[i] = Undefined /\ KnownTime(s, i) <= time
      <3>1. KnownTime(scen, i) <= time
        BY <1>1, <2>3 DEF Running, Arrivals
      <3>2. ~(KnownTime(s, i) > time)
        BY <1>3, <1>6, <3>1
      <3>3. KnownTime(s, i) <= time
        BY <1>3, <1>6, <3>2
      <3> QED
        BY <1>4, <1>6, <3>2, <3>3 DEF NotYetHeld
    <2>4. \A i \in Instances \ InTable : coming'[i] = Undefined
      BY <1>4 DEF NotYetHeld
    <2> QED
      BY <1>1, <1>12, <2>1, <2>2, <2>3, <2>4 DEF Arrivals
  <1>15. Nested'
    BY <1>1, <1>5, <1>13, SameScenario DEF Running, Nested
  <1>16. Awaited'
    <2> SUFFICES ASSUME NEW i \in Instances, NEW n \in Nodes, at[<<i, n>>] = "waiting"
                 PROVE  /\ due'[<<i, n>>] \in Int
                        /\ Parent[n] = "" => due'[<<i, n>>] = ProcessReadyTime(s, i)
                        /\ provider \in {"dynamic", "stochastic"} /\ s.nodes[i][n] # Undefined =>
                             due'[<<i, n>>] >= s.nodes[i][n]
      BY <1>1, <1>2, <1>12 DEF Awaited
    <2>1. due[<<i, n>>] \in Int /\ (Parent[n] = "" => i \in InTable /\ n = Process(i))
      BY <1>1 DEF Running, Awaited, Nested
    <2>2. <<i, n>> \in Tokens /\ <<i, n>> \in awaiting
      BY <1>7, <2>1 DEF Tokens
    <2> DEFINE k == <<i, n>>
    <2>3. due'[k] \in DueAgain(s, k)
      BY <1>9, <2>2
    <2>4. CASE Parent[n] = ""
      <3>1. Kind[n] = "process"
        BY <2>4, ModelAssumption
      <3>2. due'[k] = ProcessReadyTime(s, i)
        BY <2>3, <3>1 DEF DueAgain
      <3>3. /\ ProcessReadyTime(s, i) \in Int /\ ProcessReadyTime(s, i) >= KnownTime(s, i)
            /\ provider \in {"dynamic", "stochastic"} => KnownTime(s, i) = s.nodes[i][n]
        BY <1>1, <1>3, <2>1, <2>4, TimesTyped
      <3> QED
        BY <3>2, <3>3
    <2>5. CASE Parent[n] # ""
      <3>1. Kind[n] # "process"
        BY <2>5, ModelAssumption
      <3>2. PICK t \in ReadyTimestamps(i, n, time) : due'[k] = ActivityReadyTime(s, i, n, t)
        BY <2>3, <3>1 DEF DueAgain
      <3>3. t \in Int /\ s \in Partials
        BY <1>1, <1>3, <3>2, ReadyTimestampsTyped DEF RunTyped, Sound
      <3> QED
        BY <2>5, <3>2, <3>3, ActivityTyped
    <2> QED
      BY <2>4, <2>5
  <1>17. Shown'
    BY <1>1, <1>2, <1>3, <1>13 DEF Running, Shown, KeepsThePast
  <1>18. Given'
    <2>1. \A k : Decides(k)' = Decides(k)
      BY <1>5, SameScenario
    <2> SUFFICES ASSUME NEW k \in 1..Len(inits), Started(inits[k].inst, inits[k].node), Decides(k),
                        inits[k].attr \in ToSet(Own[inits[k].node]) \ {Timestamp(inits[k].node)}
                 PROVE  \/ given[<<inits[k].inst, inits[k].node>>][inits[k].attr] = s.values[inits[k].inst][inits[k].attr]
                        \/ \E j \in DOMAIN readies[inits[k].inst][inits[k].node] :
                             readies[inits[k].inst][inits[k].node][j].target = inits[k].attr
      BY <1>1, <1>2, <1>13, <2>1 DEF Given
    <2>2. s.values[inits[k].inst][inits[k].attr] = scen.values[inits[k].inst][inits[k].attr]
      BY <1>1, <1>3 DEF Running, Shown, KeepsThePast
    <2> QED
      BY <1>1, <2>2 DEF Running, Given
  <1>19. Stamped'
    <2> SUFFICES ASSUME NEW i \in Instances, NEW n \in Nodes, Started(i, n), Parent[n] = "",
                        GivenAt(i, Timestamp(n), n)
                 PROVE  stamp[<<i, n>>] \in Int /\ stamp[<<i, n>>] >= s.values[i][Timestamp(n)]
      BY <1>1, <1>2, <1>5, <1>13, SameScenario DEF Stamped
    <2>1. Timestamp(n) \in Attributes
      BY ModelAssumption, TimestampOfProcess
    <2>2. s.values[i][Timestamp(n)] = scen.values[i][Timestamp(n)]
      BY <1>1, <1>3, <2>1, ForksAgree DEF Running
    <2> QED
      BY <1>1, <2>2 DEF Running, Stamped
  <1> QED
    BY <1>1, <1>2, <1>3, <1>4, <1>10, <1>11, <1>14, <1>15, <1>16, <1>17, <1>18, <1>19 DEF Running
-----------------------------------------------------------------------------
\* A number of numbers has a least one.
LEMMA LeastNumber ==
  ASSUME NEW N \in Nat, NEW K \in SUBSET (1..N), K # {}, NEW f \in [K -> Int]
  PROVE  \E m \in K : \A j \in K : f[m] <= f[j]
  <1> DEFINE upTo(k) == {j \in K : j <= k}
             P == {k \in 0..N : upTo(k) = {} \/ \E m \in upTo(k) : \A j \in upTo(k) : f[m] <= f[j]}
  <1>1. 0 \in P
    <2>1. \A j \in K : ~(j <= 0)
      OBVIOUS
    <2>2. upTo(0) = {}
      BY <2>1
    <2>3. 0 \in 0..N
      OBVIOUS
    <2> HIDE DEF upTo
    <2> QED
      BY <2>2, <2>3
  <1>2. ASSUME NEW k \in 1..N, k - 1 \in P PROVE k \in P
    <2>9. upTo(k - 1) \subseteq K /\ k \in 0..N
      OBVIOUS
    <2>1. \A j \in K : j \in upTo(k) => j \in upTo(k - 1) \/ j = k
      OBVIOUS
    <2>2. \A j \in K : j \in upTo(k - 1) => j \in upTo(k)
      OBVIOUS
    <2>3. \A j \in upTo(k) : j \in K
      OBVIOUS
    <2>4. k \in K => k \in upTo(k)
      OBVIOUS
    <2>5. upTo(k - 1) \subseteq K /\ k \in 0..N
          /\ (upTo(k - 1) = {} \/ \E m \in upTo(k - 1) : \A j \in upTo(k - 1) : f[m] <= f[j])
      <3> HIDE DEF upTo
      <3> QED
        BY <1>2, <2>9
    <2> HIDE DEF upTo
    <2>6. CASE k \notin K
      <3>1. upTo(k) = upTo(k - 1)
        BY <2>1, <2>2, <2>3, <2>5, <2>6
      <3>2. upTo(k) = {} \/ \E m \in upTo(k) : \A j \in upTo(k) : f[m] <= f[j]
        BY <2>5, <3>1
      <3> QED
        BY <2>5, <3>2
    <2>7. CASE k \in K /\ upTo(k - 1) = {}
      <3>1. \A j \in upTo(k) : j = k
        BY <2>1, <2>3, <2>7
      <3>2. f[k] \in Int
        BY <2>7
      <3>3. \A j \in upTo(k) : f[k] <= f[j]
        BY <3>1, <3>2
      <3> QED
        BY <2>4, <2>5, <2>7, <3>3
    <2>8. CASE k \in K /\ upTo(k - 1) # {}
      <3>1. PICK m \in upTo(k - 1) : \A j \in upTo(k - 1) : f[m] <= f[j]
        BY <2>5, <2>8
      <3>2. m \in K /\ f[m] \in Int /\ f[k] \in Int /\ \A j \in upTo(k) : f[j] \in Int
        BY <2>3, <2>5, <2>8, <3>1
      <3>3. CASE f[m] <= f[k]
        <4>1. \A j \in upTo(k) : f[m] <= f[j]
          BY <2>1, <2>3, <3>1, <3>3
        <4> QED
          BY <2>2, <2>5, <3>2, <4>1
      <3>4. CASE f[k] <= f[m]
        <4>1. ASSUME NEW j \in upTo(k) PROVE f[k] <= f[j]
          <5>1. CASE j = k
            BY <3>2, <5>1
          <5>2. CASE j # k
            <6>1. f[m] <= f[j] /\ f[j] \in Int
              BY <2>1, <2>3, <3>1, <3>2, <5>2
            <6> QED
              BY <3>2, <3>4, <6>1
          <5> QED
            BY <5>1, <5>2
        <4> QED
          BY <2>4, <2>5, <2>8, <4>1
      <3> QED
        BY <3>2, <3>3, <3>4
    <2> QED
      BY <2>6, <2>7, <2>8
  <1> HIDE DEF P
  <1>3. N \in P
    BY <1>1, <1>2, UpToAll
  <1>4. upTo(N) = K
    <2>1. \A j \in K : j <= N
      OBVIOUS
    <2> QED
      BY <2>1
  <1> HIDE DEF upTo
  <1>5. K = {} \/ \E m \in K : \A j \in K : f[m] <= f[j]
    BY <1>3, <1>4 DEF P
  <1> QED
    BY <1>5

\* A run starts when the first of its instances is due.
LEMMA StartRuns ==
  ASSUME RunInv, Start
  PROVE  /\ phase' = "run" /\ RunTyped' /\ Running'
         /\ UNCHANGED <<provider, table, next, globals, values, shown, inits, readies>>
  <1>1. /\ phase = "ready" /\ RunTyped /\ TableRead /\ TableTyped /\ WellFormed /\ InTable # {}
        /\ at = [k \in Tokens |-> "absent"]
        /\ UNCHANGED <<provider, table, next, globals, values, shown, inits, readies, at, due, stamp, given>>
    BY DEF Start, RunInv, TableRead, TableTyped
  <1>2. PICK s \in Scenarios :
          /\ scen' = s
          /\ phase' = IF s.fails THEN "failed" ELSE "run"
          /\ IF s.fails THEN UNCHANGED <<time, coming>>
             ELSE /\ time' = EarliestInstantiationTime(s)
                  /\ coming' = [i \in Instances |-> IF i \in InTable THEN KnownTime(s, i) ELSE Undefined]
    BY DEF Start
  <1>3. Sound(s)
    BY <1>1, StartsSound
  <1>4. /\ phase' = "run" /\ time' = EarliestInstantiationTime(s)
        /\ coming' = [i \in Instances |-> IF i \in InTable THEN KnownTime(s, i) ELSE Undefined]
    BY <1>2, <1>3 DEF Sound
  <1>5. UNCHANGED <<provider, table, values, shown, inits>>
    BY <1>1
  <1>6. \A i \in InTable :
          /\ i \in Instances /\ KnownTime(s, i) \in Int /\ ProcessReadyTime(s, i) \in Int
          /\ ProcessReadyTime(s, i) >= KnownTime(s, i)
          /\ provider = "stochastic" => KnownTime(s, i) >= 0
          /\ provider \in {"static", "expected"} => KnownTime(s, i) = Lowest
    BY <1>1, <1>3, TimesTyped
  <1>7. PICK j \in InTable : time' = ProcessReadyTime(s, j)
    <2> DEFINE T == {ProcessReadyTime(s, i) : i \in InTable}
    <2>1. PICK N \in Nat : N = Len(table) /\ DOMAIN table = 1..N
      BY <1>1, RowNumbers
    <2> DEFINE K == {k \in 1..N : table[k].inst \in InTable}
               f == [k \in K |-> ProcessReadyTime(s, table[k].inst)]
    <2>2. \A i \in InTable : \E k \in K : table[k].inst = i
      BY <2>1 DEF InTable
    <2>3. K \in SUBSET (1..N) /\ K # {}
      BY <1>1, <2>2
    <2>4. f \in [K -> Int]
      BY <1>6
    <2>5. \A k \in K : f[k] = ProcessReadyTime(s, table[k].inst) /\ table[k].inst \in InTable
      OBVIOUS
    <2> HIDE DEF f, K
    <2>6. PICK m \in K : \A k \in K : f[m] <= f[k]
      BY <2>3, <2>4, LeastNumber
    <2>7. \A i \in InTable : f[m] <= ProcessReadyTime(s, i)
      BY <2>2, <2>5, <2>6
    <2>8. f[m] \in T /\ \A x \in T : f[m] <= x
      BY <2>5, <2>7
    <2>9. Min(T) \in T
      BY <2>8 DEF Min
    <2> QED
      BY <1>4, <2>9 DEF EarliestInstantiationTime
  <1>8. time' \in Int
    BY <1>6, <1>7
  <1>9. Timed'
    <2>1. provider \in {"static", "expected"} => time' >= Lowest
      BY <1>6, <1>7, ScenarioAssumption
    <2>2. provider = "stochastic" => time' >= 0
      BY <1>6, <1>7
    <2> QED
      BY <1>1, <2>1, <2>2 DEF Timed
  <1>10. coming' \in [Instances -> Numbers]
    BY <1>4, <1>6 DEF Numbers
  <1>11. RunTyped'
    BY <1>1, <1>8, <1>10 DEF RunTyped
  <1>12. Sound(scen)'
    <2>1. Sound(s)' = Sound(s)
      BY <1>5, SameScenario
    <2> QED
      BY <1>2, <1>3, <2>1
  <1>13. \A i \in Instances, n \in Nodes : at'[<<i, n>>] = "absent"
    BY <1>1 DEF Tokens
  <1>14. Arrivals'
    <2>1. \A i \in InTable : i \in Instances /\ Process(i) \in Nodes
      BY <1>1, ProcessTyped
    <2>2. InTable' = InTable /\ \A i : KnownTime(scen, i)' = KnownTime(s, i) /\ Process(i)' = Process(i)
      BY <1>2, <1>5, SameScenario
    <2>3. \A i \in InTable : Absent(i)'
      BY <1>13, <2>1, <2>2 DEF Absent, ProcessToken
    <2> QED
      BY <1>4, <2>1, <2>2, <2>3 DEF Arrivals
  <1>15. Nested' /\ Awaited'
    BY <1>13 DEF Nested, Awaited
  <1>16. \A i \in Instances, n \in Nodes : ~Started(i, n)'
    BY <1>13 DEF Started
  <1>17. \A k \in 1..Len(inits) : inits[k].inst \in Instances /\ inits[k].node \in Nodes
    BY <1>1, InitializationTyped DEF TableTyped
  <1>18. Shown' /\ Given' /\ Stamped'
    BY <1>1, <1>16, <1>17 DEF Shown, Given, Stamped
  <1> QED
    BY <1>1, <1>4, <1>9, <1>11, <1>12, <1>14, <1>15, <1>18 DEF Running
-----------------------------------------------------------------------------
\* Nothing has been read and nothing is under way at first.
LEMMA InitRuns ==
  ASSUME Init
  PROVE  RunInv
  <1>1. TableRead /\ phase = "parse"
    BY TableInitRead DEF Init, TableInit
  <1>2. [a \in Attributes |-> Undefined] \in Givens
    BY DEF Givens, Numbers
  <1>3. RunTyped
    BY <1>2, ScenarioAssumption DEF Init, RunTyped, Numbers
  <1> QED
    BY <1>1, <1>3 DEF Init, RunInv

\* Nothing is under way before the table has been read.
LEMMA ReadingRuns ==
  ASSUME RunInv, TableNext, UNCHANGED runVars
  PROVE  RunInv'
  <1>1. TableRead'
    BY TableNextRead DEF RunInv
  <1>2. phase' \notin {"run", "failed"}
    BY DEF RunInv, TableNext, Parse, ReadRow, RefuseRow, FinishReading
  <1>3. phase # "run"
    BY DEF TableNext, Parse, ReadRow, RefuseRow, FinishReading
  <1>4. RunTyped' /\ at' = at
    BY DEF RunInv, RunTyped, runVars
  <1> QED
    BY <1>1, <1>2, <1>3, <1>4 DEF RunInv

\* Where nothing changes.
LEMMA StutterRuns ==
  ASSUME RunInv, UNCHANGED vars
  PROVE  RunInv'
  <1>1. UNCHANGED <<provider, table, phase, next, globals, values, shown, inits, readies, ends,
                    scen, time, coming, at, due, stamp, given>>
    BY DEF vars, tableVars, runVars
  <1>2. TableRead'
    BY <1>1, PhaseRead DEF RunInv
  <1>3. RunTyped'
    BY <1>1 DEF RunInv, RunTyped
  <1>4. ASSUME phase = "run" PROVE Running'
    <2>1. Running /\ TableTyped /\ WellFormed
      BY <1>4 DEF RunInv, TableRead, TableTyped
    <2>2. UNCHANGED <<provider, table, values, shown, inits>>
      BY <1>1
    <2>3. Sound(scen)' /\ Timed'
      BY <1>1, <2>1, <2>2, SameScenario DEF Running, Timed
    <2>4. \A i, n : Started(i, n)' = Started(i, n)
      BY <1>1 DEF Started
    <2>5. Shown' /\ Given' /\ Stamped'
      <3>1. UNCHANGED <<tableVars, scen, time, given>>
        BY <1>1 DEF tableVars
      <3> QED
        BY <1>1, <1>4, <2>4, <3>1, NoneBegins
    <2>6. \A i : Absent(i)' = Absent(i)
      BY <1>1, <2>2, SameScenario DEF Absent, ProcessToken
    <2>7. Arrivals'
      BY <1>1, <2>1, <2>2, <2>6, SameScenario DEF Running, Arrivals
    <2>8. Nested'
      BY <1>1, <2>1, <2>2, <2>4, SameScenario DEF Running, Nested
    <2>9. Awaited'
      <3>1. \A i : ProcessReadyTime(scen, i)' = ProcessReadyTime(scen, i)
        BY <1>1, <2>2, SameScenario
      <3> QED
        BY <1>1, <2>1, <3>1 DEF Running, Awaited
    <2> QED
      BY <2>3, <2>5, <2>7, <2>8, <2>9 DEF Running
  <1> QED
    BY <1>1, <1>2, <1>3, <1>4 DEF RunInv

\* The actions of a run leave the table as it was read.
LEMMA RunsOn ==
  ASSUME RunInv, phase = "run", UNCHANGED tableVars, RunTyped' /\ Running'
  PROVE  RunInv'
  <1>1. UNCHANGED <<provider, table, phase, next, globals, values, shown, inits, readies>>
    BY DEF tableVars
  <1>2. TableRead'
    BY <1>1, PhaseRead DEF RunInv
  <1> QED
    BY <1>1, <1>2 DEF RunInv

\* The invariant of a run is inductive.
LEMMA NextRuns ==
  ASSUME RunInv, [Next]_vars
  PROVE  RunInv'
  <1>1. CASE UNCHANGED vars
    BY <1>1, StutterRuns
  <1>2. CASE TableNext /\ UNCHANGED runVars
    BY <1>2, ReadingRuns
  <1>3. CASE Start
    <2>1. /\ phase' = "run" /\ RunTyped' /\ Running' /\ phase = "ready"
          /\ UNCHANGED <<provider, table, next, globals, values, shown, inits, readies>>
      BY <1>3, StartRuns DEF Start
    <2>2. TableRead'
      BY <2>1, PhaseRead DEF RunInv
    <2> QED
      BY <2>1, <2>2 DEF RunInv
  <1>4. CASE Fork
    <2>1. /\ phase' = "run" /\ RunTyped' /\ Running' /\ phase = "run"
          /\ UNCHANGED <<provider, table, next, globals, values, shown, inits, readies>>
      BY <1>4, ForkRuns DEF Fork
    <2>2. TableRead'
      BY <2>1, PhaseRead DEF RunInv
    <2> QED
      BY <2>1, <2>2 DEF RunInv
  <1>5. CASE ClockTick
    <2>1. phase = "run" /\ UNCHANGED tableVars
      BY <1>5 DEF ClockTick
    <2> QED
      BY <1>5, <2>1, ClockTickRuns, RunsOn
  <1>6. ASSUME NEW i \in Instances, Instantiate(i) PROVE RunInv'
    <2>1. phase = "run" /\ UNCHANGED tableVars
      BY <1>6 DEF Instantiate
    <2> QED
      BY <1>6, <2>1, InstantiateRuns, RunsOn
  <1>7. ASSUME NEW i \in Instances, NEW n \in Nodes, Arrive(i, n) PROVE RunInv'
    <2>1. phase = "run" /\ UNCHANGED tableVars
      BY <1>7 DEF Arrive
    <2> QED
      BY <1>7, <2>1, ArriveRuns, RunsOn
  <1>8. ASSUME NEW i \in Instances, NEW n \in Nodes, BecomeReady(i, n) PROVE RunInv'
    <2>1. phase = "run" /\ UNCHANGED tableVars
      BY <1>8 DEF BecomeReady
    <2> QED
      BY <1>8, <2>1, BecomeReadyRuns, RunsOn
  <1>9. ASSUME NEW i \in Instances, NEW n \in Nodes, Enter(i, n) PROVE RunInv'
    <2>1. phase = "run" /\ UNCHANGED tableVars
      BY <1>9 DEF Enter
    <2> QED
      BY <1>9, <2>1, EnterRuns, RunsOn
  <1>10. ASSUME NEW i \in Instances, NEW n \in Nodes, Complete(i, n) PROVE RunInv'
    <2>1. phase = "run" /\ UNCHANGED tableVars
      BY <1>10 DEF Complete
    <2> QED
      BY <1>10, <2>1, CompleteRuns, RunsOn
  <1> QED
    BY <1>1, <1>2, <1>3, <1>4, <1>5, <1>6, <1>7, <1>8, <1>9, <1>10 DEF Next

\* The invariant of reading a table, running its scenario and forking the run: it holds for
\* all models, tables, draws and chains of forks.
THEOREM RunInvariant ==
  Spec => []RunInv
  <1>1. Init => RunInv
    BY InitRuns
  <1>2. RunInv /\ [Next]_vars => RunInv'
    BY NextRuns
  <1> QED
    BY <1>1, <1>2, PTL DEF Spec

\* A table that is not refused can be sampled whatever is drawn, and every instance in it
\* is held by the state or else still to come, at the time it becomes known, however often
\* the run is forked: InstancesExact, for all tables.
THEOREM InstancesComeOnce ==
  Spec => []InstancesExact
  <1>1. RunInv => InstancesExact
    <2> SUFFICES ASSUME RunInv, phase = "run", NEW i \in InTable
                 PROVE  (at[ProcessToken(i)] = "absent") = (coming[i] # Undefined)
      BY DEF InstancesExact, RunInv
    <2>1. KnownTime(scen, i) \in Int /\ Undefined \notin Int
      BY TimesTyped, TableAssumption DEF RunInv, Running
    <2>2. IF at[ProcessToken(i)] = "absent" THEN coming[i] = KnownTime(scen, i) ELSE coming[i] = Undefined
      BY DEF RunInv, Running, Arrivals, Absent
    <2> QED
      BY <2>1, <2>2
  <1> QED
    BY <1>1, RunInvariant, PTL

\* What a run has disclosed stays as it is in its forks, and nothing else counts as
\* disclosed in them: ForkKeepsThePast, for all tables, draws and chains of forks.
THEOREM ForksKeepThePast ==
  Spec => ForkKeepsThePast
  <1> DEFINE Keeps == phase = "run" /\ phase' = "run" =>
               \A k \in DOMAIN inits :
                 IF RowOf(k) <= time
                   THEN RowOf(k)' = RowOf(k) /\ (Decides(k) => SampledBy(k)' = SampledBy(k))
                   ELSE RowOf(k)' > time
  <1>1. RunInv /\ [Next]_vars => [Keeps]_vars
    <2> SUFFICES ASSUME RunInv, Next, phase = "run", NEW k \in DOMAIN inits
                 PROVE  IF RowOf(k) <= time
                          THEN RowOf(k)' = RowOf(k) /\ (Decides(k) => SampledBy(k)' = SampledBy(k))
                          ELSE RowOf(k)' > time
      OBVIOUS
    <2>1. k \in 1..Len(inits) /\ Sound(scen) /\ time \in Int
      BY SequenceStarts DEF RunInv, Running, RunTyped, TableRead, TableTyped
    <2>2. CASE Fork
      <3>1. KeepsThePast(scen') /\ UNCHANGED inits
        BY <2>2, ForkRuns
      <3> QED
        BY <2>1, <3>1 DEF KeepsThePast, RowOf, SampledBy
    <2>3. CASE UNCHANGED <<scen, inits>>
      <3>1. scen.rows[k] \in Int
        BY <2>1, RowsTyped
      <3>2. RowOf(k)' = RowOf(k) /\ SampledBy(k)' = SampledBy(k)
        BY <2>3 DEF RowOf, SampledBy
      <3>3. RowOf(k) \in Int
        BY <3>1 DEF RowOf
      <3>4. RowOf(k) <= time \/ RowOf(k) > time
        BY <2>1, <3>3
      <3> QED
        BY <3>2, <3>4
    <2>4. ~TableNext /\ ~Start
      BY DEF TableNext, Parse, ReadRow, RefuseRow, FinishReading, Start
    <2>5. CASE ClockTick
      BY <2>3, <2>5 DEF ClockTick, tableVars
    <2>6. CASE \E i \in Instances : Instantiate(i)
      BY <2>3, <2>6 DEF Instantiate, tableVars
    <2>7. ASSUME NEW i \in Instances, NEW n \in Nodes,
                 Arrive(i, n) \/ BecomeReady(i, n) \/ Enter(i, n) \/ Complete(i, n)
          PROVE  UNCHANGED <<scen, inits>>
      <3>1. CASE Arrive(i, n)
        BY <3>1 DEF Arrive, tableVars
      <3>2. CASE BecomeReady(i, n)
        BY <3>2 DEF BecomeReady, tableVars
      <3>3. CASE Enter(i, n)
        BY <3>3 DEF Enter, tableVars
      <3>4. CASE Complete(i, n)
        BY <3>4 DEF Complete, tableVars
      <3> QED
        BY <2>7, <3>1, <3>2, <3>3, <3>4
    <2> QED
      BY <2>2, <2>3, <2>4, <2>5, <2>6, <2>7 DEF Next
  <1> QED
    BY <1>1, RunInvariant, PTL DEF Spec, ForkKeepsThePast

\* Where a node has begun, the scopes around it have, up to the process of an instance.
LEMMA StartedAround ==
  ASSUME Nested, NEW i \in Instances, NEW n \in Nodes, Started(i, n)
  PROVE  i \in InTable /\ \A m \in Upwards[n] : Started(i, m)
  <1>1. \A m \in Nodes : Started(i, m) => IF Parent[m] = "" THEN i \in InTable ELSE Started(i, Parent[m])
    BY DEF Nested, Started
  <1>2. \A m \in Nodes : Parent[m] # "" => Parent[m] \in Nodes
    BY ModelAssumption
  <1>3. i \in InTable
    <2> DEFINE S == {m \in Nodes : Started(i, m)}
    <2>1. PICK m \in S : Parent[m] \notin S
      <3>1. S \in SUBSET Nodes /\ S # {}
        OBVIOUS
      <3> HIDE DEF S
      <3> QED
        BY <3>1, ScopesNest
    <2> QED
      BY <1>1, <1>2, <2>1
  <1>4. \A m \in Upwards[n] : Started(i, m)
    <2> DEFINE S == {m \in Nodes : Started(i, m) /\ \E x \in Upwards[m] : ~Started(i, x)}
    <2> SUFFICES ASSUME S # {} PROVE FALSE
      OBVIOUS
    <2>1. PICK m \in S : Parent[m] \notin S
      <3>1. S \in SUBSET Nodes
        OBVIOUS
      <3> HIDE DEF S
      <3> QED
        BY <3>1, ScopesNest
    <2>2. Started(i, m) /\ Upwards[m] = {m} \union Upwards[Parent[m]] /\ Upwards[""] = {}
      BY UpwardsFrom
    <2>3. CASE Parent[m] = ""
      BY <2>2, <2>3
    <2>4. CASE Parent[m] # ""
      <3>1. Started(i, Parent[m]) /\ Parent[m] \in Nodes
        BY <1>1, <1>2, <2>2, <2>4
      <3>2. \A x \in Upwards[Parent[m]] : Started(i, x)
        BY <2>1, <3>1
      <3> QED
        BY <2>2, <3>2
    <2> QED
      BY <2>3, <2>4
  <1> QED
    BY <1>3, <1>4

\* What a node has been given when it became ready is disclosed and stays the value of
\* the scenario the run is on, whatever is drawn and however often the run is forked:
\* GivenAgrees, for all tables, with what it exempts: rows naming a node within the scope
\* that declares the attribute, and values the node or its ready expressions determine.
THEOREM GivenStays ==
  Spec => []GivenAgrees
  <1>1. RunInv => GivenAgrees
    <2> SUFFICES ASSUME RunInv, phase = "run", NEW k \in DOMAIN inits, NEW n \in Nodes,
                        at[<<inits[k].inst, n>>] \in {"ready", "busy", "done"}, inits[k].node \in Upwards[n]
                 PROVE  LET i == inits[k].inst IN
                        /\ RowOf(k) <= time
                        /\ inits[k].node = n /\ Decides(k) /\ inits[k].attr \in ToSet(Own[n]) \ {Timestamp(n)} =>
                             \/ given[<<i, n>>][inits[k].attr] = SampledBy(k)
                             \/ \E j \in DOMAIN readies[i][n] : readies[i][n][j].target = inits[k].attr
                        /\ n = Process(i) /\ GivenAt(i, Timestamp(n), n) =>
                             stamp[<<i, n>>] >= scen.values[i][Timestamp(n)]
      BY DEF GivenAgrees
    <2> DEFINE i == inits[k].inst
    <2>1. k \in 1..Len(inits) /\ i \in Instances /\ Running /\ TableTyped /\ WellFormed
      <3>1. inits \in Seq(Initializations) /\ Running /\ TableTyped /\ WellFormed
        BY DEF RunInv, TableRead, TableTyped
      <3>2. k \in 1..Len(inits)
        BY <3>1, SequenceStarts
      <3> QED
        BY <3>1, <3>2, InitializationTyped
    <2>2. Started(i, n)
      BY DEF Started
    <2>3. i \in InTable /\ Started(i, inits[k].node)
      BY <2>1, <2>2, StartedAround DEF Running
    <2>4. RowOf(k) <= time
      BY <2>1, <2>3 DEF Running, Shown, RowOf
    <2>5. inits[k].node = n /\ Decides(k) /\ inits[k].attr \in ToSet(Own[n]) \ {Timestamp(n)} =>
            \/ given[<<i, n>>][inits[k].attr] = SampledBy(k)
            \/ \E j \in DOMAIN readies[i][n] : readies[i][n][j].target = inits[k].attr
      BY <2>1, <2>2 DEF Running, Given, SampledBy
    <2>6. n = Process(i) /\ GivenAt(i, Timestamp(n), n) => stamp[<<i, n>>] >= scen.values[i][Timestamp(n)]
      <3>1. Parent[Process(i)] = ""
        BY <2>1, <2>3, ProcessTyped
      <3> QED
        BY <2>1, <2>2, <3>1 DEF Running, Stamped
    <2> QED
      BY <2>4, <2>5, <2>6
  <1> QED
    BY <1>1, RunInvariant, PTL
=============================================================================
