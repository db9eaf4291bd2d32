------------------------- MODULE IterationTheorems -------------------------
(***************************************************************************)
(* What is computed step by step: what every step keeps holds in the end,  *)
(* and a function defined from each number to the next exists.             *)
(***************************************************************************)
EXTENDS CommandQueue, SequenceTheorems, WellFoundedInduction, TLAPS

-----------------------------------------------------------------------------
\* A set of numbers that is not empty has a least one.
LEMMA Least ==
  ASSUME NEW S \in SUBSET Nat, S # {}
  PROVE  \E k \in S : \A j \in S : k <= j
  <1> DEFINE R == {ss \in Nat \X Nat : ss[1] < ss[2]}
  <1>1. IsWellFoundedOn(R, Nat)
    BY NatLessThanWellFounded DEF OpToRel
  <1>2. \A j, m \in Nat : j < m => <<j, m>> \in R
    OBVIOUS
  <1> HIDE DEF R
  <1>3. PICK k \in S : \A j \in S : ~(<<j, k>> \in R)
    BY <1>1, WFMin
  <1>4. \A j \in S : k <= j
    <2> TAKE j \in S
    <2>1. j \in Nat /\ k \in Nat
      OBVIOUS
    <2>2. ~(j < k)
      BY <1>2, <1>3, <2>1
    <2> QED
      BY <2>1, <2>2
  <1> QED
    BY <1>4

\* A set of numbers that holds the first, and the next of each it holds, holds all.
LEMMA UpToAll ==
  ASSUME NEW N \in Nat, NEW P, 0 \in P,
         \A k \in 1..N : k - 1 \in P => k \in P
  PROVE  0..N \subseteq P
  <1> DEFINE S == {k \in 0..N : k \notin P}
  <1> SUFFICES ASSUME S # {} PROVE FALSE
    OBVIOUS
  <1>1. PICK k \in S : \A j \in S : k <= j
    <2>1. S \in SUBSET Nat
      OBVIOUS
    <2> HIDE DEF S
    <2> QED
      BY <2>1, Least
  <1>2. k \in 1..N /\ k - 1 \notin P
    OBVIOUS
  <1>3. k - 1 \in S
    BY <1>2
  <1> QED
    BY <1>1, <1>3

\* The steps from one number to the next, and the functions built by taking them.
Steps(N, S) == [1..N -> [S -> S]]
Built(N, S, base, step) ==
  {f \in [0..N -> S] : f[0] = base /\ \A k \in 1..N : f[k] = step[k][f[k - 1]]}

\* Steps can be taken one after the other.
LEMMA Iterated ==
  ASSUME NEW N \in Nat, NEW S, NEW base \in S, NEW step \in Steps(N, S)
  PROVE  Built(N, S, base, step) # {}
  <1> USE DEF Steps
  <1> DEFINE Upto(n) == {f \in [0..n -> S] : f[0] = base /\ \A k \in 1..n : f[k] = step[k][f[k - 1]]}
             P == {n \in 0..N : Upto(n) # {}}
  <1>1. 0 \in P
    <2>1. [k \in 0..0 |-> base] \in Upto(0)
      OBVIOUS
    <2> QED
      BY <2>1
  <1>2. \A n \in 1..N : n - 1 \in P => n \in P
    <2> TAKE n \in 1..N
    <2> HAVE n - 1 \in P
    <2>1. PICK f \in [0..(n - 1) -> S] : f[0] = base /\ \A k \in 1..(n - 1) : f[k] = step[k][f[k - 1]]
      OBVIOUS
    <2> DEFINE g == [k \in 0..n |-> IF k = n THEN step[n][f[n - 1]] ELSE f[k]]
    <2>2. step[n][f[n - 1]] \in S
      BY <2>1
    <2>3. g \in [0..n -> S]
      BY <2>1, <2>2
    <2>4. g[0] = base
      BY <2>1
    <2>5. ASSUME NEW k \in 1..n PROVE g[k] = step[k][g[k - 1]]
      <3>1. g[k - 1] = f[k - 1]
        OBVIOUS
      <3>2. CASE k = n
        <4>1. g[n] = step[n][f[n - 1]]
          OBVIOUS
        <4> HIDE DEF g
        <4> QED
          BY <3>1, <3>2, <4>1
      <3>3. CASE k # n
        <4>1. k \in 1..(n - 1)
          BY <3>3
        <4>2. g[k] = f[k]
          BY <3>3
        <4> HIDE DEF g
        <4> QED
          BY <2>1, <3>1, <4>1, <4>2
      <3> QED
        BY <3>2, <3>3
    <2> HIDE DEF g
    <2>6. g \in Upto(n)
      BY <2>3, <2>4, <2>5
    <2>7. n \in 0..N
      OBVIOUS
    <2> HIDE DEF Upto
    <2>8. Upto(n) # {}
      BY <2>6
    <2> QED
      BY <2>7, <2>8
  <1> HIDE DEF P
  <1>3. 0..N \subseteq P
    BY <1>1, <1>2, UpToAll
  <1>4. N \in P
    BY <1>3
  <1> QED
    BY <1>4 DEF P, Built

-----------------------------------------------------------------------------
\* What is kept of a queue is what is at the increasing places kept.
Selected(q, places, n, at) ==
  /\ at \in [1..n -> DOMAIN q \intersect places]
  /\ Kept(q, places) = [i \in 1..n |-> q[at[i]]]
  /\ \A i, j \in 1..n : i < j => at[i] < at[j]
  /\ \A k \in DOMAIN q \intersect places : \E i \in 1..n : at[i] = k

\* The elements kept of a queue are in the order they had.
LEMMA KeptPlaces ==
  ASSUME NEW X, NEW q \in Seq(X), NEW places
  PROVE  \E n \in Nat : \E at : Selected(q, places, n, at)
  <1> DEFINE N == Len(q)
             next(f) == [i \in 0..N |->
               IF i = 0 THEN <<>> ELSE IF i \in places THEN Append(f[i - 1], q[i]) ELSE f[i - 1]]
             kept == CHOOSE f : f = next(f)
  <1>1. N \in Nat /\ DOMAIN q = 1..N /\ \A i \in 1..N : q[i] \in X
    OBVIOUS
  <1>2. kept = next(kept)
    <2> DEFINE step == [k \in 1..N |-> [s \in Seq(X) |-> IF k \in places THEN Append(s, q[k]) ELSE s]]
    <2>1. step \in Steps(N, Seq(X)) /\ <<>> \in Seq(X)
      BY <1>1 DEF Steps
    <2>2. \A k \in 1..N : \A s \in Seq(X) : step[k][s] = IF k \in places THEN Append(s, q[k]) ELSE s
      OBVIOUS
    <2> HIDE DEF step, N
    <2>3. PICK f \in Built(N, Seq(X), <<>>, step) : TRUE
      BY <1>1, <2>1, Iterated
    <2>4. /\ f \in [0..N -> Seq(X)] /\ f[0] = <<>>
          /\ \A k \in 1..N : f[k] = step[k][f[k - 1]]
      BY <2>3 DEF Built
    <2>5. \A k \in 1..N : k - 1 \in 0..N /\ f[k - 1] \in Seq(X)
      BY <1>1, <2>4
    <2>6. \A k \in 1..N : f[k] = IF k \in places THEN Append(f[k - 1], q[k]) ELSE f[k - 1]
      BY <2>2, <2>4, <2>5
    <2>7. \A k \in 0..N : k # 0 => k \in 1..N
      BY <1>1
    <2>8. f = next(f)
      BY <2>4, <2>6, <2>7
    <2> HIDE DEF next
    <2> QED
      BY <2>8
  <1> HIDE DEF kept
  <1>3. kept[0] = <<>> /\ \A k \in 1..N : kept[k] = IF k \in places THEN Append(kept[k - 1], q[k]) ELSE kept[k - 1]
    <2>1. next(kept)[0] = <<>> /\ \A k \in 1..N : next(kept)[k] = IF k \in places THEN Append(kept[k - 1], q[k]) ELSE kept[k - 1]
      BY <1>1
    <2> QED
      BY <1>2, <2>1
  <1> HIDE DEF next, N
  <1> DEFINE Picked(k, n, at) ==
               /\ at \in [1..n -> 1..k \intersect places]
               /\ kept[k] = [i \in 1..n |-> q[at[i]]]
               /\ \A i, j \in 1..n : i < j => at[i] < at[j]
               /\ \A p \in 1..k \intersect places : \E i \in 1..n : at[i] = p
             P == {k \in 0..N : \E n \in Nat : \E at : Picked(k, n, at)}
  <1> HIDE DEF Picked
  <1>4. 0 \in P
    <2>1. <<>> \in [1..0 -> 1..0 \intersect places] /\ <<>> = [i \in 1..0 |-> q[<<>>[i]]]
      OBVIOUS
    <2>2. Picked(0, 0, <<>>)
      BY <1>3, <2>1 DEF Picked
    <2> QED
      BY <1>1, <2>2
  <1>5. ASSUME NEW k \in 1..N, k - 1 \in P PROVE k \in P
    <2>0. PICK n \in Nat : \E at : Picked(k - 1, n, at)
      BY <1>5
    <2>1. PICK at : Picked(k - 1, n, at)
      BY <2>0
    <2>2. k \in Nat /\ k >= 1 /\ q[k] \in X /\ k \in 0..N
      BY <1>1
    <2>3. CASE k \notin places
      <3>1. 1..k \intersect places = 1..(k - 1) \intersect places
        BY <2>2, <2>3
      <3>2. Picked(k, n, at)
        BY <1>3, <2>1, <2>3, <3>1 DEF Picked
      <3> QED
        BY <2>2, <3>2
    <2>4. CASE k \in places
      <3> DEFINE more == [i \in 1..(n + 1) |-> IF i = n + 1 THEN k ELSE at[i]]
      <3>1. more[n + 1] = k /\ \A i \in 1..n : more[i] = at[i] /\ at[i] \in 1..(k - 1) \intersect places
        BY <2>1 DEF Picked
      <3>2. \A i \in 1..(n + 1) : i # n + 1 => i \in 1..n
        OBVIOUS
      <3>3. 1..(k - 1) \subseteq 1..k /\ k \in 1..k
        BY <2>2
      <3>4. more \in [1..(n + 1) -> 1..k \intersect places]
        BY <2>4, <3>1, <3>2, <3>3
      <3>5. ASSUME NEW i \in 1..(n + 1), NEW j \in 1..(n + 1), i < j PROVE more[i] < more[j]
        <4>1. i \in 1..n
          BY <3>5
        <4>2. CASE j = n + 1
          <5>1. more[i] \in 1..(k - 1) /\ more[j] = k
            BY <3>1, <4>1, <4>2
          <5> HIDE DEF more
          <5> QED
            BY <2>2, <5>1
        <4>3. CASE j # n + 1
          <5>1. j \in 1..n
            BY <4>3
          <5>2. at[i] < at[j]
            BY <2>1, <3>5, <4>1, <5>1 DEF Picked
          <5> QED
            BY <3>1, <4>1, <5>1, <5>2
        <4> QED
          BY <4>2, <4>3
      <3>6. ASSUME NEW p \in 1..k \intersect places PROVE \E i \in 1..(n + 1) : more[i] = p
        <4>1. CASE p = k
          BY <3>1, <4>1
        <4>2. CASE p # k
          <5>1. p \in 1..(k - 1) \intersect places
            BY <2>2, <4>2
          <5>2. PICK i \in 1..n : at[i] = p
            BY <2>1, <5>1 DEF Picked
          <5>3. more[i] = p /\ i \in 1..(n + 1)
            BY <3>1, <5>2
          <5> QED
            BY <5>3
        <4> QED
          BY <4>1, <4>2
      <3>7. kept[k] = [i \in 1..(n + 1) |-> q[more[i]]]
        <4>1. kept[k - 1] \in Seq(X) /\ Len(kept[k - 1]) = n /\ \A i \in 1..n : kept[k - 1][i] = q[at[i]]
          <5>1. \A i \in 1..n : q[at[i]] \in X
            BY <1>1, <2>1 DEF Picked
          <5> QED
            BY <2>1, <5>1 DEF Picked
        <4>2. kept[k] = Append(kept[k - 1], q[k])
          BY <1>3, <2>4
        <4>3. Append(kept[k - 1], q[k]) = [i \in 1..(n + 1) |-> IF i = n + 1 THEN q[k] ELSE kept[k - 1][i]]
          BY <4>1
        <4>4. \A i \in 1..(n + 1) : (IF i = n + 1 THEN q[k] ELSE kept[k - 1][i]) = q[more[i]]
          BY <3>1, <3>2, <4>1
        <4> QED
          BY <4>2, <4>3, <4>4
      <3> HIDE DEF more
      <3>8. Picked(k, n + 1, more)
        BY <3>4, <3>5, <3>6, <3>7 DEF Picked
      <3> QED
        BY <2>2, <3>8
    <2> QED
      BY <2>3, <2>4
  <1> HIDE DEF P
  <1>6. 0..N \subseteq P
    BY <1>1, <1>4, <1>5, UpToAll
  <1>7. \E n \in Nat : \E at : Picked(N, n, at)
    BY <1>1, <1>6 DEF P
  <1>8. PICK n \in Nat : \E at : Picked(N, n, at)
    BY <1>7
  <1>9. PICK at : Picked(N, n, at)
    BY <1>8
  <1>10. Kept(q, places) = kept[N]
    BY DEF Kept, kept, next, N
  <1>11. Selected(q, places, n, at)
    BY <1>1, <1>9, <1>10 DEF Picked, Selected
  <1> QED
    BY <1>11

\* An element is at a place of a queue before another.
Before(q, c, d) == \E i, j \in DOMAIN q : i < j /\ q[i] = c /\ q[j] = d

IsQueue(q) == q \in Seq(Range(q))

\* What is kept of a queue is in it, in the same order.
LEMMA KeptOrder ==
  ASSUME NEW q, IsQueue(q), NEW keep, NEW places,
         \A i : i \in places <=> i \in DOMAIN q /\ q[i] \in keep,
         NEW r, r = Kept(q, places)
  PROVE  /\ IsQueue(r)
         /\ Range(r) = Range(q) \intersect keep
         /\ \A c, d : Before(r, c, d) => Before(q, c, d) /\ c \in Range(r) /\ d \in Range(r)
  <1> DEFINE X == Range(q)
  <1>0. q \in Seq(X)
    BY DEF IsQueue
  <1>1. PICK n \in Nat : \E at : Selected(q, places, n, at)
    BY <1>0, KeptPlaces
  <1>2. PICK at : Selected(q, places, n, at)
    BY <1>1
  <1>3. r = [i \in 1..n |-> q[at[i]]]
    BY <1>2 DEF Selected
  <1>4. \A i \in 1..n : at[i] \in DOMAIN q /\ r[i] = q[at[i]] /\ r[i] \in X \intersect keep
    BY <1>0, <1>2, <1>3 DEF Selected
  <1>5. r \in Seq(X \intersect keep) /\ DOMAIN r = 1..n
    BY <1>3, <1>4
  <1>6. Range(r) = Range(q) \intersect keep
    <2>1. ASSUME NEW c \in Range(r) PROVE c \in Range(q) \intersect keep
      BY <1>4, <1>5 DEF Range
    <2>2. ASSUME NEW c \in Range(q) \intersect keep PROVE c \in Range(r)
      <3>1. PICK k \in DOMAIN q : q[k] = c
        BY DEF Range
      <3>2. PICK i \in 1..n : at[i] = k
        BY <1>2, <3>1 DEF Selected
      <3>3. r[i] = c
        BY <1>4, <3>1, <3>2
      <3> QED
        BY <1>5, <3>3 DEF Range
    <2> QED
      BY <2>1, <2>2
  <1>7. ASSUME NEW c, NEW d, Before(r, c, d)
        PROVE  Before(q, c, d) /\ c \in Range(r) /\ d \in Range(r)
    <2>1. PICK i \in 1..n, j \in 1..n : i < j /\ r[i] = c /\ r[j] = d
      BY <1>5, <1>7 DEF Before
    <2>2. at[i] < at[j] /\ q[at[i]] = c /\ q[at[j]] = d
      BY <1>2, <1>4, <2>1 DEF Selected
    <2> QED
      BY <1>4, <1>5, <2>1, <2>2 DEF Before, Range
  <1>8. IsQueue(r)
    BY <1>5, SeqOfRange DEF IsQueue
  <1> QED
    BY <1>6, <1>7, <1>8

\* A queue without its head.
LEMMA TailOrder ==
  ASSUME NEW q, IsQueue(q), q # <<>>
  PROVE  /\ IsQueue(Tail(q)) /\ Head(q) \in Range(q)
         /\ Range(q) = {Head(q)} \union Range(Tail(q))
         /\ \A d \in Range(Tail(q)) : Before(q, Head(q), d)
         /\ \A c, d : Before(Tail(q), c, d) =>
              Before(q, c, d) /\ c \in Range(Tail(q)) /\ d \in Range(Tail(q))
  <1> DEFINE N == Len(q)
             r == Tail(q)
             X == Range(q)
  <1>0. q \in Seq(X)
    BY DEF IsQueue
  <1> HIDE DEF X
  <1>1. N \in Nat /\ N >= 1 /\ DOMAIN q = 1..N /\ Head(q) = q[1]
    BY <1>0
  <1>2. r \in Seq(X) /\ DOMAIN r = 1..(N - 1) /\ \A i \in 1..(N - 1) : r[i] = q[i + 1]
    BY <1>0
  <1> HIDE DEF N, r
  <1>3. Range(q) = {q[1]} \union Range(r)
    <2>1. ASSUME NEW c \in Range(q), c # q[1] PROVE c \in Range(r)
      <3>1. PICK i \in 1..N : q[i] = c
        BY <1>1 DEF Range
      <3>2. i # 1
        BY <2>1, <3>1
      <3>3. i - 1 \in 1..(N - 1) /\ (i - 1) + 1 = i
        BY <1>1, <3>2
      <3>4. r[i - 1] = c
        BY <1>2, <3>1, <3>3
      <3> QED
        BY <1>2, <3>3, <3>4 DEF Range
    <2>2. ASSUME NEW c \in Range(r) PROVE c \in Range(q)
      <3>1. PICK i \in 1..(N - 1) : r[i] = c
        BY <1>2 DEF Range
      <3>2. i + 1 \in 1..N /\ q[i + 1] = c
        BY <1>1, <1>2, <3>1
      <3> QED
        BY <1>1, <3>2 DEF Range
    <2>3. q[1] \in Range(q)
      BY <1>1 DEF Range
    <2> QED
      BY <2>1, <2>2, <2>3
  <1>4. ASSUME NEW d \in Range(r) PROVE Before(q, q[1], d)
    <2>1. PICK i \in 1..(N - 1) : r[i] = d
      BY <1>2 DEF Range
    <2>2. i + 1 \in 1..N /\ q[i + 1] = d /\ 1 \in 1..N /\ 1 < i + 1
      BY <1>1, <1>2, <2>1
    <2> QED
      BY <1>1, <2>2 DEF Before
  <1>5. ASSUME NEW c, NEW d, Before(r, c, d)
        PROVE  Before(q, c, d) /\ c \in Range(r) /\ d \in Range(r)
    <2>1. PICK i \in 1..(N - 1), j \in 1..(N - 1) : i < j /\ r[i] = c /\ r[j] = d
      BY <1>2, <1>5 DEF Before
    <2>2. i + 1 \in 1..N /\ j + 1 \in 1..N /\ i + 1 < j + 1 /\ q[i + 1] = c /\ q[j + 1] = d
      BY <1>1, <1>2, <2>1
    <2>3. Before(q, c, d)
      BY <1>1, <2>2 DEF Before
    <2> QED
      BY <1>2, <2>1, <2>3 DEF Range
  <1>6. IsQueue(r)
    BY <1>2, SeqOfRange DEF IsQueue
  <1> QED
    BY <1>1, <1>3, <1>4, <1>5, <1>6, RangeEquality DEF r

\* A queue behind another.
LEMMA JoinedOrder ==
  ASSUME NEW q, IsQueue(q), NEW r, IsQueue(r)
  PROVE  /\ IsQueue(q \o r)
         /\ Range(q \o r) = Range(q) \union Range(r)
         /\ \A c, d : Before(q \o r, c, d) =>
              \/ Before(q, c, d)
              \/ c \in Range(q) /\ d \in Range(r)
              \/ Before(r, c, d)
  <1> DEFINE M == Len(q)
             N == Len(r)
             b == q \o r
             X == Range(q) \union Range(r)
  <1>0. q \in Seq(X) /\ r \in Seq(X)
    <2>1. q \in Seq(Range(q)) /\ r \in Seq(Range(r))
      BY DEF IsQueue
    <2> QED
      BY <2>1, SeqMonotonic
  <1> HIDE DEF X
  <1>1. M \in Nat /\ N \in Nat /\ DOMAIN q = 1..M /\ DOMAIN r = 1..N
    BY <1>0
  <1>2. /\ b \in Seq(X) /\ DOMAIN b = 1..(M + N)
        /\ \A i \in 1..(M + N) : b[i] = IF i <= M THEN q[i] ELSE r[i - M]
    BY <1>0
  <1> HIDE DEF M, N, b
  <1>3. \A i \in 1..(M + N) :
          \/ i \in 1..M /\ b[i] = q[i]
          \/ i - M \in 1..N /\ b[i] = r[i - M] /\ i > M
    BY <1>1, <1>2
  <1>4. Range(b) = Range(q) \union Range(r)
    <2>1. ASSUME NEW c \in Range(b) PROVE c \in Range(q) \union Range(r)
      BY <1>1, <1>2, <1>3 DEF Range
    <2>2. ASSUME NEW c \in Range(q) PROVE c \in Range(b)
      <3>1. PICK i \in 1..M : q[i] = c
        BY <1>1 DEF Range
      <3>2. i \in 1..(M + N) /\ b[i] = c
        BY <1>1, <1>2, <3>1
      <3> QED
        BY <1>2, <3>2 DEF Range
    <2>3. ASSUME NEW c \in Range(r) PROVE c \in Range(b)
      <3>1. PICK i \in 1..N : r[i] = c
        BY <1>1 DEF Range
      <3>2. i + M \in 1..(M + N) /\ ~(i + M <= M) /\ (i + M) - M = i
        BY <1>1, <3>1
      <3>3. b[i + M] = c
        BY <1>2, <3>1, <3>2
      <3> QED
        BY <1>2, <3>2, <3>3 DEF Range
    <2> QED
      BY <2>1, <2>2, <2>3
  <1>5. ASSUME NEW c, NEW d, Before(b, c, d)
        PROVE  Before(q, c, d) \/ (c \in Range(q) /\ d \in Range(r)) \/ Before(r, c, d)
    <2>1. PICK i \in 1..(M + N), j \in 1..(M + N) : i < j /\ b[i] = c /\ b[j] = d
      BY <1>2, <1>5 DEF Before
    <2>2. CASE i \in 1..M /\ j \in 1..M
      <3>1. q[i] = c /\ q[j] = d
        BY <1>1, <1>3, <2>1, <2>2
      <3> QED
        BY <1>1, <2>1, <2>2, <3>1 DEF Before
    <2>3. CASE i \in 1..M /\ j \notin 1..M
      <3>1. q[i] = c /\ j - M \in 1..N /\ r[j - M] = d
        BY <1>1, <1>3, <2>1, <2>3
      <3> QED
        BY <1>1, <2>3, <3>1 DEF Range
    <2>4. CASE i \notin 1..M
      <3>1. j \notin 1..M
        BY <1>1, <2>1, <2>4
      <3>2. i - M \in 1..N /\ r[i - M] = c /\ j - M \in 1..N /\ r[j - M] = d /\ i - M < j - M
        BY <1>1, <1>3, <2>1, <2>4, <3>1
      <3> QED
        BY <1>1, <3>2 DEF Before
    <2> QED
      BY <2>2, <2>3, <2>4
  <1>6. IsQueue(b)
    BY <1>2, SeqOfRange DEF IsQueue
  <1> QED
    BY <1>4, <1>5, <1>6 DEF b

-----------------------------------------------------------------------------
\* What can be come to from an element, going on to any of some others, exists.
Reaches(S, next, f) ==
  f \in [S -> SUBSET S] /\ \A n \in S : f[n] = {n} \union UNION {f[k] : k \in next[n]}

LEMMA Reaching ==
  ASSUME NEW S, NEW next \in [S -> SUBSET S]
  PROVE  \E f : Reaches(S, next, f)
  <1> DEFINE Closed(X) == \A n \in X : next[n] \subseteq X
             f == [n \in S |-> {x \in S : \A X \in SUBSET S : n \in X /\ Closed(X) => x \in X}]
  <1>1. f \in [S -> SUBSET S]
    OBVIOUS
  <1>2. \A n \in S : n \in f[n]
    OBVIOUS
  <1>3. \A n \in S : \A k \in next[n] : f[k] \subseteq f[n]
    OBVIOUS
  <1>4. \A n \in S : Closed(f[n])
    OBVIOUS
  <1>5. \A n \in S, X \in SUBSET S : n \in X /\ Closed(X) => f[n] \subseteq X
    OBVIOUS
  <1> HIDE DEF f
  <1>6. ASSUME NEW n \in S PROVE f[n] = {n} \union UNION {f[k] : k \in next[n]}
    <2> DEFINE X == {n} \union UNION {f[k] : k \in next[n]}
    <2>1. X \in SUBSET S /\ n \in X
      BY <1>1
    <2>2. Closed(X)
      <3>1. ASSUME NEW x \in X, NEW y \in next[x] PROVE y \in X
        <4>1. CASE x = n
          <5>1. y \in S /\ y \in f[y]
            BY <1>2, <4>1
          <5> QED
            BY <4>1, <5>1
        <4>2. CASE x # n
          <5>1. PICK k \in next[n] : x \in f[k]
            BY <4>2
          <5>2. k \in S /\ y \in f[k]
            BY <1>4, <5>1
          <5> QED
            BY <5>1, <5>2
        <4> QED
          BY <4>1, <4>2
      <3> QED
        BY <3>1
    <2>3. X \subseteq f[n]
      BY <1>2, <1>3
    <2> HIDE DEF X
    <2>4. f[n] \subseteq X
      BY <1>5, <2>1, <2>2
    <2>5. f[n] = X
      BY <2>3, <2>4
    <2> QED
      BY <2>5 DEF X
  <1>7. Reaches(S, next, f)
    BY <1>1, <1>6 DEF Reaches
  <1> QED
    BY <1>7
=============================================================================
