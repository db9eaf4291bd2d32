--------------------------- MODULE EngineRunProofs ---------------------------
(***************************************************************************)
(* What is proved of the run of the engine, for any number of instances    *)
(* and activities, any data and any times.                                 *)
(***************************************************************************)
EXTENDS EngineRun, SequenceTheorems, FiniteSetTheorems, WellFoundedInduction, TLAPS

\* How far an instance is fits the token it has, and only a busy task has a
\* boundary timer armed.
PhaseFitsToken ==
  \A i \in Instances :
    /\ phase[i] \in {"declared", "created"} => token[i] = 0
    /\ phase[i] \in {"arrived", "ready", "busy"} => token[i] > 0
    /\ phase[i] # "busy" => alarm[i] = Never

\* A run not begun holds nothing, a run begun is at one of the instants, and
\* the queue of a run that is over is empty.
RunStages ==
  /\ run = "new" => /\ now = Lowest /\ queue = <<>>
                    /\ \A d \in Instants : scheduled[d] = {}
                    /\ \A i \in Instances : phase[i] = "declared"
  /\ run # "new" => now \in Instants
  /\ run = "ended" => queue = <<>>

\* No event held concerns a token yet to come: what is expired remains so.
TokensPast ==
  /\ \A k \in 1..Len(queue) : queue[k].token <= token[queue[k].instance]
  /\ \A d \in Instants : \A e \in scheduled[d] : e.token <= token[e.instance]

\* No event that is still awaited is enqueued twice.
LiveOnce ==
  \A j, k \in 1..Len(queue) :
    queue[j] = queue[k] /\ ~Expired(queue[k]) => j = k

\* What is awaited is enqueued once it is due, and in the calendar until then.
AwaitedPlaced ==
  run # "new" =>
    \A i \in Awaiting :
      IF DueTime(i) <= now
      THEN \E k \in 1..Len(queue) : queue[k] = Awaited(i)
      ELSE /\ Awaited(i) \in scheduled[DueTime(i)]
           /\ \A k \in 1..Len(queue) : queue[k] # Awaited(i)

FiniteCalendar == \A d \in Instants : IsFiniteSet(scheduled[d])

\* What the queue and the calendar hold, which the step of an instance and the
\* tick of the clock have to keep consistent.
HeldConsistently ==
  /\ TokensPast
  /\ OthersExpired
  /\ LiveOnce
  /\ AwaitedPlaced
  /\ CalendarAhead
  /\ FiniteCalendar

IInv ==
  /\ TypeOK
  /\ PhaseFitsToken
  /\ RunStages
  /\ HeldConsistently
  /\ EndedComplete

-----------------------------------------------------------------------------
\* A set of positions that is not empty has a first one.
LEMMA FirstPosition ==
  ASSUME NEW S \in SUBSET Nat, S # {}
  PROVE  \E k \in S : \A j \in S : k <= j
  <1> DEFINE R == {ss \in Nat \X Nat : ss[1] < ss[2]}
  <1>1. IsWellFoundedOn(R, Nat)
    BY NatLessThanWellFounded DEF OpToRel
  <1> HIDE DEF R
  <1>2. PICK k \in S : \A j \in S : ~(<<j, k>> \in R)
    BY <1>1, WFMin
  <1>3. \A j, m \in Nat : j < m => <<j, m>> \in R
    BY DEF R
  <1>4. \A j \in S : k <= j
    <2> TAKE j \in S
    <2>1. j \in Nat /\ k \in Nat
      OBVIOUS
    <2>2. ~(j < k)
      BY <1>2, <1>3, <2>1
    <2> QED
      BY <2>1, <2>2
  <1> QED
    BY <1>4

\* The orderings of a finite set are sequences of its elements, each once.
LEMMA OrderingIsSequence ==
  ASSUME NEW S, IsFiniteSet(S), NEW q \in Orderings(S)
  PROVE  /\ q \in Seq(S)
         /\ Len(q) \in Nat
         /\ \A e \in S : \E k \in 1..Len(q) : q[k] = e
         /\ \A k \in 1..Len(q) : q[k] \in S
         /\ \A j, k \in 1..Len(q) : q[j] = q[k] => j = k
  <1>1. Cardinality(S) \in Nat
    BY FS_CardinalityType
  <1> QED
    BY <1>1 DEF Orderings

\* What is indexed by instances is finite.
LEMMA ImageFinite ==
  ASSUME NEW T \in SUBSET Instances, NEW f \in [T -> Event]
  PROVE  IsFiniteSet({f[i] : i \in T})
  <1>1. IsFiniteSet(T)
    <2>1. IsFiniteSet(Instances)
      BY FS_Interval, RunAssumption DEF Instances
    <2> QED
      BY <2>1, FS_Subset
  <1> DEFINE S == {f[i] : i \in T}
  <1>2. f \in Surjection(T, S)
    BY DEF Surjection
  <1> HIDE DEF S
  <1>3. IsFiniteSet(S)
    BY <1>1, <1>2, FS_Surjection
  <1> QED
    BY <1>3 DEF S

\* When the environment supplies no event, all it has enqueued is expired.
LEMMA NoneLive ==
  ASSUME TypeOK, FirstLive = {}
  PROVE  \A k \in 1..Len(queue) : Expired(queue[k])
  <1> DEFINE L == {k \in 1..Len(queue) : ~Expired(queue[k])}
  <1> SUFFICES ASSUME L # {} PROVE FALSE
    OBVIOUS
  <1>1. L \in SUBSET Nat /\ Len(queue) \in Nat
    BY DEF TypeOK
  <1>2. PICK k \in L : \A j \in L : k <= j
    BY <1>1, FirstPosition
  <1>3. \A j \in 1..(k - 1) : Expired(queue[j])
    <2> TAKE j \in 1..(k - 1)
    <2>1. k \in 1..Len(queue) /\ j \in 1..Len(queue) /\ ~(k <= j)
      BY <1>1
    <2> QED
      BY <1>2, <2>1
  <1>4. k \in FirstLive
    BY <1>2, <1>3 DEF FirstLive
  <1> QED
    BY <1>4

\* What an instance awaits is an event of its own that is not expired.
AwaitedSound ==
  \A i \in Awaiting :
    /\ i \in Instances
    /\ Awaited(i) \in Event
    /\ Awaited(i).instance = i
    /\ Awaited(i).token <= token[i]
    /\ ~Expired(Awaited(i))
    /\ DueTime(i) \in Instants

LEMMA AwaitedLive == TypeOK /\ PhaseFitsToken => AwaitedSound
  <1> SUFFICES ASSUME TypeOK, PhaseFitsToken, NEW i \in Awaiting
               PROVE  /\ i \in Instances
                      /\ Awaited(i) \in Event
                      /\ Awaited(i).instance = i
                      /\ Awaited(i).token <= token[i]
                      /\ ~Expired(Awaited(i))
                      /\ DueTime(i) \in Instants
    BY DEF AwaitedSound
  <1>1. i \in Instances /\ phase[i] \in {"declared", "created", "arrived", "busy"}
    BY DEF Awaiting
  <1>2. token[i] \in Nat /\ at[i] \in Activities /\ expected[i] \in Instants
    BY <1>1 DEF TypeOK
  <1>3. data[i].known \in Instants /\ data[i].instantiation \in Instants
        /\ \A a \in Activities : data[i].disclosure[a] \in Instants
    BY <1>1 DEF TypeOK, InstanceData
  <1>4. DueTime(i) \in Instants
    BY <1>1, <1>2, <1>3 DEF DueTime, ProcessReadyTime
  <1>5. /\ Awaited(i) \in Event /\ Awaited(i).instance = i
        /\ Awaited(i).token <= token[i] /\ ~Expired(Awaited(i))
    BY <1>1, <1>2 DEF Awaited, Instantiation, Ready, Completion, Event, Expired,
                      PhaseFitsToken
  <1> QED
    BY <1>1, <1>4, <1>5

LEMMA AwaitedLiveNext == TypeOK' /\ PhaseFitsToken' => AwaitedSound'
  <1>1. (TypeOK /\ PhaseFitsToken => AwaitedSound)'
    BY AwaitedLive, PTL
  <1> QED
    BY <1>1

-----------------------------------------------------------------------------
\* What is left of the queue when an instance takes a step: nothing that
\* instance still awaits, and all that the others await, each once.
Remaining(rest, i) ==
  /\ rest \in Seq(Event)
  /\ \A n \in 1..Len(rest) : \E m \in 1..Len(queue) : rest[n] = queue[m]
  /\ \A m, n \in 1..Len(rest) : rest[m] = rest[n] /\ ~Expired(rest[m]) => m = n
  /\ \A n \in 1..Len(rest) : rest[n].instance = i => Expired(rest[n])
  /\ \A m \in 1..Len(queue) :
       ~Expired(queue[m]) /\ queue[m].instance # i =>
         \E n \in 1..Len(rest) : rest[n] = queue[m]

LEMMA NothingRemains ==
  ASSUME IInv, AtDecision, NEW i \in Instances
  PROVE  Remaining(<<>>, i)
  <1>1. \A k \in 1..Len(queue) : Expired(queue[k])
    BY NoneLive DEF IInv, AtDecision
  <1>2. <<>> \in Seq(Event) /\ Len(<<>>) = 0
    BY EmptySeq
  <1> QED
    BY <1>1, <1>2 DEF Remaining

\* The event dequeued is one its instance awaits and that is due.
LEMMA FrontAwaited ==
  ASSUME IInv, run = "running", NEW k \in FirstLive
  PROVE  LET i == queue[k].instance IN
         /\ k \in 1..Len(queue) /\ Len(queue) \in Nat
         /\ queue[k] \in Event
         /\ i \in Awaiting
         /\ i \in Instances
         /\ queue[k] = Awaited(i)
         /\ DueTime(i) <= now
  <1>1. k \in 1..Len(queue) /\ Len(queue) \in Nat /\ ~Expired(queue[k])
    BY DEF FirstLive, IInv, TypeOK
  <1>2. queue[k] \in Event
    BY <1>1, ElementOfSeq DEF IInv, TypeOK
  <1>3. queue[k].instance \in Awaiting /\ queue[k] = Awaited(queue[k].instance)
    BY <1>1 DEF IInv, HeldConsistently, OthersExpired
  <1>4. DueTime(queue[k].instance) <= now
    BY <1>1, <1>3 DEF IInv, HeldConsistently, AwaitedPlaced
  <1> QED
    BY <1>1, <1>2, <1>3, <1>4 DEF Awaiting

LEMMA AfterRemains ==
  ASSUME IInv, run = "running", NEW k \in FirstLive
  PROVE  Remaining(After(k), queue[k].instance)
  <1> DEFINE i == queue[k].instance
             rest == After(k)
  <1>1. /\ k \in 1..Len(queue) /\ Len(queue) \in Nat
        /\ queue[k] = Awaited(i) /\ i \in Awaiting
    BY FrontAwaited
  <1>2. queue \in Seq(Event)
    BY DEF IInv, TypeOK
  <1>3. /\ rest \in Seq(Event)
        /\ Len(rest) = Len(queue) - k
        /\ \A n \in 1..Len(rest) : rest[n] = queue[k + n]
    <2>1. \A n \in (k + 1)..Len(queue) : queue[n] \in Event
      BY <1>1, <1>2, ElementOfSeq
    <2> QED
      BY <1>1, <2>1, SubSeqProperties DEF After
  <1> HIDE DEF rest
  <1>4. \A n \in 1..Len(rest) : k + n \in 1..Len(queue) /\ k + n # k /\ rest[n] = queue[k + n]
    BY <1>1, <1>3
  <1>5. \A m, n \in 1..Len(rest) : rest[m] = rest[n] /\ ~Expired(rest[m]) => m = n
    <2> TAKE m, n \in 1..Len(rest)
    <2> HAVE rest[m] = rest[n] /\ ~Expired(rest[m])
    <2>1. k + m = k + n
      BY <1>4 DEF IInv, HeldConsistently, LiveOnce
    <2> QED
      BY <1>1, <1>3, <2>1
  <1>6. \A n \in 1..Len(rest) : rest[n].instance = i => Expired(rest[n])
    <2> TAKE n \in 1..Len(rest)
    <2> HAVE rest[n].instance = i
    <2>1. Expired(queue[k + n]) \/ queue[k + n] = queue[k]
      BY <1>1, <1>4 DEF IInv, HeldConsistently, OthersExpired
    <2>2. queue[k + n] = queue[k] /\ ~Expired(queue[k]) => k + n = k
      BY <1>1, <1>4 DEF IInv, HeldConsistently, LiveOnce
    <2> QED
      BY <1>4, <2>1, <2>2
  <1>7. \A m \in 1..Len(queue) :
          ~Expired(queue[m]) /\ queue[m].instance # i =>
            \E n \in 1..Len(rest) : rest[n] = queue[m]
    <2> TAKE m \in 1..Len(queue)
    <2> HAVE ~Expired(queue[m]) /\ queue[m].instance # i
    <2>1. ~(m \in 1..(k - 1)) /\ m # k
      BY DEF FirstLive
    <2>2. m - k \in 1..Len(rest) /\ k + (m - k) = m
      BY <1>1, <1>3, <2>1
    <2>3. rest[m - k] = queue[m]
      BY <1>3, <2>2
    <2> QED
      BY <2>2, <2>3
  <1> QED
    BY <1>3, <1>4, <1>5, <1>6, <1>7 DEF Remaining, rest

-----------------------------------------------------------------------------
\* The instances other than i are as they were.
OthersUnchanged(i) ==
  \A j \in Instances \ {i} :
    /\ phase'[j] = phase[j] /\ at'[j] = at[j] /\ token'[j] = token[j]
    /\ expected'[j] = expected[j] /\ alarm'[j] = alarm[j]

\* What an instance awaits depends on that instance only.
LEMMA OthersAwaitTheSame ==
  ASSUME data' = data, NEW i, OthersUnchanged(i)
  PROVE  /\ \A j \in Instances \ {i} :
              /\ j \in Awaiting' <=> j \in Awaiting
              /\ Awaited(j)' = Awaited(j)
              /\ DueTime(j)' = DueTime(j)
         /\ \A e \in Event : e.instance # i => (Expired(e)' <=> Expired(e))
  <1>1. \A j \in Instances \ {i} :
              /\ j \in Awaiting' <=> j \in Awaiting
              /\ Awaited(j)' = Awaited(j)
              /\ DueTime(j)' = DueTime(j)
    BY DEF OthersUnchanged, Awaiting, Awaited, DueTime, ProcessReadyTime,
           Instantiation, Ready, Completion
  <1>2. \A e \in Event : e.instance # i => (Expired(e)' <=> Expired(e))
    BY DEF OthersUnchanged, Expired, Event
  <1> QED
    BY <1>1, <1>2

\* An expired event remains so: tokens are counted up, and gone is for good.
LEMMA ExpiredForGood ==
  ASSUME NEW e \in Event, Expired(e), e.token <= token[e.instance],
         token[e.instance] \in Nat, token'[e.instance] \in Nat,
         token[e.instance] <= token'[e.instance],
         phase[e.instance] = "gone" => phase'[e.instance] = "gone"
  PROVE  Expired(e)' /\ e.token <= token'[e.instance]
  BY DEF Expired, Event

\* The step of one instance, which awaits something new or nothing, keeps the
\* queue and the calendar consistent.
LEMMA OneInstanceMoves ==
  ASSUME IInv, TypeOK', PhaseFitsToken',
         run = "running", run' = run, now' = now, data' = data,
         NEW i \in Instances, OthersUnchanged(i),
         phase[i] # "gone", token[i] <= token'[i], alarm'[i] > now,
         i \in Awaiting => DueTime(i) <= now,
         NEW rest, Remaining(rest, i),
         NEW e0, e0 = Awaited(i)', NEW d0, d0 = DueTime(i)',
         \/ i \in Awaiting' /\ Plan(rest, e0, d0)
         \/ i \notin Awaiting' /\ queue' = rest /\ scheduled' = scheduled
  PROVE  HeldConsistently'
  <1>1. /\ rest \in Seq(Event) /\ Len(rest) \in Nat
        /\ \A n \in 1..Len(rest) : rest[n] \in Event
    BY LenProperties, ElementOfSeq DEF Remaining
  <1>2. i \in Awaiting' => /\ e0 \in Event /\ e0.instance = i /\ e0.token <= token'[i]
               /\ ~Expired(e0)' /\ d0 \in Instants
    BY AwaitedLiveNext DEF AwaitedSound
  <1>3. now \in Int /\ \A d \in Instants : d \in Int
    BY RunAssumption DEF IInv, TypeOK, Instants, Lowest
  <1>4. /\ \A j \in Instances \ {i} :
              /\ j \in Awaiting' <=> j \in Awaiting
              /\ Awaited(j)' = Awaited(j)
              /\ DueTime(j)' = DueTime(j)
        /\ \A e \in Event : e.instance # i => (Expired(e)' <=> Expired(e))
    BY OthersAwaitTheSame
  <1>5. AwaitedSound
    BY AwaitedLive DEF IInv
  <1>6. \A d \in Instants : \A e \in scheduled[d] : e \in Event
    BY DEF IInv, TypeOK
  \* What is held of the instance itself is expired, and remains so.
  <1>7. \A d \in Instants : \A e \in scheduled[d] : e.instance = i => Expired(e)
    <2> SUFFICES ASSUME NEW d \in Instants, NEW e \in scheduled[d], e.instance = i,
                        ~Expired(e)
                 PROVE  FALSE
      OBVIOUS
    <2>1. i \in Awaiting /\ d = DueTime(i)
      BY DEF IInv, HeldConsistently, OthersExpired
    <2>2. d > now
      BY DEF IInv, HeldConsistently, CalendarAhead
    <2> QED
      BY <1>3, <2>1, <2>2
  <1>8. ASSUME NEW e \in Event, e.token <= token[e.instance],
               e.instance = i => Expired(e)
        PROVE  /\ e.token <= token'[e.instance]
               /\ Expired(e) => Expired(e)'
               /\ ~Expired(e) => e.instance # i /\ ~Expired(e)'
               /\ i \in Awaiting' => e # e0
    <2>1. e.instance \in Instances /\ e.token \in Nat
      BY DEF Event
    <2>2. token[e.instance] \in Nat /\ token'[e.instance] \in Nat
      BY <2>1 DEF IInv, TypeOK
    <2>3. token[e.instance] <= token'[e.instance]
      BY <2>1, <2>2 DEF OthersUnchanged
    <2>4. phase[e.instance] = "gone" => phase'[e.instance] = "gone"
      BY <2>1 DEF OthersUnchanged
    <2>5. Expired(e) => Expired(e)'
      BY <1>8, <2>2, <2>3, <2>4, ExpiredForGood
    <2>6. e.token <= token'[e.instance]
      BY <1>8, <2>1, <2>2, <2>3
    <2>7. ~Expired(e) => e.instance # i /\ ~Expired(e)'
      BY <1>4, <1>8
    <2>8. i \in Awaiting' => e # e0
      BY <1>2, <1>8, <2>5
    <2> QED
      BY <2>5, <2>6, <2>7, <2>8
  <1>9. \A n \in 1..Len(rest) : /\ rest[n].token <= token[rest[n].instance]
                                /\ rest[n].instance = i => Expired(rest[n])
    BY DEF Remaining, IInv, HeldConsistently, TokensPast
  <1>10. \A d \in Instants : \A e \in scheduled[d] : e.token <= token[e.instance]
    BY DEF IInv, HeldConsistently, TokensPast
  \* The new queue and the new calendar, entry by entry.
  <1>11. /\ Len(queue') \in Nat
         /\ \A k \in 1..Len(queue') :
              \/ k \in 1..Len(rest) /\ queue'[k] = rest[k]
              \/ k = Len(rest) + 1 /\ i \in Awaiting' /\ queue'[k] = e0 /\ d0 <= now
         /\ \A k \in 1..Len(rest) : k \in 1..Len(queue') /\ queue'[k] = rest[k]
         /\ i \in Awaiting' /\ d0 <= now => /\ Len(rest) + 1 \in 1..Len(queue')
                                /\ queue'[Len(rest) + 1] = e0
    <2>1. CASE queue' = rest /\ ~(i \in Awaiting' /\ d0 <= now)
      BY <1>1, <2>1
    <2>2. CASE i \in Awaiting' /\ d0 <= now /\ queue' = Append(rest, e0)
      <3>1. /\ Len(queue') = Len(rest) + 1
            /\ \A k \in 1..Len(rest) : queue'[k] = rest[k]
            /\ queue'[Len(rest) + 1] = e0
        BY <1>1, <1>2, <2>2, AppendProperties
      <3> QED
        BY <1>1, <2>2, <3>1
    <2> QED
      BY <2>1, <2>2 DEF Plan
  <1>12. /\ \A d \in Instants : \A e \in scheduled'[d] :
              \/ e \in scheduled[d]
              \/ i \in Awaiting' /\ e = e0 /\ d = d0 /\ d0 > now
         /\ \A d \in Instants : \A e \in scheduled[d] : e \in scheduled'[d]
         /\ i \in Awaiting' /\ d0 > now => e0 \in scheduled'[d0]
         /\ \A d \in Instants : \/ scheduled'[d] = scheduled[d]
                                \/ scheduled'[d] = scheduled[d] \union {e0}
    <2>1. scheduled \in [Instants -> SUBSET Event]
      BY DEF IInv, TypeOK
    <2>2. CASE scheduled' = scheduled /\ ~(i \in Awaiting' /\ d0 > now)
      BY <2>2
    <2>3. CASE i \in Awaiting' /\ d0 > now
               /\ scheduled' = [scheduled EXCEPT ![d0] = @ \union {e0}]
      BY <1>2, <2>1, <2>3
    <2>4. i \in Awaiting' => (d0 > now <=> ~(d0 <= now))
      BY <1>2, <1>3
    <2> QED
      BY <2>2, <2>3, <2>4 DEF Plan
  <1>13. TokensPast'
    <2>1. ASSUME NEW k \in 1..Len(queue')
          PROVE  queue'[k].token <= token'[queue'[k].instance]
      BY <1>1, <1>2, <1>8, <1>9, <1>11
    <2>2. ASSUME NEW d \in Instants, NEW e \in scheduled'[d]
          PROVE  e.token <= token'[e.instance]
      BY <1>2, <1>6, <1>7, <1>8, <1>10, <1>12
    <2> QED
      BY <2>1, <2>2 DEF TokensPast
  <1>14. OthersExpired'
    <2>1. ASSUME NEW k \in 1..Len(queue'), NEW e, e = queue'[k]
          PROVE  Expired(e)' \/ (e.instance \in Awaiting' /\ e = Awaited(e.instance)')
      <3>1. CASE k \in 1..Len(rest) /\ e = rest[k]
        <4>1. PICK m \in 1..Len(queue) : rest[k] = queue[m]
          BY <3>1 DEF Remaining
        <4>2. Expired(e) \/ (e.instance \in Awaiting /\ e = Awaited(e.instance))
          BY <3>1, <4>1 DEF IInv, HeldConsistently, OthersExpired
        <4>3. e \in Event /\ e.instance \in Instances
          BY <1>1, <3>1 DEF Event
        <4>4. /\ Expired(e) => Expired(e)'
              /\ ~Expired(e) => e.instance # i
          BY <1>8, <1>9, <3>1, <4>3
        <4> QED
          BY <1>4, <4>2, <4>3, <4>4
      <3>2. CASE i \in Awaiting' /\ e = e0
        BY <1>2, <3>2
      <3> QED
        BY <1>11, <2>1, <3>1, <3>2
    <2>2. ASSUME NEW d \in Instants, NEW e \in scheduled'[d]
          PROVE  \/ Expired(e)'
                 \/ /\ e.instance \in Awaiting' /\ e = Awaited(e.instance)'
                    /\ d = DueTime(e.instance)'
      <3>1. CASE e \in scheduled[d]
        <4>1. \/ Expired(e)
              \/ e.instance \in Awaiting /\ e = Awaited(e.instance) /\ d = DueTime(e.instance)
          BY <3>1 DEF IInv, HeldConsistently, OthersExpired
        <4>2. e \in Event /\ e.instance \in Instances
          BY <1>6, <3>1 DEF Event
        <4> QED
          BY <1>4, <1>7, <1>8, <1>10, <3>1, <4>1, <4>2
      <3>2. CASE i \in Awaiting' /\ e = e0 /\ d = d0
        BY <1>2, <3>2
      <3> QED
        BY <1>12, <3>1, <3>2
    <2>3. ASSUME NEW k \in 1..Len(queue')
          PROVE  (\/ Expired(queue[k])
                  \/ /\ queue[k].instance \in Awaiting
                     /\ queue[k] = Awaited(queue[k].instance))'
      BY <2>1
    <2> QED
      BY <2>2, <2>3 DEF OthersExpired
  <1>15. LiveOnce'
    <2> SUFFICES ASSUME NEW j \in 1..Len(queue'), NEW k \in 1..Len(queue'),
                        queue'[j] = queue'[k], (~Expired(queue[k]))'
                 PROVE  j = k
      BY DEF LiveOnce
    <2>1. CASE j \in 1..Len(rest) /\ k \in 1..Len(rest)
      <3>1. queue'[j] = rest[j] /\ queue'[k] = rest[k]
        BY <1>11, <2>1
      <3>2. ~Expired(rest[k])
        BY <1>1, <1>8, <1>9, <2>1, <3>1
      <3> QED
        BY <2>1, <3>1, <3>2 DEF Remaining
    <2>2. ASSUME NEW m \in 1..Len(rest), i \in Awaiting' PROVE rest[m] # e0
      BY <1>1, <1>8, <1>9, <2>2
    <2> QED
      BY <1>1, <1>11, <2>1, <2>2
  <1>16. AwaitedPlaced'
    <2> SUFFICES ASSUME NEW j \in Awaiting'
                 PROVE  IF DueTime(j)' <= now
                        THEN \E k \in 1..Len(queue') : queue'[k] = Awaited(j)'
                        ELSE /\ Awaited(j)' \in scheduled'[DueTime(j)']
                             /\ \A k \in 1..Len(queue') : queue'[k] # Awaited(j)'
      BY DEF AwaitedPlaced
    <2>1. j \in Instances
      BY DEF Awaiting
    <2>2. CASE j = i
      <3>1. i \in Awaiting' /\ Awaited(j)' = e0 /\ DueTime(j)' = d0
        BY <2>2
      <3>2. CASE d0 <= now
        BY <1>11, <3>1, <3>2
      <3>3. CASE ~(d0 <= now)
        <4>1. d0 > now
          BY <1>2, <1>3, <3>1, <3>3
        <4>2. ASSUME NEW k \in 1..Len(queue') PROVE queue'[k] # e0
          <5>1. k \in 1..Len(rest) /\ queue'[k] = rest[k]
            BY <1>11, <3>3
          <5> QED
            BY <1>1, <1>8, <1>9, <3>1, <5>1
        <4> QED
          BY <1>12, <3>1, <3>3, <4>1, <4>2
      <3> QED
        BY <3>2, <3>3
    <2>3. CASE j # i
      <3>1. /\ j \in Awaiting /\ Awaited(j)' = Awaited(j) /\ DueTime(j)' = DueTime(j)
            /\ Awaited(j) \in Event /\ Awaited(j).instance = j /\ ~Expired(Awaited(j))
            /\ DueTime(j) \in Instants
        BY <1>4, <1>5, <2>1, <2>3 DEF AwaitedSound
      <3>2. i \in Awaiting' => Awaited(j) # e0
        BY <1>2, <2>3, <3>1
      <3>3. CASE DueTime(j) <= now
        <4>1. PICK m \in 1..Len(queue) : queue[m] = Awaited(j)
          BY <3>1, <3>3 DEF IInv, HeldConsistently, AwaitedPlaced
        <4>2. PICK n \in 1..Len(rest) : rest[n] = Awaited(j)
          BY <2>3, <3>1, <4>1 DEF Remaining
        <4> QED
          BY <1>11, <3>1, <3>3, <4>2
      <3>4. CASE ~(DueTime(j) <= now)
        <4>1. /\ Awaited(j) \in scheduled[DueTime(j)]
              /\ \A m \in 1..Len(queue) : queue[m] # Awaited(j)
          BY <3>1, <3>4 DEF IInv, HeldConsistently, AwaitedPlaced
        <4>2. Awaited(j) \in scheduled'[DueTime(j)]
          BY <1>12, <3>1, <4>1
        <4>3. ASSUME NEW k \in 1..Len(queue') PROVE queue'[k] # Awaited(j)
          <5>1. \A n \in 1..Len(rest) : rest[n] # Awaited(j)
            BY <4>1 DEF Remaining
          <5> QED
            BY <1>11, <3>2, <5>1
        <4> QED
          BY <3>1, <3>4, <4>2, <4>3
      <3> QED
        BY <3>3, <3>4
    <2> QED
      BY <2>2, <2>3
  <1>17. CalendarAhead'
    <2>1. ASSUME NEW d \in Instants, scheduled'[d] # {} PROVE d > now
      <3>1. PICK e \in scheduled'[d] : TRUE
        BY <2>1
      <3>2. CASE e \in scheduled[d]
        BY <3>2 DEF IInv, HeldConsistently, CalendarAhead
      <3>3. CASE d = d0 /\ d0 > now
        BY <3>3
      <3> QED
        BY <1>12, <3>1, <3>2, <3>3
    <2>2. ASSUME NEW j \in Instances PROVE alarm'[j] > now
      BY DEF OthersUnchanged, IInv, HeldConsistently, CalendarAhead
    <2> QED
      BY <2>1, <2>2 DEF CalendarAhead
  <1>18. FiniteCalendar'
    <2> SUFFICES ASSUME NEW d \in Instants PROVE IsFiniteSet(scheduled'[d])
      BY DEF FiniteCalendar
    <2>1. IsFiniteSet(scheduled[d])
      BY DEF IInv, HeldConsistently, FiniteCalendar
    <2>2. IsFiniteSet(scheduled[d] \union {e0})
      BY <2>1, FS_AddElement
    <2>3. scheduled'[d] = scheduled[d] \/ scheduled'[d] = scheduled[d] \union {e0}
      BY <1>12
    <2>4. CASE scheduled'[d] = scheduled[d]
      BY <2>1, <2>4
    <2>5. CASE scheduled'[d] = scheduled[d] \union {e0}
      BY <2>2, <2>5
    <2> QED
      BY <2>3, <2>4, <2>5
  <1> QED
    BY <1>13, <1>14, <1>15, <1>16, <1>17, <1>18 DEF HeldConsistently

-----------------------------------------------------------------------------
\* What is planned is of the type of the queue and of the calendar.
LEMMA PlanTyped ==
  ASSUME TypeOK, NEW rest \in Seq(Event), NEW e \in Event, NEW due \in Instants,
         Plan(rest, e, due)
  PROVE  queue' \in Seq(Event) /\ scheduled' \in [Instants -> SUBSET Event]
  <1>1. Append(rest, e) \in Seq(Event)
    BY AppendProperties
  <1>2. [scheduled EXCEPT ![due] = @ \union {e}] \in [Instants -> SUBSET Event]
    BY DEF TypeOK
  <1> QED
    BY <1>1, <1>2 DEF Plan, TypeOK

\* While the run goes on, what is said of its beginning and of its end holds.
LEMMA RunningOn ==
  ASSUME IInv, run = "running", run' = run, now' = now
  PROVE  RunStages' /\ EndedComplete'
  BY DEF IInv, RunStages, EndedComplete

\* What the kind of the event dequeued says of the instance.
LEMMA FrontPhase ==
  ASSUME IInv, run = "running", NEW k \in FirstLive
  PROVE  LET i == queue[k].instance IN
         /\ queue[k].kind = "instantiation" => phase[i] = "declared"
         /\ queue[k].kind = "ready" /\ queue[k].token = 0 => phase[i] = "created"
         /\ queue[k].kind = "ready" /\ queue[k].token # 0 => phase[i] = "arrived"
         /\ queue[k].kind = "completion" => phase[i] = "busy"
  <1> DEFINE i == queue[k].instance
  <1>1. /\ i \in Awaiting /\ i \in Instances /\ queue[k] = Awaited(i)
    BY FrontAwaited
  <1>2. phase[i] \in {"declared", "created", "arrived", "busy"}
    BY <1>1 DEF Awaiting
  <1>3. phase[i] = "arrived" => token[i] > 0 /\ token[i] \in Nat
    BY <1>1 DEF IInv, PhaseFitsToken, TypeOK
  <1> HIDE DEF i
  <1>4. /\ phase[i] = "declared" => queue[k].kind = "instantiation"
        /\ phase[i] = "created" => queue[k].kind = "ready" /\ queue[k].token = 0
        /\ phase[i] = "arrived" => queue[k].kind = "ready" /\ queue[k].token = token[i]
        /\ phase[i] = "busy" => queue[k].kind = "completion"
    BY <1>1, <1>2 DEF Awaited, Instantiation, Ready, Completion
  <1> QED
    BY <1>2, <1>3, <1>4 DEF i

LEMMA InstantiationKeeps ==
  ASSUME IInv, ProcessInstantiation
  PROVE  IInv'
  <1>1. PICK k \in FirstLive :
          LET i == queue[k].instance IN
          /\ run = "running"
          /\ queue[k].kind = "instantiation"
          /\ phase' = [phase EXCEPT ![i] = "created"]
          /\ Plan(After(k), Ready(i, 0), ProcessReadyTime(i))
          /\ UNCHANGED <<data, run, now, at, token, expected, alarm>>
    BY DEF ProcessInstantiation
  <1>2. PICK i \in Instances :
          /\ i = queue[k].instance /\ i \in Awaiting /\ DueTime(i) <= now
          /\ phase[i] = "declared"
    BY <1>1, FrontAwaited, FrontPhase
  <1> DEFINE rest == After(k)
             e0 == Ready(i, 0)
             d0 == ProcessReadyTime(i)
  <1>3. Remaining(rest, i) /\ rest \in Seq(Event)
    BY <1>1, <1>2, AfterRemains DEF Remaining
  <1>4. e0 \in Event /\ d0 \in Instants
    BY <1>2 DEF Ready, Event, ProcessReadyTime, IInv, TypeOK, InstanceData
  <1>5. queue' \in Seq(Event) /\ scheduled' \in [Instants -> SUBSET Event]
    BY <1>1, <1>2, <1>3, <1>4, PlanTyped DEF IInv
  <1>6. TypeOK'
    BY <1>1, <1>2, <1>5 DEF IInv, TypeOK, Phases
  <1>7. PhaseFitsToken'
    BY <1>1, <1>2 DEF IInv, TypeOK, PhaseFitsToken
  <1>8. i \in Awaiting' /\ e0 = Awaited(i)' /\ d0 = DueTime(i)'
    <2>1. phase'[i] = "created" /\ data' = data
      BY <1>1, <1>2 DEF IInv, TypeOK
    <2> QED
      BY <1>2, <2>1 DEF Awaiting, Awaited, DueTime, ProcessReadyTime, Ready
  <1>9. OthersUnchanged(i)
    BY <1>1, <1>2 DEF IInv, TypeOK, OthersUnchanged
  <1>10. /\ phase[i] # "gone" /\ token[i] <= token'[i] /\ alarm'[i] > now
         /\ run = "running" /\ run' = run /\ now' = now /\ data' = data
    BY <1>1, <1>2 DEF IInv, TypeOK, HeldConsistently, CalendarAhead
  <1>11. Plan(rest, e0, d0)
    BY <1>1, <1>2
  <1> HIDE DEF rest, e0, d0
  <1>12. HeldConsistently'
    BY <1>2, <1>3, <1>6, <1>7, <1>8, <1>9, <1>10, <1>11, OneInstanceMoves
  <1> QED
    BY <1>6, <1>7, <1>10, <1>12, RunningOn DEF IInv

LEMMA ReadyOfProcessKeeps ==
  ASSUME IInv, ProcessReadyOfProcess
  PROVE  IInv'
  <1>1. PICK k \in FirstLive :
          LET i == queue[k].instance IN
          /\ run = "running"
          /\ queue[k].kind = "ready" /\ queue[k].token = 0
          /\ phase' = [phase EXCEPT ![i] = "arrived"]
          /\ token' = [token EXCEPT ![i] = 1]
          /\ Plan(After(k), Ready(i, 1), data[i].disclosure[at[i]])
          /\ UNCHANGED <<data, run, now, at, expected, alarm>>
    BY DEF ProcessReadyOfProcess
  <1>2. PICK i \in Instances :
          /\ i = queue[k].instance /\ i \in Awaiting /\ DueTime(i) <= now
          /\ phase[i] = "created"
    BY <1>1, FrontAwaited, FrontPhase
  <1> DEFINE rest == After(k)
             e0 == Ready(i, 1)
             d0 == data[i].disclosure[at[i]]
  <1>3. Remaining(rest, i) /\ rest \in Seq(Event)
    BY <1>1, <1>2, AfterRemains DEF Remaining
  <1>4. e0 \in Event /\ d0 \in Instants
    BY <1>2 DEF Ready, Event, IInv, TypeOK, InstanceData
  <1>5. queue' \in Seq(Event) /\ scheduled' \in [Instants -> SUBSET Event]
    BY <1>1, <1>2, <1>3, <1>4, PlanTyped DEF IInv
  <1>6. TypeOK'
    BY <1>1, <1>2, <1>5 DEF IInv, TypeOK, Phases
  <1>7. PhaseFitsToken'
    BY <1>1, <1>2 DEF IInv, TypeOK, PhaseFitsToken
  <1>8. i \in Awaiting' /\ e0 = Awaited(i)' /\ d0 = DueTime(i)'
    <2>1. phase'[i] = "arrived" /\ token'[i] = 1 /\ data' = data /\ at' = at
      BY <1>1, <1>2 DEF IInv, TypeOK
    <2> QED
      BY <1>2, <2>1 DEF Awaiting, Awaited, DueTime, Ready
  <1>9. OthersUnchanged(i)
    BY <1>1, <1>2 DEF IInv, TypeOK, OthersUnchanged
  <1>10. /\ phase[i] # "gone" /\ token[i] <= token'[i] /\ alarm'[i] > now
         /\ run = "running" /\ run' = run /\ now' = now /\ data' = data
    BY <1>1, <1>2 DEF IInv, TypeOK, PhaseFitsToken, HeldConsistently, CalendarAhead
  <1>11. Plan(rest, e0, d0)
    BY <1>1, <1>2
  <1> HIDE DEF rest, e0, d0
  <1>12. HeldConsistently'
    BY <1>2, <1>3, <1>6, <1>7, <1>8, <1>9, <1>10, <1>11, OneInstanceMoves
  <1> QED
    BY <1>6, <1>7, <1>10, <1>12, RunningOn DEF IInv

LEMMA ReadyOfActivityKeeps ==
  ASSUME IInv, ProcessReadyOfActivity
  PROVE  IInv'
  <1>1. PICK k \in FirstLive :
          LET i == queue[k].instance IN
          /\ run = "running"
          /\ queue[k].kind = "ready" /\ queue[k].token # 0
          /\ phase' = [phase EXCEPT ![i] = "ready"]
          /\ queue' = After(k)
          /\ UNCHANGED <<data, run, now, at, token, expected, alarm, scheduled>>
    BY DEF ProcessReadyOfActivity
  <1>2. PICK i \in Instances :
          /\ i = queue[k].instance /\ i \in Awaiting /\ DueTime(i) <= now
          /\ phase[i] = "arrived"
    BY <1>1, FrontAwaited, FrontPhase
  <1>3. Remaining(queue', i) /\ queue' \in Seq(Event)
    BY <1>1, <1>2, AfterRemains DEF Remaining
  <1>4. TypeOK'
    BY <1>1, <1>2, <1>3 DEF IInv, TypeOK, Phases
  <1>5. PhaseFitsToken'
    BY <1>1, <1>2 DEF IInv, TypeOK, PhaseFitsToken
  <1>6. i \notin Awaiting' /\ scheduled' = scheduled
    BY <1>1, <1>2 DEF IInv, TypeOK, Awaiting
  <1>7. OthersUnchanged(i)
    BY <1>1, <1>2 DEF IInv, TypeOK, OthersUnchanged
  <1>8. /\ phase[i] # "gone" /\ token[i] <= token'[i] /\ alarm'[i] > now
        /\ run = "running" /\ run' = run /\ now' = now /\ data' = data
    BY <1>1, <1>2 DEF IInv, TypeOK, HeldConsistently, CalendarAhead
  <1>9. HeldConsistently'
    BY <1>2, <1>3, <1>4, <1>5, <1>6, <1>7, <1>8, OneInstanceMoves
  <1> QED
    BY <1>4, <1>5, <1>8, <1>9, RunningOn DEF IInv

LEMMA CompletionKeeps ==
  ASSUME IInv, ProcessCompletion
  PROVE  IInv'
  <1>1. PICK k \in FirstLive :
          LET i == queue[k].instance IN
          /\ run = "running"
          /\ queue[k].kind = "completion"
          /\ RemoveTimer(i)
          /\ MoveOn(i, k) \/ Finish(i, k)
          /\ UNCHANGED <<data, run, now, token, expected>>
    BY DEF ProcessCompletion
  <1>2. PICK i \in Instances :
          /\ i = queue[k].instance /\ i \in Awaiting /\ DueTime(i) <= now
          /\ phase[i] = "busy"
    BY <1>1, FrontAwaited, FrontPhase
  <1> DEFINE rest == After(k)
             e0 == Ready(i, token[i])
             d0 == data[i].disclosure[at[i] + 1]
  <1>3. Remaining(rest, i) /\ rest \in Seq(Event)
    BY <1>1, <1>2, AfterRemains DEF Remaining
  <1>4. alarm' = [alarm EXCEPT ![i] = Never]
    BY <1>1, <1>2 DEF RemoveTimer
  <1>5. now < Never
    BY RunAssumption DEF IInv, TypeOK, Instants, Lowest, Never
  <1>6. alarm'[i] > now /\ alarm' \in [Instances -> Instants \union {Never}]
    BY <1>2, <1>4, <1>5 DEF IInv, TypeOK
  <1>7. /\ phase[i] # "gone" /\ token[i] <= token'[i]
        /\ run = "running" /\ run' = run /\ now' = now /\ data' = data
    BY <1>1, <1>2 DEF IInv, TypeOK
  <1>8. CASE MoveOn(i, k)
    <2>1. at[i] \in Activities /\ at[i] + 1 \in Activities /\ NumActivities \in Nat
      BY <1>2, <1>8, RunAssumption DEF MoveOn, IInv, TypeOK, Activities
    <2>2. e0 \in Event /\ d0 \in Instants
      BY <1>2, <2>1 DEF Ready, Event, IInv, TypeOK, InstanceData
    <2>3. queue' \in Seq(Event) /\ scheduled' \in [Instants -> SUBSET Event]
      BY <1>3, <1>8, <2>2, PlanTyped DEF IInv, MoveOn
    <2>4. at' \in [Instances -> Activities]
      BY <1>2, <1>8, <2>1 DEF MoveOn, IInv, TypeOK
    <2>5. TypeOK'
      BY <1>1, <1>2, <1>6, <1>8, <2>3, <2>4 DEF MoveOn, IInv, TypeOK, Phases
    <2>6. PhaseFitsToken'
      BY <1>1, <1>2, <1>4, <1>8 DEF MoveOn, IInv, TypeOK, PhaseFitsToken
    <2>7. i \in Awaiting' /\ e0 = Awaited(i)' /\ d0 = DueTime(i)'
      <3>1. /\ phase'[i] = "arrived" /\ token' = token /\ data' = data
            /\ at'[i] = at[i] + 1
        BY <1>1, <1>2, <1>8 DEF MoveOn, IInv, TypeOK
      <3> QED
        BY <1>2, <3>1 DEF Awaiting, Awaited, DueTime, Ready
    <2>8. OthersUnchanged(i)
      BY <1>1, <1>2, <1>4, <1>8 DEF MoveOn, IInv, TypeOK, OthersUnchanged
    <2>9. Plan(rest, e0, d0)
      BY <1>8 DEF MoveOn
    <2> HIDE DEF rest, e0, d0
    <2>10. HeldConsistently'
      BY <1>2, <1>3, <1>6, <1>7, <2>5, <2>6, <2>7, <2>8, <2>9, OneInstanceMoves
    <2> QED
      BY <1>7, <2>5, <2>6, <2>10, RunningOn DEF IInv
  <1>9. CASE Finish(i, k)
    <2>1. queue' = rest /\ scheduled' = scheduled /\ at' = at
      BY <1>9 DEF Finish
    <2>2. TypeOK'
      BY <1>1, <1>2, <1>3, <1>6, <1>9, <2>1 DEF Finish, IInv, TypeOK, Phases
    <2>3. PhaseFitsToken'
      BY <1>1, <1>2, <1>4, <1>9 DEF Finish, IInv, TypeOK, PhaseFitsToken
    <2>4. i \notin Awaiting'
      BY <1>2, <1>9 DEF Finish, IInv, TypeOK, Awaiting
    <2>5. OthersUnchanged(i)
      BY <1>1, <1>2, <1>4, <1>9, <2>1 DEF Finish, IInv, TypeOK, OthersUnchanged
    <2> HIDE DEF rest
    <2>6. HeldConsistently'
      BY <1>2, <1>3, <1>6, <1>7, <2>1, <2>2, <2>3, <2>4, <2>5, OneInstanceMoves
    <2> QED
      BY <1>7, <2>2, <2>3, <2>6, RunningOn DEF IInv
  <1> QED
    BY <1>1, <1>2, <1>8, <1>9

LEMMA DecideEntryKeeps ==
  ASSUME IInv, NEW i \in Instances, DecideEntry(i)
  PROVE  IInv'
  <1>1. PICK due \in now..Horizon, trigger \in (now + 1)..Never :
          /\ expected' = [expected EXCEPT ![i] = due]
          /\ alarm' = [alarm EXCEPT ![i] = trigger]
          /\ Plan(<<>>, Completion(i, token[i]), due)
    BY DEF DecideEntry
  <1>2. /\ AtDecision /\ run = "running" /\ phase[i] = "ready"
        /\ phase' = [phase EXCEPT ![i] = "busy"]
        /\ UNCHANGED <<data, run, now, at, token>>
    BY DEF DecideEntry, AtDecision
  <1>3. now \in Instants
    BY <1>2 DEF IInv, TypeOK, RunStages
  <1>4. due \in Instants /\ trigger \in Instants \union {Never} /\ trigger > now
    BY <1>3, RunAssumption DEF Instants, Never
  <1> DEFINE e0 == Completion(i, token[i])
  <1>5. e0 \in Event
    BY DEF Completion, Event, IInv, TypeOK
  <1>6. Remaining(<<>>, i) /\ <<>> \in Seq(Event)
    BY <1>2, NothingRemains DEF Remaining
  <1>7. queue' \in Seq(Event) /\ scheduled' \in [Instants -> SUBSET Event]
    BY <1>1, <1>4, <1>5, <1>6, PlanTyped DEF IInv
  <1>8. TypeOK'
    BY <1>1, <1>2, <1>4, <1>7 DEF IInv, TypeOK, Phases
  <1>9. PhaseFitsToken'
    BY <1>1, <1>2 DEF IInv, TypeOK, PhaseFitsToken
  <1>10. i \in Awaiting' /\ e0 = Awaited(i)' /\ due = DueTime(i)'
    <2>1. phase'[i] = "busy" /\ token' = token /\ expected'[i] = due
      BY <1>1, <1>2 DEF IInv, TypeOK
    <2> QED
      BY <2>1 DEF Awaiting, Awaited, DueTime, Completion
  <1>11. OthersUnchanged(i)
    BY <1>1, <1>2 DEF IInv, TypeOK, OthersUnchanged
  <1>12. /\ phase[i] # "gone" /\ token[i] <= token'[i] /\ alarm'[i] > now
         /\ run' = run /\ now' = now /\ data' = data /\ i \notin Awaiting
    BY <1>1, <1>2, <1>4 DEF IInv, TypeOK, Awaiting
  <1>13. Plan(<<>>, e0, due)
    BY <1>1
  <1> HIDE DEF e0
  <1>14. HeldConsistently'
    BY <1>2, <1>6, <1>8, <1>9, <1>10, <1>11, <1>12, <1>13, OneInstanceMoves
  <1> QED
    BY <1>2, <1>8, <1>9, <1>12, <1>14, RunningOn DEF IInv

-----------------------------------------------------------------------------
LEMMA InitHolds == Init => IInv
  <1> SUFFICES ASSUME Init PROVE IInv
    OBVIOUS
  <1>1. /\ run = "new" /\ now = Lowest /\ queue = <<>>
        /\ scheduled = [d \in Instants |-> {}]
        /\ phase = [i \in Instances |-> "declared"]
        /\ token = [i \in Instances |-> 0]
        /\ alarm = [i \in Instances |-> Never]
    BY DEF Init
  <1>2. TypeOK
    <2>1. 1 \in Activities /\ 0 \in Instants
      BY RunAssumption DEF Activities, Instants
    <2>2. queue \in Seq(Event)
      BY <1>1, EmptySeq
    <2> QED
      BY <2>1, <2>2 DEF Init, TypeOK, Phases
  <1>3. Len(queue) = 0
    BY <1>1
  <1>4. PhaseFitsToken /\ RunStages /\ EndedComplete
    BY <1>1 DEF PhaseFitsToken, RunStages, EndedComplete
  <1>5. TokensPast /\ OthersExpired /\ LiveOnce /\ AwaitedPlaced /\ CalendarAhead
    BY <1>1, <1>3 DEF TokensPast, OthersExpired, LiveOnce, AwaitedPlaced, CalendarAhead
  <1>6. FiniteCalendar
    BY <1>1, FS_EmptySet DEF FiniteCalendar
  <1> QED
    BY <1>2, <1>4, <1>5, <1>6 DEF IInv, HeldConsistently

LEMMA InstantiationsFinite ==
  ASSUME NEW T \in SUBSET Instances
  PROVE  /\ IsFiniteSet({Instantiation(i) : i \in T})
         /\ {Instantiation(i) : i \in T} \subseteq Event
  <1> DEFINE f == [i \in T |-> Instantiation(i)]
  <1>1. f \in [T -> Event]
    BY DEF Instantiation, Event
  <1>2. {Instantiation(i) : i \in T} = {f[i] : i \in T}
    OBVIOUS
  <1> HIDE DEF f
  <1>3. IsFiniteSet({f[i] : i \in T})
    BY <1>1, ImageFinite
  <1> QED
    BY <1>1, <1>2, <1>3

LEMMA InitializeKeeps ==
  ASSUME IInv, Initialize
  PROVE  IInv'
  <1> DEFINE T == {j \in Instances : data[j].known <= StartTime}
             L(d) == {j \in Instances : data[j].known = d /\ d > StartTime}
             S == {Instantiation(i) : i \in T}
  <1>1. /\ run = "new" /\ run' = "running" /\ now' = StartTime
        /\ queue' \in Orderings(S)
        /\ scheduled' = [d \in Instants |-> {Instantiation(i) : i \in L(d)}]
        /\ UNCHANGED <<data, phase, at, token, expected, alarm>>
    BY DEF Initialize, work
  <1>2. \A i \in Instances : /\ phase'[i] = "declared" /\ token'[i] = 0
                             /\ alarm'[i] = Never
    BY <1>1 DEF IInv, RunStages, PhaseFitsToken
  <1>3. /\ StartTime \in Instants /\ StartTime \in Int /\ StartTime < Never
        /\ \A i \in Instances : data[i].known \in Instants
        /\ \A d \in Instants : d \in Int
    BY RunAssumption DEF IInv, TypeOK, InstanceData, Instants, Never
  <1>4. IsFiniteSet(S) /\ S \subseteq Event
    BY InstantiationsFinite
  <1>5. \A d \in Instants : /\ IsFiniteSet(scheduled'[d])
                            /\ scheduled'[d] \subseteq Event
    <2> TAKE d \in Instants
    <2>1. L(d) \in SUBSET Instances /\ scheduled'[d] = {Instantiation(i) : i \in L(d)}
      BY <1>1
    <2> HIDE DEF L
    <2> QED
      BY <2>1, InstantiationsFinite
  <1>6. /\ queue' \in Seq(S)
        /\ Len(queue') \in Nat
        /\ \A e \in S : \E k \in 1..Len(queue') : queue'[k] = e
        /\ \A k \in 1..Len(queue') : queue'[k] \in S
        /\ \A j, k \in 1..Len(queue') : queue'[j] = queue'[k] => j = k
    <2> HIDE DEF S
    <2> QED
      BY <1>1, <1>4, OrderingIsSequence
  <1>7. queue' \in Seq(Event)
    BY <1>4, <1>6
  <1>8. TypeOK'
    BY <1>1, <1>3, <1>5, <1>7 DEF IInv, TypeOK
  <1>9. PhaseFitsToken'
    BY <1>2 DEF PhaseFitsToken
  <1>10. RunStages' /\ EndedComplete'
    BY <1>1, <1>3 DEF RunStages, EndedComplete
  <1>11. \A i \in Instances : /\ i \in Awaiting'
                              /\ Awaited(i)' = Instantiation(i)
                              /\ DueTime(i)' = data[i].known
    BY <1>1, <1>2 DEF Awaiting, Awaited, DueTime, Instantiation
  <1>12. \A i \in Instances : Instantiation(i).instance = i /\ Instantiation(i).token = 0
    BY DEF Instantiation
  <1>13. \A k \in 1..Len(queue') : \E i \in T : queue'[k] = Instantiation(i)
    BY <1>6
  <1>14. \A d \in Instants : \A e \in scheduled'[d] :
           \E i \in Instances : e = Instantiation(i) /\ data[i].known = d /\ d > StartTime
    BY <1>1
  <1>15. TokensPast'
    BY <1>2, <1>12, <1>13, <1>14 DEF TokensPast
  <1>16. OthersExpired'
    <2>1. ASSUME NEW k \in 1..Len(queue'), NEW e, e = queue'[k]
          PROVE  Expired(e)' \/ (e.instance \in Awaiting' /\ e = Awaited(e.instance)')
      BY <1>11, <1>12, <1>13, <2>1
    <2>2. ASSUME NEW d \in Instants, NEW e \in scheduled'[d]
          PROVE  \/ Expired(e)'
                 \/ /\ e.instance \in Awaiting' /\ e = Awaited(e.instance)'
                    /\ d = DueTime(e.instance)'
      BY <1>11, <1>12, <1>14
    <2>3. ASSUME NEW k \in 1..Len(queue')
          PROVE  (\/ Expired(queue[k])
                  \/ /\ queue[k].instance \in Awaiting
                     /\ queue[k] = Awaited(queue[k].instance))'
      BY <2>1
    <2> QED
      BY <2>2, <2>3 DEF OthersExpired
  <1>17. LiveOnce'
    BY <1>6 DEF LiveOnce
  <1>18. AwaitedPlaced'
    <2> SUFFICES ASSUME NEW i \in Instances
                 PROVE  IF data[i].known <= StartTime
                        THEN \E k \in 1..Len(queue') : queue'[k] = Instantiation(i)
                        ELSE /\ Instantiation(i) \in scheduled'[data[i].known]
                             /\ \A k \in 1..Len(queue') : queue'[k] # Instantiation(i)
      BY <1>1, <1>11 DEF AwaitedPlaced, Awaiting
    <2>1. CASE data[i].known <= StartTime
      BY <1>6, <2>1
    <2>2. CASE ~(data[i].known <= StartTime)
      <3>1. data[i].known > StartTime /\ data[i].known \in Instants
        <4>1. data[i].known \in Instants /\ data[i].known \in Int /\ StartTime \in Int
          BY <1>3
        <4> QED
          BY <2>2, <4>1
      <3>2. Instantiation(i) \in scheduled'[data[i].known]
        <4>1. \A d \in Instants : scheduled'[d] = {Instantiation(j) : j \in L(d)}
          BY <1>1
        <4>2. i \in L(data[i].known)
          BY <3>1
        <4> HIDE DEF L
        <4> QED
          BY <3>1, <4>1, <4>2
      <3>3. \A k \in 1..Len(queue') : queue'[k] # Instantiation(i)
        BY <1>12, <1>13, <2>2
      <3> QED
        BY <2>2, <3>2, <3>3
    <2> QED
      BY <2>1, <2>2
  <1>19. CalendarAhead'
    BY <1>1, <1>2, <1>3, <1>14 DEF CalendarAhead
  <1>20. FiniteCalendar'
    BY <1>5 DEF FiniteCalendar
  <1> QED
    BY <1>8, <1>9, <1>10, <1>15, <1>16, <1>17, <1>18, <1>19, <1>20
       DEF IInv, HeldConsistently

-----------------------------------------------------------------------------
\* When the controller is asked, what is awaited is due later and scheduled.
LEMMA SettledAtDecision ==
  ASSUME IInv, AtDecision
  PROVE  /\ now \in Instants
         /\ \A i \in Awaiting : /\ DueTime(i) > now
                                /\ Awaited(i) \in scheduled[DueTime(i)]
  <1>1. now \in Instants /\ run = "running" /\ FirstLive = {}
    BY DEF AtDecision, IInv, RunStages
  <1>2. \A k \in 1..Len(queue) : Expired(queue[k])
    BY <1>1, NoneLive DEF IInv
  <1>3. \A i \in Awaiting : ~Expired(Awaited(i)) /\ DueTime(i) \in Instants
    BY AwaitedLive DEF IInv, AwaitedSound
  <1>4. now \in Int /\ \A d \in Instants : d \in Int
    BY <1>1, RunAssumption DEF Instants
  <1>5. ASSUME NEW i \in Awaiting
        PROVE  DueTime(i) > now /\ Awaited(i) \in scheduled[DueTime(i)]
    <2>1. ~(DueTime(i) <= now) /\ Awaited(i) \in scheduled[DueTime(i)]
      BY <1>1, <1>2, <1>3 DEF IInv, HeldConsistently, AwaitedPlaced
    <2>2. DueTime(i) \in Int
      BY <1>3, <1>4
    <2> QED
      BY <1>4, <2>1, <2>2
  <1> QED
    BY <1>1, <1>5

LEMMA ForkAgreesHolds == IInv => ForkAgrees
  <1> SUFFICES ASSUME IInv, AtDecision
               PROVE  /\ RebuiltQueue = {}
                      /\ \A d \in Instants :
                           RebuiltSchedule[d] = {e \in scheduled[d] : ~Expired(e)}
    BY DEF ForkAgrees
  <1>1. /\ now \in Instants
        /\ \A i \in Awaiting : /\ DueTime(i) > now
                               /\ Awaited(i) \in scheduled[DueTime(i)]
    BY SettledAtDecision
  <1>2. \A i \in Awaiting : /\ i \in Instances /\ ~Expired(Awaited(i))
                            /\ DueTime(i) \in Instants
    BY AwaitedLive DEF IInv, AwaitedSound
  <1>3. now \in Int /\ \A d \in Instants : d \in Int
    BY <1>1, RunAssumption DEF Instants
  <1>4. Recovered = Awaiting
    BY <1>1 DEF Recovered, DueTime
  <1>5. RebuiltQueue = {}
    <2>1. \A i \in Awaiting : ~(DueTime(i) <= now)
      <3> TAKE i \in Awaiting
      <3>1. DueTime(i) > now /\ DueTime(i) \in Int
        BY <1>1, <1>2, <1>3
      <3> QED
        BY <1>3, <3>1
    <2> QED
      BY <1>4, <2>1 DEF RebuiltQueue
  <1>6. ASSUME NEW d \in Instants
        PROVE  RebuiltSchedule[d] = {e \in scheduled[d] : ~Expired(e)}
    <2>1. RebuiltSchedule[d] =
            {Awaited(i) : i \in {j \in Awaiting : DueTime(j) = d /\ d > now}}
      BY <1>4 DEF RebuiltSchedule
    <2>2. ASSUME NEW i \in Awaiting, DueTime(i) = d
          PROVE  Awaited(i) \in scheduled[d] /\ ~Expired(Awaited(i))
      BY <1>1, <1>2, <2>2
    <2>3. ASSUME NEW e \in scheduled[d], ~Expired(e)
          PROVE  \E i \in Awaiting : e = Awaited(i) /\ DueTime(i) = d /\ d > now
      <3>1. e.instance \in Awaiting /\ e = Awaited(e.instance) /\ d = DueTime(e.instance)
        BY <2>3 DEF IInv, HeldConsistently, OthersExpired
      <3> QED
        BY <1>1, <3>1
    <2> QED
      BY <2>1, <2>2, <2>3
  <1> QED
    BY <1>5, <1>6

\* A round asked for at a decision that ends some instances, or none, and may
\* drop what is expired, keeps the queue and the calendar consistent.
LEMMA InstancesEnd ==
  ASSUME IInv, AtDecision, TypeOK', PhaseFitsToken',
         data' = data, now' = now, queue' = <<>>,
         token' = token, at' = at, expected' = expected,
         \A i \in Instances :
           \/ phase'[i] = phase[i]
           \/ phase'[i] = "gone" /\ phase[i] \in {"arrived", "ready", "busy"},
         \A i \in Instances : alarm'[i] = alarm[i] \/ alarm'[i] = Never,
         \A d \in Instants : /\ scheduled'[d] \subseteq scheduled[d]
                             /\ \A e \in scheduled[d] : ~Expired(e) => e \in scheduled'[d]
  PROVE  HeldConsistently'
  <1>1. /\ now \in Instants
        /\ \A i \in Awaiting : /\ DueTime(i) > now
                               /\ Awaited(i) \in scheduled[DueTime(i)]
    BY SettledAtDecision
  <1>2. now < Never /\ run # "new"
    BY <1>1, RunAssumption DEF Instants, Never, AtDecision
  <1>3. Len(queue') = 0
    OBVIOUS
  <1>4. \A i \in Awaiting : /\ i \in Instances /\ ~Expired(Awaited(i))
                            /\ Awaited(i).instance = i /\ DueTime(i) \in Instants
    BY AwaitedLive DEF IInv, AwaitedSound
  <1>5. \A i \in Awaiting' : /\ i \in Instances /\ i \in Awaiting
                             /\ Awaited(i)' = Awaited(i) /\ DueTime(i)' = DueTime(i)
    <2> TAKE i \in Awaiting'
    <2>1. i \in Instances /\ phase'[i] = phase[i] /\ i \in Awaiting
      BY DEF Awaiting
    <2> QED
      BY <2>1 DEF Awaited, DueTime, ProcessReadyTime, Instantiation, Ready, Completion
  <1>6. ASSUME NEW e \in Event, Expired(e) PROVE Expired(e)'
    BY <1>6 DEF Expired, Event
  <1>7. ASSUME NEW i \in Awaiting, NEW e, e = Awaited(i)
        PROVE  \/ Expired(e)'
               \/ /\ i \in Awaiting' /\ e = Awaited(i)'
                  /\ DueTime(i)' = DueTime(i)
    <2>1. i \in Instances
      BY <1>4
    <2>2. CASE phase'[i] = phase[i]
      BY <1>5, <1>7, <2>1, <2>2 DEF Awaiting
    <2>3. CASE phase'[i] = "gone" /\ phase[i] \in {"arrived", "busy"}
      <3>1. e.kind # "instantiation" /\ e.instance = i
        BY <1>4, <1>7, <2>3 DEF Awaited, Ready, Completion
      <3> QED
        BY <2>3, <3>1 DEF Expired
    <2> QED
      BY <2>1, <2>2, <2>3 DEF Awaiting
  <1>8. TokensPast'
    BY <1>3 DEF TokensPast, IInv, HeldConsistently
  <1>9. OthersExpired'
    <2>1. ASSUME NEW d \in Instants, NEW e \in scheduled'[d]
          PROVE  \/ Expired(e)'
                 \/ /\ e.instance \in Awaiting' /\ e = Awaited(e.instance)'
                    /\ d = DueTime(e.instance)'
      <3>1. e \in scheduled[d] /\ e \in Event
        BY DEF IInv, TypeOK
      <3>2. \/ Expired(e)
            \/ e.instance \in Awaiting /\ e = Awaited(e.instance) /\ d = DueTime(e.instance)
        BY <3>1 DEF IInv, HeldConsistently, OthersExpired
      <3> QED
        BY <1>6, <1>7, <3>1, <3>2
    <2> QED
      BY <1>3, <2>1 DEF OthersExpired
  <1>10. LiveOnce'
    BY <1>3 DEF LiveOnce
  <1>11. AwaitedPlaced'
    <2> SUFFICES ASSUME NEW i \in Awaiting'
                 PROVE  IF DueTime(i)' <= now
                        THEN \E k \in 1..Len(queue') : queue'[k] = Awaited(i)'
                        ELSE /\ Awaited(i)' \in scheduled'[DueTime(i)']
                             /\ \A k \in 1..Len(queue') : queue'[k] # Awaited(i)'
      BY DEF AwaitedPlaced
    <2>1. /\ Awaited(i)' = Awaited(i) /\ DueTime(i)' = DueTime(i)
          /\ DueTime(i) > now /\ DueTime(i) \in Instants
          /\ Awaited(i) \in scheduled'[DueTime(i)]
      BY <1>1, <1>4, <1>5
    <2>2. ~(DueTime(i) <= now)
      BY <1>1, <2>1, RunAssumption DEF Instants
    <2> QED
      BY <1>3, <2>1, <2>2
  <1>12. CalendarAhead'
    BY <1>2 DEF CalendarAhead, IInv, HeldConsistently
  <1>13. FiniteCalendar'
    BY FS_Subset DEF FiniteCalendar, IInv, HeldConsistently
  <1> QED
    BY <1>8, <1>9, <1>10, <1>11, <1>12, <1>13 DEF HeldConsistently

LEMMA BroadcastKeeps ==
  ASSUME IInv, BroadcastSignal
  PROVE  IInv'
  <1>1. /\ AtDecision /\ run = "running" /\ queue' = <<>>
        /\ UNCHANGED <<data, run, now, at, token, expected, scheduled>>
    BY DEF BroadcastSignal, AtDecision
  <1> DEFINE hit == {i \in Instances : phase[i] \in {"arrived", "ready", "busy"}}
  <1>2. /\ phase' = [i \in Instances |-> IF i \in hit THEN "gone" ELSE phase[i]]
        /\ alarm' = [i \in Instances |-> IF i \in hit THEN Never ELSE alarm[i]]
    BY DEF BroadcastSignal
  <1>3. queue' \in Seq(Event)
    BY <1>1, EmptySeq
  <1>4. TypeOK'
    BY <1>1, <1>2, <1>3 DEF IInv, TypeOK, Phases
  <1>5. PhaseFitsToken'
    BY <1>1, <1>2 DEF IInv, PhaseFitsToken
  <1>6. HeldConsistently'
    <2>1. \A i \in Instances :
            \/ phase'[i] = phase[i]
            \/ phase'[i] = "gone" /\ phase[i] \in {"arrived", "ready", "busy"}
      BY <1>2
    <2>2. \A i \in Instances : alarm'[i] = alarm[i] \/ alarm'[i] = Never
      BY <1>2
    <2> QED
      BY <1>1, <1>4, <1>5, <2>1, <2>2, InstancesEnd
  <1> QED
    BY <1>1, <1>4, <1>5, <1>6, RunningOn DEF IInv

LEMMA TerminateKeeps ==
  ASSUME IInv, Terminate
  PROVE  IInv'
  <1>1. /\ AtDecision /\ Ending /\ run = "running" /\ run' = "ended" /\ queue' = <<>>
        /\ UNCHANGED <<data, now, phase, at, token, expected, alarm, scheduled>>
    BY DEF Terminate, AtDecision, work
  <1>2. queue' \in Seq(Event)
    BY <1>1, EmptySeq
  <1>3. TypeOK'
    BY <1>1, <1>2 DEF IInv, TypeOK
  <1>4. PhaseFitsToken'
    BY <1>1 DEF IInv, PhaseFitsToken
  <1>5. HeldConsistently'
    BY <1>1, <1>3, <1>4, InstancesEnd
  <1>6. RunStages'
    BY <1>1 DEF IInv, RunStages
  <1>7. EndedComplete'
    <2> SUFFICES ASSUME now < EndTime, NEW i \in Instances PROVE phase[i] = "gone"
      BY <1>1 DEF EndedComplete
    <2>1. now \in Instants
      BY <1>1, SettledAtDecision
    <2>2. /\ \A j \in Instances : phase[j] \in {"declared", "gone"}
          /\ \A d \in Instants : scheduled[d] = {}
      BY <1>1, <2>1, RunAssumption DEF Ending, Instants
    <2>3. i \notin Awaiting
      <3> SUFFICES ASSUME i \in Awaiting PROVE FALSE
        OBVIOUS
      <3>1. Awaited(i) \in scheduled[DueTime(i)] /\ DueTime(i) \in Instants
        BY <1>1, SettledAtDecision, AwaitedLive DEF IInv, AwaitedSound
      <3> QED
        BY <2>2, <3>1
    <2> QED
      BY <2>2, <2>3 DEF Awaiting
  <1> QED
    BY <1>3, <1>4, <1>5, <1>6, <1>7 DEF IInv

LEMMA ForkKeeps ==
  ASSUME IInv, Fork
  PROVE  IInv'
  <1>1. /\ AtDecision /\ run = "running"
        /\ queue' \in Orderings(RebuiltQueue) /\ scheduled' = RebuiltSchedule
        /\ UNCHANGED <<data, run, now, phase, at, token, expected, alarm>>
    BY DEF Fork, InstallState, AtDecision, work
  <1>2. /\ RebuiltQueue = {}
        /\ \A d \in Instants : scheduled'[d] = {e \in scheduled[d] : ~Expired(e)}
    BY <1>1, ForkAgreesHolds DEF ForkAgrees
  <1>3. queue' = <<>>
    <2>1. /\ queue' \in Seq({}) /\ Len(queue') \in Nat
          /\ \A k \in 1..Len(queue') : queue'[k] \in {}
      BY <1>1, <1>2, FS_EmptySet, OrderingIsSequence
    <2>2. Len(queue') = 0
      BY <2>1
    <2> QED
      BY <2>1, <2>2, EmptySeq
  <1>4. queue' \in Seq(Event) /\ scheduled' \in [Instants -> SUBSET Event]
    <2>1. queue' \in Seq(Event)
      BY <1>3, EmptySeq
    <2>2. \A d \in Instants : scheduled'[d] \in SUBSET Event
      BY <1>2 DEF IInv, TypeOK
    <2> QED
      BY <1>1, <2>1, <2>2 DEF RebuiltSchedule
  <1>5. TypeOK'
    BY <1>1, <1>4 DEF IInv, TypeOK
  <1>6. PhaseFitsToken'
    BY <1>1 DEF IInv, PhaseFitsToken
  <1>7. HeldConsistently'
    BY <1>1, <1>2, <1>3, <1>5, <1>6, InstancesEnd
  <1> QED
    BY <1>1, <1>5, <1>6, <1>7, RunningOn DEF IInv

-----------------------------------------------------------------------------
\* The instances a timer of which triggers as the clock enters an instant, and
\* those of them that move on to their next activity, what they then await and
\* when it is due.
Hit(t) == {i \in Instances : alarm[i] <= t}
Moved(t) == {i \in Hit(t) : at[i] < NumActivities}
Arrival(i) == Ready(i, token[i] + 1)
ArrivalDue(i) == data[i].disclosure[at[i] + 1]

\* A timer triggers for a busy task only, and what it makes the instance await
\* concerns a token yet to come.
LEMMA HitBusy ==
  ASSUME IInv, NEW t \in Instants
  PROVE  /\ \A i \in Hit(t) : /\ i \in Instances /\ phase[i] = "busy"
                              /\ token[i] \in Nat /\ token[i] > 0
         /\ \A i \in Moved(t) : /\ i \in Hit(t)
                                /\ at[i] + 1 \in Activities
                                /\ Arrival(i) \in Event
                                /\ Arrival(i).instance = i
                                /\ Arrival(i).token = token[i] + 1
                                /\ ArrivalDue(i) \in Instants
  <1>1. ASSUME NEW i \in Hit(t)
        PROVE  i \in Instances /\ phase[i] = "busy" /\ token[i] \in Nat /\ token[i] > 0
    <2>1. i \in Instances /\ alarm[i] <= t /\ token[i] \in Nat
      BY DEF Hit, IInv, TypeOK
    <2>2. alarm[i] # Never
      BY <2>1, RunAssumption DEF Instants, Never
    <2> QED
      BY <2>1, <2>2 DEF IInv, PhaseFitsToken
  <1>2. ASSUME NEW i \in Moved(t)
        PROVE  /\ i \in Hit(t) /\ at[i] + 1 \in Activities
               /\ Arrival(i) \in Event /\ Arrival(i).instance = i
               /\ Arrival(i).token = token[i] + 1
               /\ ArrivalDue(i) \in Instants
    <2>1. i \in Hit(t) /\ i \in Instances /\ token[i] \in Nat
      BY <1>1 DEF Moved
    <2>2. at[i] + 1 \in Activities
      BY <2>1, RunAssumption DEF Moved, IInv, TypeOK, Activities
    <2>3. ArrivalDue(i) \in Instants
      BY <2>1, <2>2 DEF ArrivalDue, IInv, TypeOK, InstanceData
    <2> QED
      BY <2>1, <2>2, <2>3 DEF Arrival, Ready, Event
  <1> QED
    BY <1>1, <1>2

\* What the tick of the clock makes of the instances.
TickMoves(t) ==
  /\ run = "running" /\ AtDecision /\ now \in Instants /\ t \in Instants
  /\ now < EndTime /\ t < Never
  /\ now' = t /\ run' = run /\ data' = data /\ expected' = expected
  /\ \A i \in Hit(t) \ Moved(t) : phase'[i] = "gone" /\ at'[i] = at[i]
  /\ \A i \in Moved(t) : phase'[i] = "arrived" /\ at'[i] = at[i] + 1
  /\ \A i \in Hit(t) : token'[i] = token[i] + 1 /\ alarm'[i] = Never
  /\ \A i \in Instances \ Hit(t) :
       /\ phase'[i] = phase[i] /\ at'[i] = at[i]
       /\ token'[i] = token[i] /\ alarm'[i] = alarm[i]

\* What it makes of the queue and the calendar, event by event.
TickHolds(t) ==
  /\ \A k \in 1..Len(queue') :
       \/ queue'[k] \in Released(t)
       \/ \E i \in Moved(t) : queue'[k] = Arrival(i) /\ ArrivalDue(i) <= t
  /\ \A e \in Released(t) : \E k \in 1..Len(queue') : queue'[k] = e
  /\ \A i \in Moved(t) :
       ArrivalDue(i) <= t => \E k \in 1..Len(queue') : queue'[k] = Arrival(i)
  /\ \A d \in Instants : \A e \in scheduled'[d] :
       \/ e \in scheduled[d] /\ d # t
       \/ \E i \in Moved(t) : e = Arrival(i) /\ ArrivalDue(i) = d /\ d > t
  /\ \A d \in Instants \ {t} : scheduled[d] \subseteq scheduled'[d]
  /\ \A i \in Moved(t) :
       ArrivalDue(i) > t => Arrival(i) \in scheduled'[ArrivalDue(i)]

LEMMA TickEffect ==
  ASSUME IInv, ClockTick, NEW t, t = now + 1
  PROVE  TickMoves(t) /\ TickHolds(t) /\ TypeOK' /\ PhaseFitsToken'
         /\ LiveOnce' /\ FiniteCalendar'
  <1>1. /\ run = "running" /\ AtDecision /\ now \in Instants /\ t \in Instants
        /\ now < EndTime /\ t < Never /\ now \in Int /\ t \in Int
    <2>1. run = "running" /\ AtDecision /\ now \in Instants /\ ~Ending
      BY DEF ClockTick, AtDecision, IInv, RunStages
    <2> QED
      BY <2>1, RunAssumption DEF Ending, Instants, Never
  <1> DEFINE A == {Arrival(i) : i \in {j \in Moved(t) : ArrivalDue(j) <= t}}
             L(d) == {Arrival(i) : i \in {j \in Moved(t) : ArrivalDue(j) = d /\ d > t}}
  <1>2. /\ now' = t /\ run' = run /\ data' = data /\ expected' = expected
        /\ phase' = [i \in Instances |->
                       IF i \in Moved(t) THEN "arrived"
                       ELSE IF i \in Hit(t) THEN "gone" ELSE phase[i]]
        /\ at' = [i \in Instances |-> IF i \in Moved(t) THEN at[i] + 1 ELSE at[i]]
        /\ token' = [i \in Instances |-> IF i \in Hit(t) THEN token[i] + 1 ELSE token[i]]
        /\ alarm' = [i \in Instances |-> IF i \in Hit(t) THEN Never ELSE alarm[i]]
    BY DEF ClockTick, Hit, Moved
  <1>3. \E released \in Orderings(Released(t)), arrived \in Orderings(A) :
          queue' = released \o arrived
    BY DEF ClockTick, Hit, Moved, Arrival, ArrivalDue
  <1>4. scheduled' = [d \in Instants |-> Unreleased(t)[d] \union L(d)]
    BY DEF ClockTick, Hit, Moved, Arrival, ArrivalDue
  <1>5. /\ \A i \in Hit(t) : /\ i \in Instances /\ phase[i] = "busy"
                             /\ token[i] \in Nat /\ token[i] > 0
        /\ \A i \in Moved(t) : /\ i \in Hit(t) /\ at[i] + 1 \in Activities
                               /\ Arrival(i) \in Event /\ Arrival(i).instance = i
                               /\ Arrival(i).token = token[i] + 1
                               /\ ArrivalDue(i) \in Instants
    BY <1>1, HitBusy
  <1>6. /\ \A i \in Hit(t) \ Moved(t) : phase'[i] = "gone" /\ at'[i] = at[i]
        /\ \A i \in Moved(t) : phase'[i] = "arrived" /\ at'[i] = at[i] + 1
        /\ \A i \in Hit(t) : token'[i] = token[i] + 1 /\ alarm'[i] = Never
        /\ \A i \in Instances \ Hit(t) :
             /\ phase'[i] = phase[i] /\ at'[i] = at[i]
             /\ token'[i] = token[i] /\ alarm'[i] = alarm[i]
    BY <1>2, <1>5
  <1>7. ASSUME NEW T \in SUBSET Moved(t)
        PROVE  IsFiniteSet({Arrival(i) : i \in T}) /\ {Arrival(i) : i \in T} \subseteq Event
    <2> DEFINE f == [i \in T |-> Arrival(i)]
    <2>1. T \in SUBSET Instances /\ f \in [T -> Event]
      BY <1>5
    <2>2. {Arrival(i) : i \in T} = {f[i] : i \in T}
      OBVIOUS
    <2> HIDE DEF f
    <2>3. IsFiniteSet({f[i] : i \in T})
      BY <2>1, ImageFinite
    <2> QED
      BY <2>1, <2>2, <2>3
  <1>8. IsFiniteSet(A) /\ A \subseteq Event
    <2>1. {j \in Moved(t) : ArrivalDue(j) <= t} \in SUBSET Moved(t)
      OBVIOUS
    <2> QED
      BY <1>7, <2>1
  <1>9. \A d \in Instants : IsFiniteSet(L(d)) /\ L(d) \subseteq Event
    <2> TAKE d \in Instants
    <2>1. {j \in Moved(t) : ArrivalDue(j) = d /\ d > t} \in SUBSET Moved(t)
      OBVIOUS
    <2> QED
      BY <1>7, <2>1
  <1>10. /\ IsFiniteSet(Released(t)) /\ Released(t) \subseteq Event
         /\ Released(t) \subseteq scheduled[t]
    <2>1. Released(t) \in SUBSET scheduled[t]
      BY DEF Released
    <2>2. IsFiniteSet(scheduled[t]) /\ scheduled[t] \subseteq Event
      BY <1>1 DEF IInv, TypeOK, HeldConsistently, FiniteCalendar
    <2>3. IsFiniteSet(Released(t))
      BY <2>1, <2>2, FS_Subset
    <2> QED
      BY <2>1, <2>2, <2>3
  <1>11. \A e \in A : \E i \in Moved(t) : e = Arrival(i) /\ ArrivalDue(i) <= t
    OBVIOUS
  <1>12. \A i \in Moved(t) : ArrivalDue(i) <= t => Arrival(i) \in A
    OBVIOUS
  <1>13. \A e \in Released(t) : e \notin A
    <2> SUFFICES ASSUME NEW e \in Released(t), NEW i \in Moved(t), e = Arrival(i)
                 PROVE  FALSE
      BY <1>11
    <2>1. e.token <= token[e.instance]
      BY <1>1, <1>10 DEF IInv, HeldConsistently, TokensPast
    <2>2. token[i] \in Nat /\ e.instance = i /\ e.token = token[i] + 1
      BY <1>5
    <2> QED
      BY <2>1, <2>2
  <1> HIDE DEF A
  <1>14. /\ queue' \in Seq(Event)
         /\ \A k \in 1..Len(queue') : queue'[k] \in Released(t) \/ queue'[k] \in A
         /\ \A e \in Released(t) \union A : \E k \in 1..Len(queue') : queue'[k] = e
         /\ \A j, k \in 1..Len(queue') : queue'[j] = queue'[k] => j = k
    <2>1. PICK released \in Orderings(Released(t)), arrived \in Orderings(A) :
            queue' = released \o arrived
      BY <1>3
    <2>2. /\ released \in Seq(Released(t)) /\ Len(released) \in Nat
          /\ \A e \in Released(t) : \E k \in 1..Len(released) : released[k] = e
          /\ \A k \in 1..Len(released) : released[k] \in Released(t)
          /\ \A j, k \in 1..Len(released) : released[j] = released[k] => j = k
      BY <1>10, OrderingIsSequence
    <2>3. /\ arrived \in Seq(A) /\ Len(arrived) \in Nat
          /\ \A e \in A : \E k \in 1..Len(arrived) : arrived[k] = e
          /\ \A k \in 1..Len(arrived) : arrived[k] \in A
          /\ \A j, k \in 1..Len(arrived) : arrived[j] = arrived[k] => j = k
      BY <1>8, OrderingIsSequence
    <2>4. released \in Seq(Event) /\ arrived \in Seq(Event)
      BY <1>8, <1>10, <2>2, <2>3
    <2>5. /\ queue' \in Seq(Event)
          /\ Len(queue') = Len(released) + Len(arrived)
          /\ \A k \in 1..(Len(released) + Len(arrived)) :
               queue'[k] = IF k <= Len(released) THEN released[k]
                                                 ELSE arrived[k - Len(released)]
      BY <2>1, <2>4, ConcatProperties
    <2>6. /\ \A k \in 1..Len(released) : k \in 1..Len(queue') /\ queue'[k] = released[k]
          /\ \A k \in 1..Len(arrived) : /\ Len(released) + k \in 1..Len(queue')
                                        /\ queue'[Len(released) + k] = arrived[k]
      <3>1. ASSUME NEW k \in 1..Len(released)
            PROVE  k \in 1..Len(queue') /\ queue'[k] = released[k]
        <4>1. k \in 1..(Len(released) + Len(arrived)) /\ k <= Len(released)
          BY <2>2, <2>3
        <4> QED
          BY <2>5, <4>1
      <3>2. ASSUME NEW k \in 1..Len(arrived)
            PROVE  /\ Len(released) + k \in 1..Len(queue')
                   /\ queue'[Len(released) + k] = arrived[k]
        <4>0. PICK n, l : n = Len(released) /\ l = Len(arrived) /\ n \in Nat /\ l \in Nat
          BY <2>2, <2>3
        <4>1. /\ Len(released) + k \in 1..(Len(released) + Len(arrived))
              /\ ~(Len(released) + k <= Len(released))
              /\ Len(released) + k - Len(released) = k
          <5>1. n + k \in 1..(n + l) /\ ~(n + k <= n) /\ n + k - n = k
            BY <4>0
          <5> QED
            BY <4>0, <5>1
        <4> QED
          BY <2>5, <4>1
      <3> QED
        BY <3>1, <3>2
    <2>7. \A k \in 1..Len(queue') :
            \/ k \in 1..Len(released) /\ queue'[k] = released[k]
            \/ /\ k - Len(released) \in 1..Len(arrived)
               /\ queue'[k] = arrived[k - Len(released)]
      BY <2>2, <2>3, <2>5
    <2>8. \A k \in 1..Len(queue') : queue'[k] \in Released(t) \/ queue'[k] \in A
      BY <2>2, <2>3, <2>7
    <2>9. \A e \in Released(t) \union A : \E k \in 1..Len(queue') : queue'[k] = e
      <3>1. ASSUME NEW e \in Released(t) PROVE \E k \in 1..Len(queue') : queue'[k] = e
        BY <2>2, <2>6
      <3>2. ASSUME NEW e \in A PROVE \E k \in 1..Len(queue') : queue'[k] = e
        <4>1. PICK k \in 1..Len(arrived) : arrived[k] = e
          BY <2>3
        <4>2. /\ Len(released) + k \in 1..Len(queue')
              /\ queue'[Len(released) + k] = e
          BY <2>6, <4>1
        <4> QED
          BY <4>2
      <3> QED
        BY <3>1, <3>2
    <2>10. ASSUME NEW j \in 1..Len(queue'), NEW k \in 1..Len(queue'), queue'[j] = queue'[k]
           PROVE  j = k
      <3>1. CASE j \in 1..Len(released) /\ k \in 1..Len(released)
        BY <2>2, <2>6, <2>10, <3>1
      <3>2. CASE /\ j - Len(released) \in 1..Len(arrived)
                 /\ k - Len(released) \in 1..Len(arrived)
                 /\ queue'[j] = arrived[j - Len(released)]
                 /\ queue'[k] = arrived[k - Len(released)]
        <4>1. j - Len(released) = k - Len(released)
          BY <2>3, <2>10, <3>2
        <4> QED
          BY <2>2, <2>5, <4>1
      <3> QED
        BY <1>13, <2>2, <2>3, <2>7, <2>10, <3>1, <3>2
    <2> QED
      BY <2>5, <2>8, <2>9, <2>10
  <1>15. \A d \in Instants :
           scheduled'[d] = (IF d = t THEN {} ELSE scheduled[d]) \union L(d)
    BY <1>4 DEF Unreleased, IInv, TypeOK
  <1>16. scheduled' \in [Instants -> SUBSET Event]
    <2>1. \A d \in Instants : scheduled'[d] \subseteq Event
      BY <1>9, <1>15 DEF IInv, TypeOK
    <2> QED
      BY <1>4, <2>1
  <1>17. /\ \A d \in Instants : \A e \in scheduled'[d] :
              \/ e \in scheduled[d] /\ d # t
              \/ \E i \in Moved(t) : e = Arrival(i) /\ ArrivalDue(i) = d /\ d > t
         /\ \A d \in Instants \ {t} : scheduled[d] \subseteq scheduled'[d]
    BY <1>15
  <1>18. \A i \in Moved(t) :
           ArrivalDue(i) > t => Arrival(i) \in scheduled'[ArrivalDue(i)]
    BY <1>5, <1>15
  <1>19. FiniteCalendar'
    <2> SUFFICES ASSUME NEW d \in Instants PROVE IsFiniteSet(scheduled'[d])
      BY DEF FiniteCalendar
    <2>1. IsFiniteSet(L(d)) /\ IsFiniteSet(scheduled[d]) /\ IsFiniteSet({})
      BY <1>9, FS_EmptySet DEF IInv, HeldConsistently, FiniteCalendar
    <2> HIDE DEF L
    <2>2. IsFiniteSet({} \union L(d)) /\ IsFiniteSet(scheduled[d] \union L(d))
      BY <2>1, FS_Union
    <2> QED
      BY <1>15, <2>2
  <1>20. LiveOnce'
    BY <1>14 DEF LiveOnce
  <1> HIDE DEF L
  <1>21. TypeOK'
    <2>1. phase' \in [Instances -> Phases]
      BY <1>2 DEF IInv, TypeOK, Phases
    <2>2. at' \in [Instances -> Activities]
      BY <1>2, <1>5 DEF IInv, TypeOK
    <2>3. token' \in [Instances -> Nat]
      BY <1>2 DEF IInv, TypeOK
    <2>4. alarm' \in [Instances -> Instants \union {Never}]
      BY <1>2 DEF IInv, TypeOK
    <2> QED
      BY <1>1, <1>2, <1>14, <1>16, <2>1, <2>2, <2>3, <2>4 DEF IInv, TypeOK
  <1>22. PhaseFitsToken'
    <2> SUFFICES ASSUME NEW i \in Instances
                 PROVE  /\ phase'[i] \in {"declared", "created"} => token'[i] = 0
                        /\ phase'[i] \in {"arrived", "ready", "busy"} => token'[i] > 0
                        /\ phase'[i] # "busy" => alarm'[i] = Never
      BY DEF PhaseFitsToken
    <2>1. CASE i \in Hit(t)
      BY <1>5, <1>6, <2>1
    <2>2. CASE i \notin Hit(t)
      BY <1>6, <2>2 DEF IInv, PhaseFitsToken
    <2> QED
      BY <2>1, <2>2
  <1>23. TickMoves(t)
    BY <1>1, <1>2, <1>6 DEF TickMoves
  <1>24. \A k \in 1..Len(queue') :
           \/ queue'[k] \in Released(t)
           \/ \E i \in Moved(t) : queue'[k] = Arrival(i) /\ ArrivalDue(i) <= t
    BY <1>11, <1>14
  <1>25. /\ \A e \in Released(t) : \E k \in 1..Len(queue') : queue'[k] = e
         /\ \A i \in Moved(t) :
              ArrivalDue(i) <= t => \E k \in 1..Len(queue') : queue'[k] = Arrival(i)
    BY <1>12, <1>14
  <1>26. TickHolds(t)
    BY <1>17, <1>18, <1>24, <1>25 DEF TickHolds
  <1> QED
    BY <1>19, <1>20, <1>21, <1>22, <1>23, <1>26

\* What an instance awaits is not disturbed by the tick, unless a timer of the
\* instance triggers: then the event awaited before is expired.
LEMMA TickAwaited ==
  ASSUME IInv, NEW t, TickMoves(t)
  PROVE  /\ \A i \in Awaiting : \A e : e = Awaited(i) =>
              \/ i \in Hit(t) /\ Expired(e)'
              \/ /\ i \notin Hit(t) /\ i \in Awaiting'
                 /\ e = Awaited(i)' /\ DueTime(i)' = DueTime(i)
         /\ \A i \in Moved(t) : /\ i \in Awaiting' /\ Awaited(i)' = Arrival(i)
                                /\ DueTime(i)' = ArrivalDue(i)
         /\ \A i \in Awaiting' : i \in Moved(t) \/ i \in Awaiting \ Hit(t)
         /\ \A e \in Event : Expired(e) /\ e.token <= token[e.instance] => Expired(e)'
         /\ \A e \in Event : e.token <= token[e.instance] => e.token <= token'[e.instance]
  <1>1. /\ \A i \in Hit(t) : /\ i \in Instances /\ phase[i] = "busy"
                             /\ token[i] \in Nat /\ token[i] > 0
        /\ \A i \in Moved(t) : i \in Hit(t)
    BY HitBusy DEF TickMoves
  <1>2. ASSUME NEW i \in Awaiting, NEW e, e = Awaited(i)
        PROVE  \/ i \in Hit(t) /\ Expired(e)'
               \/ /\ i \notin Hit(t) /\ i \in Awaiting'
                  /\ e = Awaited(i)' /\ DueTime(i)' = DueTime(i)
    <2>1. i \in Instances
      BY DEF Awaiting
    <2>2. CASE i \in Hit(t)
      <3>1. e = Completion(i, token[i])
        BY <1>1, <1>2, <2>2 DEF Awaited
      <3>2. token'[i] # token[i] /\ token[i] # 0
        BY <1>1, <2>2 DEF TickMoves
      <3> QED
        BY <2>2, <3>1, <3>2 DEF Expired, Completion
    <2>3. CASE i \notin Hit(t)
      <3>1. /\ phase'[i] = phase[i] /\ token'[i] = token[i] /\ at'[i] = at[i]
            /\ expected' = expected /\ data' = data
        BY <2>1, <2>3 DEF TickMoves
      <3>2. i \in Awaiting'
        BY <2>1, <3>1 DEF Awaiting
      <3>3. Awaited(i)' = Awaited(i) /\ DueTime(i)' = DueTime(i)
        BY <3>1 DEF Awaited, DueTime, ProcessReadyTime, Instantiation, Ready, Completion
      <3> QED
        BY <1>2, <2>3, <3>2, <3>3
    <2> QED
      BY <2>2, <2>3
  <1>3. ASSUME NEW i \in Moved(t)
        PROVE  /\ i \in Awaiting' /\ Awaited(i)' = Arrival(i)
               /\ DueTime(i)' = ArrivalDue(i)
    <2>1. /\ i \in Instances /\ phase'[i] = "arrived" /\ token'[i] = token[i] + 1
          /\ at'[i] = at[i] + 1 /\ data' = data
      BY <1>1 DEF TickMoves
    <2> QED
      BY <2>1 DEF Awaiting, Awaited, DueTime, Arrival, ArrivalDue, Ready
  <1>4. ASSUME NEW i \in Awaiting' PROVE i \in Moved(t) \/ i \in Awaiting \ Hit(t)
    <2>1. i \in Instances /\ phase'[i] # "gone"
      BY DEF Awaiting
    <2>2. CASE i \notin Hit(t)
      BY <2>1, <2>2 DEF Awaiting, TickMoves
    <2>3. CASE i \in Hit(t)
      BY <2>1, <2>3 DEF TickMoves
    <2> QED
      BY <2>2, <2>3
  <1>5. ASSUME NEW e \in Event, e.token <= token[e.instance]
        PROVE  e.token <= token'[e.instance] /\ (Expired(e) => Expired(e)')
    <2>1. e.instance \in Instances /\ token[e.instance] \in Nat /\ e.token \in Nat
      BY DEF Event, IInv, TypeOK
    <2>2. CASE e.instance \in Hit(t)
      <3>1. /\ token'[e.instance] = token[e.instance] + 1
            /\ phase[e.instance] = "busy"
        BY <1>1, <2>2 DEF TickMoves
      <3> QED
        BY <1>5, <2>1, <3>1, ExpiredForGood
    <2>3. CASE e.instance \notin Hit(t)
      <3>1. /\ token'[e.instance] = token[e.instance]
            /\ phase'[e.instance] = phase[e.instance]
        BY <2>1, <2>3 DEF TickMoves
      <3> QED
        BY <1>5, <2>1, <3>1, ExpiredForGood
    <2> QED
      BY <2>2, <2>3
  <1> QED
    BY <1>2, <1>3, <1>4, <1>5

LEMMA ClockTickKeeps ==
  ASSUME IInv, ClockTick
  PROVE  IInv'
  <1>1. PICK t : t = now + 1
    OBVIOUS
  <1>2. /\ TickMoves(t) /\ TickHolds(t) /\ TypeOK' /\ PhaseFitsToken'
        /\ LiveOnce' /\ FiniteCalendar'
    BY <1>1, TickEffect
  <1>3. /\ \A i \in Awaiting : \A e : e = Awaited(i) =>
              \/ i \in Hit(t) /\ Expired(e)'
              \/ /\ i \notin Hit(t) /\ i \in Awaiting'
                 /\ e = Awaited(i)' /\ DueTime(i)' = DueTime(i)
        /\ \A i \in Moved(t) : /\ i \in Awaiting' /\ Awaited(i)' = Arrival(i)
                               /\ DueTime(i)' = ArrivalDue(i)
        /\ \A i \in Awaiting' : i \in Moved(t) \/ i \in Awaiting \ Hit(t)
        /\ \A e \in Event : Expired(e) /\ e.token <= token[e.instance] => Expired(e)'
        /\ \A e \in Event : e.token <= token[e.instance] => e.token <= token'[e.instance]
    BY <1>2, TickAwaited
  <1>4. /\ run = "running" /\ run' = run /\ now' = t /\ AtDecision
        /\ now \in Int /\ t \in Int /\ t \in Instants /\ t < Never
        /\ \A d \in Instants : d \in Int
    BY <1>1, <1>2, RunAssumption DEF TickMoves, Instants
  <1>5. /\ \A i \in Hit(t) : i \in Instances /\ token[i] \in Nat
        /\ \A i \in Moved(t) : /\ i \in Hit(t)
                               /\ Arrival(i) \in Event /\ Arrival(i).instance = i
                               /\ Arrival(i).token = token[i] + 1
                               /\ ArrivalDue(i) \in Instants
    BY <1>4, HitBusy
  <1>6. \A d \in Instants : \A e \in scheduled[d] :
          e \in Event /\ e.token <= token[e.instance]
    BY DEF IInv, TypeOK, HeldConsistently, TokensPast
  <1>7. \A e \in Released(t) : e \in scheduled[t]
    BY DEF Released
  <1>8. RunStages' /\ EndedComplete'
    BY <1>4 DEF RunStages, EndedComplete
  \* Whatever was scheduled is expired or still awaited at the same time.
  <1>9. ASSUME NEW d \in Instants, NEW e \in scheduled[d]
        PROVE  \/ Expired(e)'
               \/ /\ e.instance \in Awaiting' /\ e = Awaited(e.instance)'
                  /\ d = DueTime(e.instance)'
    <2>1. \/ Expired(e)
          \/ e.instance \in Awaiting /\ e = Awaited(e.instance) /\ d = DueTime(e.instance)
      BY DEF IInv, HeldConsistently, OthersExpired
    <2>2. CASE Expired(e)
      BY <1>3, <1>6, <2>2
    <2>3. CASE e.instance \in Awaiting /\ e = Awaited(e.instance) /\ d = DueTime(e.instance)
      BY <1>3, <2>3
    <2> QED
      BY <2>1, <2>2, <2>3
  <1>10. \A k \in 1..Len(queue') :
           \/ queue'[k] \in scheduled[t]
           \/ \E i \in Moved(t) : queue'[k] = Arrival(i) /\ ArrivalDue(i) <= t
    BY <1>2, <1>7 DEF TickHolds
  <1>11. \A d \in Instants : \A e \in scheduled'[d] :
           \/ e \in scheduled[d] /\ d # t
           \/ \E i \in Moved(t) : e = Arrival(i) /\ ArrivalDue(i) = d /\ d > t
    BY <1>2 DEF TickHolds
  <1>12. TokensPast'
    <2>1. \A i \in Moved(t) : Arrival(i).token <= token'[Arrival(i).instance]
      BY <1>2, <1>5 DEF TickMoves
    <2>2. ASSUME NEW k \in 1..Len(queue')
          PROVE  queue'[k].token <= token'[queue'[k].instance]
      BY <1>3, <1>4, <1>6, <1>10, <2>1
    <2>3. ASSUME NEW d \in Instants, NEW e \in scheduled'[d]
          PROVE  e.token <= token'[e.instance]
      BY <1>3, <1>6, <1>11, <2>1
    <2> QED
      BY <2>2, <2>3 DEF TokensPast
  <1>13. OthersExpired'
    <2>1. ASSUME NEW i \in Moved(t), NEW e, e = Arrival(i)
          PROVE  /\ e.instance \in Awaiting' /\ e = Awaited(e.instance)'
                 /\ DueTime(e.instance)' = ArrivalDue(i)
      <3>1. e.instance = i
        BY <1>5, <2>1
      <3> QED
        BY <1>3, <2>1, <3>1
    <2>2. ASSUME NEW k \in 1..Len(queue'), NEW e, e = queue'[k]
          PROVE  Expired(e)' \/ (e.instance \in Awaiting' /\ e = Awaited(e.instance)')
      BY <1>4, <1>9, <1>10, <2>1, <2>2
    <2>3. ASSUME NEW d \in Instants, NEW e \in scheduled'[d]
          PROVE  \/ Expired(e)'
                 \/ /\ e.instance \in Awaiting' /\ e = Awaited(e.instance)'
                    /\ d = DueTime(e.instance)'
      BY <1>9, <1>11, <2>1
    <2>4. ASSUME NEW k \in 1..Len(queue')
          PROVE  (\/ Expired(queue[k])
                  \/ /\ queue[k].instance \in Awaiting
                     /\ queue[k] = Awaited(queue[k].instance))'
      BY <2>2
    <2> QED
      BY <2>3, <2>4 DEF OthersExpired
  <1>14. AwaitedPlaced'
    <2> SUFFICES ASSUME NEW i \in Awaiting'
                 PROVE  IF DueTime(i)' <= t
                        THEN \E k \in 1..Len(queue') : queue'[k] = Awaited(i)'
                        ELSE /\ Awaited(i)' \in scheduled'[DueTime(i)']
                             /\ \A k \in 1..Len(queue') : queue'[k] # Awaited(i)'
      BY <1>4 DEF AwaitedPlaced
    <2>1. CASE i \in Moved(t)
      <3>1. /\ Awaited(i)' = Arrival(i) /\ DueTime(i)' = ArrivalDue(i)
            /\ ArrivalDue(i) \in Int
        BY <1>3, <1>4, <1>5, <2>1
      <3>2. CASE ArrivalDue(i) <= t
        BY <1>2, <2>1, <3>1, <3>2 DEF TickHolds
      <3>3. CASE ~(ArrivalDue(i) <= t)
        <4>1. ArrivalDue(i) > t
          BY <1>4, <3>1, <3>3
        <4>2. Arrival(i) \in scheduled'[ArrivalDue(i)]
          BY <1>2, <2>1, <4>1 DEF TickHolds
        <4>3. ASSUME NEW k \in 1..Len(queue') PROVE queue'[k] # Arrival(i)
          <5>1. CASE queue'[k] \in scheduled[t]
            <6>1. queue'[k].token <= token[queue'[k].instance]
              BY <1>4, <1>6, <5>1
            <6> QED
              BY <1>5, <2>1, <6>1
          <5>2. ASSUME NEW j \in Moved(t), queue'[k] = Arrival(j), ArrivalDue(j) <= t
                PROVE  queue'[k] # Arrival(i)
            BY <1>5, <2>1, <3>3, <5>2
          <5> QED
            BY <1>10, <5>1, <5>2
        <4> QED
          BY <3>1, <3>3, <4>2, <4>3
      <3> QED
        BY <3>2, <3>3
    <2>2. CASE i \in Awaiting \ Hit(t)
      <3>1. /\ Awaited(i)' = Awaited(i) /\ DueTime(i)' = DueTime(i)
        BY <1>3, <2>2
      <3>2. /\ DueTime(i) > now /\ Awaited(i) \in scheduled[DueTime(i)]
            /\ DueTime(i) \in Instants /\ DueTime(i) \in Int
            /\ ~Expired(Awaited(i)) /\ Awaited(i).instance = i
        BY <1>4, <2>2, SettledAtDecision, AwaitedLive DEF IInv, AwaitedSound
      <3>3. CASE DueTime(i) = t
        <4>1. Awaited(i) \in Released(t)
          BY <3>2, <3>3 DEF Released
        <4>2. \E k \in 1..Len(queue') : queue'[k] = Awaited(i)
          BY <1>2, <4>1 DEF TickHolds
        <4> QED
          BY <1>4, <3>1, <3>3, <4>2
      <3>4. CASE DueTime(i) # t
        <4>1. ~(DueTime(i) <= t)
          BY <1>1, <1>4, <3>2, <3>4
        <4>2. Awaited(i) \in scheduled'[DueTime(i)]
          BY <1>2, <3>2, <3>4 DEF TickHolds
        <4>3. ASSUME NEW k \in 1..Len(queue') PROVE queue'[k] # Awaited(i)
          <5>1. CASE queue'[k] \in scheduled[t]
            <6>1. \/ Expired(queue'[k])
                  \/ t = DueTime(queue'[k].instance)
              BY <1>4, <5>1 DEF IInv, HeldConsistently, OthersExpired
            <6> QED
              BY <3>2, <3>4, <6>1
          <5>2. ASSUME NEW j \in Moved(t), queue'[k] = Arrival(j)
                PROVE  queue'[k] # Awaited(i)
            BY <1>5, <2>2, <3>2, <5>2
          <5> QED
            BY <1>10, <5>1, <5>2
        <4> QED
          BY <3>1, <4>1, <4>2, <4>3
      <3> QED
        BY <3>3, <3>4
    <2> QED
      BY <1>3, <2>1, <2>2
  <1>15. CalendarAhead'
    <2>1. ASSUME NEW d \in Instants, scheduled'[d] # {} PROVE d > t
      <3>1. PICK e \in scheduled'[d] : TRUE
        BY <2>1
      <3>2. CASE e \in scheduled[d] /\ d # t
        <4>1. d > now
          BY <1>4, <3>2 DEF IInv, HeldConsistently, CalendarAhead
        <4> QED
          BY <1>1, <1>4, <3>2, <4>1
      <3> QED
        BY <1>11, <3>1, <3>2
    <2>2. ASSUME NEW i \in Instances PROVE alarm'[i] > t
      <3>1. CASE i \in Hit(t)
        BY <1>2, <1>4, <3>1, RunAssumption DEF TickMoves, Never
      <3>2. CASE i \notin Hit(t)
        <4>1. alarm'[i] = alarm[i] /\ ~(alarm[i] <= t)
          BY <1>2, <3>2 DEF TickMoves, Hit
        <4>2. alarm[i] \in Int
          <5>1. alarm[i] \in Instants \/ alarm[i] = Never
            BY DEF IInv, TypeOK
          <5>2. Never \in Int
            BY RunAssumption DEF Never
          <5> QED
            BY <1>4, <5>1, <5>2
        <4> QED
          BY <1>4, <4>1, <4>2
      <3> QED
        BY <3>1, <3>2
    <2> QED
      BY <1>4, <2>1, <2>2 DEF CalendarAhead
  <1> QED
    BY <1>2, <1>8, <1>12, <1>13, <1>14, <1>15 DEF IInv, HeldConsistently

-----------------------------------------------------------------------------
LEMMA NextKeeps == IInv /\ [Next]_vars => IInv'
  <1> SUFFICES ASSUME IInv, [Next]_vars PROVE IInv'
    OBVIOUS
  <1>1. CASE Initialize
    BY <1>1, InitializeKeeps
  <1>2. CASE ProcessEvent
    BY <1>2, InstantiationKeeps, ReadyOfProcessKeeps, ReadyOfActivityKeeps,
       CompletionKeeps DEF ProcessEvent
  <1>3. ASSUME NEW i \in Instances, DecideEntry(i) PROVE IInv'
    BY <1>3, DecideEntryKeeps
  <1>4. CASE BroadcastSignal
    BY <1>4, BroadcastKeeps
  <1>5. CASE ClockTick
    BY <1>5, ClockTickKeeps
  <1>6. CASE Terminate
    BY <1>6, TerminateKeeps
  <1>7. CASE Fork
    BY <1>7, ForkKeeps
  <1>8. CASE UNCHANGED vars
    <2>1. (IInv)' <=> IInv
      BY <1>8 DEF vars, IInv, TypeOK, PhaseFitsToken, RunStages, HeldConsistently,
        EndedComplete, TokensPast, OthersExpired, LiveOnce, AwaitedPlaced, CalendarAhead,
        FiniteCalendar, Awaiting, Awaited, DueTime, ProcessReadyTime, Expired,
        Instantiation, Ready, Completion
    <2> QED
      BY <2>1
  <1> QED
    BY <1>1, <1>2, <1>3, <1>4, <1>5, <1>6, <1>7, <1>8 DEF Next

\* The strengthening of the properties that every step of the run preserves.
THEOREM Consistent == Spec => []IInv
  BY InitHolds, NextKeeps, PTL DEF Spec

\* All variables of the run stay within their types, for any data and times.
THEOREM TypesCorrect == Spec => []TypeOK
  <1>1. IInv => TypeOK
    BY DEF IInv
  <1> QED
    BY <1>1, Consistent, PTL

LEMMA HeldOnce == IInv => AwaitedHeldOnce
  <1> SUFFICES ASSUME IInv, run # "new", NEW i \in Awaiting
               PROVE  Cardinality(Held(Awaited(i)).queued)
                        + Cardinality(Held(Awaited(i)).planned) = 1
    BY DEF AwaitedHeldOnce
  <1> DEFINE e == Awaited(i)
             Q == {k \in 1..Len(queue) : queue[k] = e}
             P == {d \in Instants : e \in scheduled[d]}
  <1>1. Held(e).queued = Q /\ Held(e).planned = P
    BY DEF Held
  <1>2. /\ ~Expired(e) /\ e.instance = i /\ DueTime(i) \in Instants
    BY AwaitedLive DEF IInv, AwaitedSound
  <1>3. now \in Int /\ DueTime(i) \in Int
    BY <1>2, RunAssumption DEF IInv, RunStages, Instants
  <1>4. \A d \in P : d = DueTime(i) /\ d > now
    BY <1>2 DEF IInv, HeldConsistently, OthersExpired, CalendarAhead
  <1>5. \A j, k \in Q : j = k
    BY <1>2 DEF IInv, HeldConsistently, LiveOnce
  <1>6. IF DueTime(i) <= now THEN Q # {} ELSE DueTime(i) \in P /\ Q = {}
    BY <1>2 DEF IInv, HeldConsistently, AwaitedPlaced
  <1> HIDE DEF e, Q, P
  <1>7. CASE DueTime(i) <= now
    <2>1. P = {}
      BY <1>3, <1>4, <1>7
    <2>2. PICK k : Q = {k}
      BY <1>5, <1>6, <1>7
    <2>3. Cardinality(P) = 0 /\ Cardinality(Q) = 1
      BY <2>1, <2>2, FS_EmptySet, FS_Singleton
    <2> QED
      BY <1>1, <2>3 DEF e
  <1>8. CASE ~(DueTime(i) <= now)
    <2>1. Q = {} /\ P = {DueTime(i)}
      BY <1>4, <1>6, <1>8
    <2>2. Cardinality(Q) = 0 /\ Cardinality(P) = 1
      BY <2>1, FS_EmptySet, FS_Singleton
    <2> QED
      BY <1>1, <2>2 DEF e
  <1> QED
    BY <1>7, <1>8

LEMMA NothingDue == IInv => NothingDueAtDecision
  <1> SUFFICES ASSUME IInv, AtDecision \/ run = "ended", NEW i \in Awaiting
               PROVE  DueTime(i) > now
    BY DEF NothingDueAtDecision
  <1>1. CASE AtDecision
    BY <1>1, SettledAtDecision
  <1>2. CASE run = "ended"
    <2>1. Len(queue) = 0 /\ now \in Instants /\ run # "new"
      BY <1>2 DEF IInv, RunStages
    <2>2. ~(DueTime(i) <= now)
      BY <2>1 DEF IInv, HeldConsistently, AwaitedPlaced
    <2>3. DueTime(i) \in Int /\ now \in Int
      BY <2>1, AwaitedLive, RunAssumption DEF IInv, AwaitedSound, Instants
    <2> QED
      BY <2>2, <2>3
  <1> QED
    BY <1>1, <1>2

-----------------------------------------------------------------------------
\* The event an instance waits for is held exactly once, in the queue of the
\* environment or in the calendar, through interruption, tick and fork.
THEOREM HeldExactlyOnce == Spec => []AwaitedHeldOnce
  BY Consistent, HeldOnce, PTL

\* Every other event held is expired: what was made obsolete is dispatched to
\* nobody, and never to the token that took the place of another.
THEOREM ObsoleteExpired == Spec => []OthersExpired
  <1>1. IInv => OthersExpired
    BY DEF IInv, HeldConsistently
  <1> QED
    BY <1>1, Consistent, PTL

\* The calendar and the timers armed lie ahead of the clock at all times.
THEOREM NothingLeftBehind == Spec => []CalendarAhead
  <1>1. IInv => CalendarAhead
    BY DEF IInv, HeldConsistently
  <1> QED
    BY <1>1, Consistent, PTL

\* A decision is asked for, and a run ended, only with all that is due done.
THEOREM DueComesFirst == Spec => []NothingDueAtDecision
  BY Consistent, NothingDue, PTL

\* A run stops before its end time only with every instance complete.
THEOREM CompleteAtEnd == Spec => []EndedComplete
  <1>1. IInv => EndedComplete
    BY DEF IInv
  <1> QED
    BY <1>1, Consistent, PTL

\* A fork asked for by a controller plans what the run still has to come.
THEOREM ForkPlansTheRest == Spec => []ForkAgrees
  BY Consistent, ForkAgreesHolds, PTL

-----------------------------------------------------------------------------
(***************************************************************************)
(* The run of the engine implements the timetable: every round of the run  *)
(* is a step of Timetable, or is not seen there, for any number of         *)
(* instances and activities, any data and any times.                       *)
(***************************************************************************)

\* What the timetable shows of an instance is of its type, and an instance
\* has steps left until it is gone.
LEMMA ShownTyped ==
  ASSUME IInv, NEW i \in Instances
  PROVE  /\ DueTimes[i] \in Abstract!Times
         /\ StepsLeft(i) \in Nat
         /\ StepsLeft(i) > 0 <=> phase[i] # "gone"
  <1>1. DueTimes[i] \in Abstract!Times
    <2>1. i \in Awaiting => DueTime(i) \in Instants
      BY AwaitedLive DEF IInv, AwaitedSound
    <2> QED
      BY <2>1, RunAssumption DEF DueTimes, Instants, Never, Abstract!Times, Abstract!Never
  <1>2. StepsLeft(i) \in Nat /\ (StepsLeft(i) > 0 <=> phase[i] # "gone")
    <2>1. at[i] \in 1..NumActivities /\ phase[i] \in Phases
      BY DEF IInv, TypeOK, Activities
    <2>2. 3 * (NumActivities - at[i]) \in Nat
      BY <2>1, RunAssumption
    <2> QED
      BY <2>1, <2>2 DEF StepsLeft, Phases
  <1> QED
    BY <1>1, <1>2

LEMMA TimesTyped == IInv => \A i \in Instances : DueTimes[i] \in Abstract!Times
  BY ShownTyped

LEMMA TimesTypedNext == IInv' => \A i \in Instances : DueTimes'[i] \in Abstract!Times
  <1>1. (IInv => \A i \in Instances : DueTimes[i] \in Abstract!Times)'
    BY TimesTyped, PTL
  <1> QED
    BY <1>1 DEF Abstract!Times, Abstract!Never

\* The timetable shows nothing new of the instances that do not take part.
LEMMA OthersShownTheSame ==
  ASSUME data' = data, NEW i, OthersUnchanged(i)
  PROVE  \A j \in Instances \ {i} :
           DueTimes'[j] = DueTimes[j] /\ StepCounts'[j] = StepCounts[j]
  <1> SUFFICES ASSUME NEW j \in Instances \ {i}
               PROVE  DueTimes'[j] = DueTimes[j] /\ StepCounts'[j] = StepCounts[j]
    OBVIOUS
  <1>1. /\ j \in Awaiting' <=> j \in Awaiting
        /\ DueTime(j)' = DueTime(j)
    BY OthersAwaitTheSame
  <1>2. phase'[j] = phase[j] /\ at'[j] = at[j]
    BY DEF OthersUnchanged
  <1>3. DueTimes'[j] = DueTimes[j]
    BY <1>1 DEF DueTimes
  <1>4. StepCounts'[j] = StepCounts[j]
    BY <1>2 DEF StepCounts, StepsLeft
  <1> QED
    BY <1>3, <1>4

-----------------------------------------------------------------------------
\* A round in which the instance i alone takes the step it has waited for.
LEMMA EventHappens ==
  ASSUME IInv, IInv', NEW i \in Instances, OthersUnchanged(i),
         data' = data, run = "running", run' = run, now' = now,
         i \in Awaiting, DueTime(i) <= now,
         StepsLeft(i)' = StepsLeft(i) - 1,
         alarm' = [alarm EXCEPT ![i] = Never]
  PROVE  Abstract!Happen(i)
  <1>1. /\ \A j \in Instances \ {i} :
             DueTimes'[j] = DueTimes[j] /\ StepCounts'[j] = StepCounts[j]
    BY OthersShownTheSame
  <1>2. DueTimes[i] <= now
    BY DEF DueTimes
  <1>3. StepCounts[i] > 0
    BY ShownTyped DEF StepCounts, Awaiting
  <1>4. StepCounts' = [StepCounts EXCEPT ![i] = @ - 1]
    <2>1. StepCounts'[i] = StepCounts[i] - 1
      BY DEF StepCounts
    <2>2. StepCounts \in [Instances -> {StepsLeft(j) : j \in Instances}]
      BY DEF StepCounts
    <2>3. DOMAIN StepCounts' = Instances /\ StepCounts' = [j \in Instances |-> StepCounts'[j]]
      BY DEF StepCounts
    <2> QED
      BY <1>1, <2>1, <2>2, <2>3
  <1>5. \E d \in Abstract!Times : DueTimes' = [DueTimes EXCEPT ![i] = d]
    <2>1. DueTimes'[i] \in Abstract!Times
      BY TimesTypedNext
    <2>2. DueTimes = [j \in Instances |-> DueTimes[j]]
      BY DEF DueTimes
    <2>3. DueTimes' = [j \in Instances |-> DueTimes'[j]]
      BY DEF DueTimes
    <2>4. DueTimes' = [DueTimes EXCEPT ![i] = DueTimes'[i]]
      BY <1>1, <2>2, <2>3
    <2> QED
      BY <2>1, <2>4
  <1>6. alarm' = [alarm EXCEPT ![i] = Abstract!Never]
    BY DEF Never, Abstract!Never
  <1> QED
    BY <1>2, <1>3, <1>4, <1>5, <1>6 DEF Abstract!Happen

\* The rounds processing an event the instance has waited for.
LEMMA InstantiationHappens ==
  ASSUME IInv, IInv', ProcessInstantiation
  PROVE  \E i \in Instances : Abstract!Happen(i)
  <1>1. PICK k \in FirstLive :
          LET i == queue[k].instance IN
          /\ run = "running"
          /\ queue[k].kind = "instantiation"
          /\ phase' = [phase EXCEPT ![i] = "created"]
          /\ UNCHANGED <<data, run, now, at, token, expected, alarm>>
    BY DEF ProcessInstantiation
  <1>2. PICK i \in Instances :
          /\ i = queue[k].instance /\ i \in Awaiting /\ DueTime(i) <= now
          /\ phase[i] = "declared"
    BY <1>1, FrontAwaited, FrontPhase
  <1>3. OthersUnchanged(i)
    BY <1>1, <1>2 DEF IInv, TypeOK, OthersUnchanged
  <1>4. phase'[i] = "created" /\ at'[i] = at[i] /\ at[i] \in 1..NumActivities
    BY <1>1, <1>2 DEF IInv, TypeOK, Activities
  <1>5. StepsLeft(i)' = StepsLeft(i) - 1
    BY <1>2, <1>4, RunAssumption DEF StepsLeft
  <1>6. alarm' = [alarm EXCEPT ![i] = Never]
    BY <1>1, <1>2 DEF IInv, TypeOK, PhaseFitsToken
  <1> QED
    BY <1>1, <1>2, <1>3, <1>5, <1>6, EventHappens

LEMMA ReadyOfProcessHappens ==
  ASSUME IInv, IInv', ProcessReadyOfProcess
  PROVE  \E i \in Instances : Abstract!Happen(i)
  <1>1. PICK k \in FirstLive :
          LET i == queue[k].instance IN
          /\ run = "running"
          /\ queue[k].kind = "ready" /\ queue[k].token = 0
          /\ phase' = [phase EXCEPT ![i] = "arrived"]
          /\ token' = [token EXCEPT ![i] = 1]
          /\ UNCHANGED <<data, run, now, at, expected, alarm>>
    BY DEF ProcessReadyOfProcess
  <1>2. PICK i \in Instances :
          /\ i = queue[k].instance /\ i \in Awaiting /\ DueTime(i) <= now
          /\ phase[i] = "created"
    BY <1>1, FrontAwaited, FrontPhase
  <1>3. OthersUnchanged(i)
    BY <1>1, <1>2 DEF IInv, TypeOK, OthersUnchanged
  <1>4. phase'[i] = "arrived" /\ at'[i] = at[i] /\ at[i] \in 1..NumActivities
    BY <1>1, <1>2 DEF IInv, TypeOK, Activities
  <1>5. StepsLeft(i)' = StepsLeft(i) - 1
    BY <1>2, <1>4, RunAssumption DEF StepsLeft
  <1>6. alarm' = [alarm EXCEPT ![i] = Never]
    BY <1>1, <1>2 DEF IInv, TypeOK, PhaseFitsToken
  <1> QED
    BY <1>1, <1>2, <1>3, <1>5, <1>6, EventHappens

LEMMA ReadyOfActivityHappens ==
  ASSUME IInv, IInv', ProcessReadyOfActivity
  PROVE  \E i \in Instances : Abstract!Happen(i)
  <1>1. PICK k \in FirstLive :
          LET i == queue[k].instance IN
          /\ run = "running"
          /\ queue[k].kind = "ready" /\ queue[k].token # 0
          /\ phase' = [phase EXCEPT ![i] = "ready"]
          /\ UNCHANGED <<data, run, now, at, token, expected, alarm>>
    BY DEF ProcessReadyOfActivity
  <1>2. PICK i \in Instances :
          /\ i = queue[k].instance /\ i \in Awaiting /\ DueTime(i) <= now
          /\ phase[i] = "arrived"
    BY <1>1, FrontAwaited, FrontPhase
  <1>3. OthersUnchanged(i)
    BY <1>1, <1>2 DEF IInv, TypeOK, OthersUnchanged
  <1>4. phase'[i] = "ready" /\ at'[i] = at[i] /\ at[i] \in 1..NumActivities
    BY <1>1, <1>2 DEF IInv, TypeOK, Activities
  <1>5. StepsLeft(i)' = StepsLeft(i) - 1
    BY <1>2, <1>4, RunAssumption DEF StepsLeft
  <1>6. alarm' = [alarm EXCEPT ![i] = Never]
    BY <1>1, <1>2 DEF IInv, TypeOK, PhaseFitsToken
  <1> QED
    BY <1>1, <1>2, <1>3, <1>5, <1>6, EventHappens

LEMMA CompletionHappens ==
  ASSUME IInv, IInv', ProcessCompletion
  PROVE  \E i \in Instances : Abstract!Happen(i)
  <1>1. PICK k \in FirstLive :
          LET i == queue[k].instance IN
          /\ run = "running"
          /\ queue[k].kind = "completion"
          /\ RemoveTimer(i)
          /\ MoveOn(i, k) \/ Finish(i, k)
          /\ UNCHANGED <<data, run, now, token, expected>>
    BY DEF ProcessCompletion
  <1>2. PICK i \in Instances :
          /\ i = queue[k].instance /\ i \in Awaiting /\ DueTime(i) <= now
          /\ phase[i] = "busy"
    BY <1>1, FrontAwaited, FrontPhase
  <1>3. /\ alarm' = [alarm EXCEPT ![i] = Never]
        /\ \/ /\ phase' = [phase EXCEPT ![i] = "arrived"]
              /\ at' = [at EXCEPT ![i] = @ + 1]
           \/ /\ at[i] = NumActivities
              /\ phase' = [phase EXCEPT ![i] = "gone"]
              /\ at' = at
    BY <1>1, <1>2 DEF RemoveTimer, MoveOn, Finish
  <1>4. OthersUnchanged(i)
    <2>1. /\ phase \in [Instances -> Phases] /\ at \in [Instances -> Activities]
          /\ alarm \in [Instances -> Instants \union {Never}]
          /\ token' = token /\ expected' = expected
      BY <1>1 DEF IInv, TypeOK
    <2> QED
      BY <1>3, <2>1 DEF OthersUnchanged
  <1>5. /\ at[i] \in 1..NumActivities
        /\ \/ phase'[i] = "arrived" /\ at'[i] = at[i] + 1
           \/ phase'[i] = "gone" /\ at[i] = NumActivities
    BY <1>2, <1>3 DEF IInv, TypeOK, Activities
  <1>6. StepsLeft(i)' = StepsLeft(i) - 1
    <2>1. at[i] \in Int /\ NumActivities \in Int
      BY <1>5, RunAssumption
    <2>2. StepsLeft(i) = 3 * (NumActivities - at[i]) + 1
      BY <1>2 DEF StepsLeft
    <2>3. CASE phase'[i] = "arrived" /\ at'[i] = at[i] + 1
      <3>1. StepsLeft(i)' = 3 * (NumActivities - (at[i] + 1)) + 3
        BY <2>3 DEF StepsLeft
      <3> QED
        BY <2>1, <2>2, <3>1
    <2>4. CASE phase'[i] = "gone" /\ at[i] = NumActivities
      <3>1. StepsLeft(i)' = 0
        BY <2>4 DEF StepsLeft
      <3> QED
        BY <2>1, <2>2, <2>4, <3>1
    <2> QED
      BY <1>5, <2>3, <2>4
  <1> QED
    BY <1>1, <1>2, <1>3, <1>4, <1>6, EventHappens

-----------------------------------------------------------------------------
\* Whenever the controller is asked, nothing shown is due.
LEMMA SettledShown ==
  ASSUME IInv, AtDecision
  PROVE  Abstract!Settled
  <1>1. now \in Instants /\ \A i \in Awaiting : DueTime(i) > now
    BY SettledAtDecision
  <1>2. Never > now
    BY <1>1, RunAssumption DEF Never, Instants
  <1> QED
    BY <1>1, <1>2 DEF Abstract!Settled, DueTimes

LEMMA EntryDecided ==
  ASSUME IInv, NEW i \in Instances, DecideEntry(i)
  PROVE  Abstract!Decide(i)
  <1>1. /\ AtDecision /\ run = "running" /\ phase[i] = "ready"
        /\ phase' = [phase EXCEPT ![i] = "busy"]
        /\ UNCHANGED <<data, run, now, at, token>>
    BY DEF DecideEntry, AtDecision
  <1>2. PICK due \in now..Horizon, trigger \in (now + 1)..Never :
          /\ expected' = [expected EXCEPT ![i] = due]
          /\ alarm' = [alarm EXCEPT ![i] = trigger]
    BY DEF DecideEntry
  <1>3. OthersUnchanged(i)
    BY <1>1, <1>2 DEF IInv, TypeOK, OthersUnchanged
  <1>4. \A j \in Instances \ {i} :
          DueTimes'[j] = DueTimes[j] /\ StepCounts'[j] = StepCounts[j]
    BY <1>1, <1>3, OthersShownTheSame
  <1>5. phase'[i] = "busy" /\ at' = at /\ at[i] \in 1..NumActivities /\ expected'[i] = due
    BY <1>1, <1>2 DEF IInv, TypeOK, Activities
  <1>6. DueTimes[i] = Abstract!Never /\ DueTimes'[i] = due
    BY <1>1, <1>5 DEF DueTimes, Awaiting, DueTime, Never, Abstract!Never
  <1>7. StepCounts[i] > 0
    BY <1>1, ShownTyped DEF StepCounts
  <1>8. StepCounts' = [StepCounts EXCEPT ![i] = @ - 1]
    <2>1. StepsLeft(i)' = StepsLeft(i) - 1
      BY <1>1, <1>5, RunAssumption DEF StepsLeft
    <2>2. StepCounts'[i] = StepCounts[i] - 1
      BY <2>1 DEF StepCounts
    <2>3. StepCounts = [j \in Instances |-> StepCounts[j]]
      BY DEF StepCounts
    <2>4. StepCounts' = [j \in Instances |-> StepCounts'[j]]
      BY DEF StepCounts
    <2> QED
      BY <1>4, <2>2, <2>3, <2>4
  <1>9. DueTimes' = [DueTimes EXCEPT ![i] = due]
    <2>1. DueTimes = [j \in Instances |-> DueTimes[j]]
      BY DEF DueTimes
    <2>2. DueTimes' = [j \in Instances |-> DueTimes'[j]]
      BY DEF DueTimes
    <2> QED
      BY <1>4, <1>6, <2>1, <2>2
  <1>10. Abstract!Settled
    BY <1>1, SettledShown
  <1>11. trigger \in (now + 1)..Abstract!Never
    BY <1>2 DEF Never, Abstract!Never
  <1> QED
    BY <1>1, <1>2, <1>6, <1>7, <1>8, <1>9, <1>10, <1>11 DEF Abstract!Decide

LEMMA SignalCancels ==
  ASSUME IInv, BroadcastSignal
  PROVE  Abstract!Cancel
  <1> DEFINE hit == {i \in Instances : phase[i] \in {"arrived", "ready", "busy"}}
  <1>1. /\ AtDecision /\ run = "running"
        /\ phase' = [i \in Instances |-> IF i \in hit THEN "gone" ELSE phase[i]]
        /\ alarm' = [i \in Instances |-> IF i \in hit THEN Never ELSE alarm[i]]
        /\ UNCHANGED <<data, run, now, at, token, expected>>
    BY DEF BroadcastSignal, AtDecision
  <1>2. \A i \in Instances : i \in hit => phase'[i] = "gone"
    BY <1>1
  <1>3. \A i \in Instances : i \notin hit => phase'[i] = phase[i]
    BY <1>1
  <1>4. hit \in SUBSET Instances
    OBVIOUS
  <1> HIDE DEF hit
  <1>5. DueTimes' = [i \in Instances |-> IF i \in hit THEN Never ELSE DueTimes[i]]
    <2>1. \A i \in Instances : i \in hit => DueTimes'[i] = Never
      BY <1>2 DEF DueTimes, Awaiting
    <2>2. \A i \in Instances : i \notin hit => DueTimes'[i] = DueTimes[i]
      BY <1>1, <1>3 DEF DueTimes, Awaiting, DueTime, ProcessReadyTime
    <2>3. DueTimes' = [i \in Instances |-> DueTimes'[i]]
      BY DEF DueTimes
    <2> QED
      BY <2>1, <2>2, <2>3
  <1>6. StepCounts' = [i \in Instances |-> IF i \in hit THEN 0 ELSE StepCounts[i]]
    <2>1. \A i \in Instances : i \in hit => StepCounts'[i] = 0
      BY <1>2 DEF StepCounts, StepsLeft
    <2>2. \A i \in Instances : i \notin hit => StepCounts'[i] = StepCounts[i]
      BY <1>1, <1>3 DEF StepCounts, StepsLeft
    <2>3. StepCounts' = [i \in Instances |-> StepCounts'[i]]
      BY DEF StepCounts
    <2> QED
      BY <2>1, <2>2, <2>3
  <1>7. Abstract!Settled
    BY <1>1, SettledShown
  <1> QED
    BY <1>1, <1>4, <1>5, <1>6, <1>7 DEF Abstract!Cancel, Never, Abstract!Never

LEMMA TickPasses ==
  ASSUME IInv, IInv', ClockTick
  PROVE  Abstract!Pass
  <1>1. PICK t : t = now + 1
    OBVIOUS
  <1>2. TickMoves(t)
    BY <1>1, TickEffect
  <1>3. /\ \A i \in Hit(t) : i \in Instances /\ phase[i] = "busy"
        /\ \A i \in Moved(t) : i \in Hit(t)
    BY <1>2, HitBusy DEF TickMoves
  <1>4. Abstract!Settled
    BY <1>2, SettledShown DEF TickMoves
  <1>5. ASSUME NEW i \in Instances
        PROVE  IF alarm[i] = now + 1
               THEN /\ alarm'[i] = Abstract!Never /\ DueTimes'[i] \in Abstract!Times
                    /\ StepCounts'[i] < StepCounts[i]
               ELSE /\ alarm'[i] = alarm[i] /\ DueTimes'[i] = DueTimes[i]
                    /\ StepCounts'[i] = StepCounts[i]
    <2>1. i \in Hit(t) <=> alarm[i] = now + 1
      <3>1. alarm[i] \in Int /\ now \in Int /\ alarm[i] > now
        <4>1. alarm[i] \in Instants \/ alarm[i] = Never
          BY DEF IInv, TypeOK
        <4>2. Never \in Int /\ \A d \in Instants : d \in Int
          BY RunAssumption DEF Never, Instants
        <4>3. now \in Instants /\ alarm[i] > now
          BY <1>2 DEF TickMoves, IInv, HeldConsistently, CalendarAhead
        <4> QED
          BY <4>1, <4>2, <4>3
      <3>2. i \in Hit(t) <=> alarm[i] <= t
        BY DEF Hit
      <3> QED
        BY <1>1, <3>1, <3>2
    <2>2. CASE i \in Hit(t)
      <3>1. DueTimes'[i] \in Abstract!Times
        BY TimesTypedNext
      <3>2. alarm'[i] = Abstract!Never
        BY <1>2, <2>2 DEF TickMoves, Never, Abstract!Never
      <3>3. /\ phase[i] = "busy" /\ at[i] \in 1..NumActivities
            /\ \/ phase'[i] = "arrived" /\ at'[i] = at[i] + 1
               \/ phase'[i] = "gone"
        BY <1>2, <1>3, <2>2 DEF TickMoves, IInv, TypeOK, Activities
      <3>4. StepsLeft(i)' < StepsLeft(i)
        BY <3>3, RunAssumption DEF StepsLeft
      <3>5. StepCounts'[i] < StepCounts[i]
        BY <3>4 DEF StepCounts
      <3> QED
        BY <2>1, <2>2, <3>1, <3>2, <3>5
    <2>3. CASE i \notin Hit(t)
      <3>1. /\ phase'[i] = phase[i] /\ at'[i] = at[i] /\ token'[i] = token[i]
            /\ alarm'[i] = alarm[i] /\ data' = data /\ expected' = expected
        BY <1>2, <2>3 DEF TickMoves
      <3>2. DueTimes'[i] = DueTimes[i]
        BY <3>1 DEF DueTimes, Awaiting, DueTime, ProcessReadyTime
      <3>3. StepCounts'[i] = StepCounts[i]
        BY <3>1 DEF StepCounts, StepsLeft
      <3> QED
        BY <2>1, <2>3, <3>1, <3>2, <3>3
    <2> QED
      BY <2>2, <2>3
  <1> QED
    BY <1>1, <1>2, <1>4, <1>5 DEF TickMoves, Abstract!Pass

LEMMA TerminationEnds ==
  ASSUME IInv, IInv', Terminate
  PROVE  Abstract!End
  <1>1. /\ AtDecision /\ run = "running" /\ run' = "ended"
        /\ UNCHANGED <<data, now, phase, at, token, expected, alarm>>
    BY DEF Terminate, AtDecision, work
  <1>2. now >= EndTime \/ \A i \in Instances : StepCounts[i] = 0
    <2>1. ASSUME ~(now >= EndTime), NEW i \in Instances PROVE StepCounts[i] = 0
      <3>1. now \in Instants
        BY <1>1, SettledAtDecision
      <3>2. now < EndTime
        BY <2>1, <3>1, RunAssumption DEF Instants
      <3>3. phase[i] = "gone"
        BY <1>1, <3>2 DEF IInv, EndedComplete
      <3> QED
        BY <3>3 DEF StepCounts, StepsLeft
    <2> QED
      BY <2>1
  <1>3. DueTimes' = DueTimes /\ StepCounts' = StepCounts
    BY <1>1 DEF DueTimes, Awaiting, DueTime, ProcessReadyTime, StepCounts, StepsLeft
  <1>4. Abstract!Settled
    BY <1>1, SettledShown
  <1> QED
    BY <1>1, <1>2, <1>3, <1>4 DEF Abstract!End

-----------------------------------------------------------------------------
LEMMA InitRefines == Init => Abstract!TInit
  <1> SUFFICES ASSUME Init PROVE Abstract!TInit
    OBVIOUS
  <1>1. run = "new" /\ now = Abstract!Lowest
        /\ alarm = [i \in Instances |-> Abstract!Never]
    BY DEF Init, Lowest, Abstract!Lowest, Never, Abstract!Never
  <1>2. DueTimes \in [Instances -> Abstract!Times]
    <2>1. \A i \in Instances : DueTimes[i] \in Abstract!Times
      BY InitHolds, TimesTyped
    <2> QED
      BY <2>1 DEF DueTimes
  <1> QED
    BY <1>1, <1>2 DEF Abstract!TInit

LEMMA NextRefines == IInv /\ IInv' /\ [Next]_vars => [Abstract!TNext]_Abstract!tvars
  <1> SUFFICES ASSUME IInv, IInv', [Next]_vars
               PROVE  Abstract!TNext \/ UNCHANGED Abstract!tvars
    OBVIOUS
  <1>1. CASE Initialize
    <2>1. DueTimes' = DueTimes /\ StepCounts' = StepCounts
      BY <1>1 DEF Initialize, work, DueTimes, Awaiting, DueTime, ProcessReadyTime,
                  StepCounts, StepsLeft
    <2>2. Abstract!Start
      BY <1>1, <2>1 DEF Initialize, work, Abstract!Start
    <2> QED
      BY <2>2 DEF Abstract!TNext
  <1>2. CASE ProcessEvent
    <2>1. \E i \in Instances : Abstract!Happen(i)
      BY <1>2, InstantiationHappens, ReadyOfProcessHappens, ReadyOfActivityHappens,
         CompletionHappens DEF ProcessEvent
    <2> QED
      BY <2>1 DEF Abstract!TNext
  <1>3. ASSUME NEW i \in Instances, DecideEntry(i) PROVE Abstract!TNext
    BY <1>3, EntryDecided DEF Abstract!TNext
  <1>4. CASE BroadcastSignal
    BY <1>4, SignalCancels DEF Abstract!TNext
  <1>5. CASE ClockTick
    BY <1>5, TickPasses DEF Abstract!TNext
  <1>6. CASE Terminate
    BY <1>6, TerminationEnds DEF Abstract!TNext
  <1>7. ASSUME UNCHANGED <<data, run, now, work>> PROVE UNCHANGED Abstract!tvars
    <2>1. DueTimes' = DueTimes /\ StepCounts' = StepCounts
      BY <1>7 DEF work, DueTimes, Awaiting, DueTime, ProcessReadyTime,
                  StepCounts, StepsLeft
    <2> QED
      BY <1>7, <2>1 DEF work, Abstract!tvars
  <1>8. CASE Fork
    BY <1>7, <1>8 DEF Fork, InstallState
  <1>9. CASE UNCHANGED vars
    BY <1>7, <1>9 DEF vars, work
  <1> QED
    BY <1>1, <1>2, <1>3, <1>4, <1>5, <1>6, <1>8, <1>9 DEF Next

\* The run, with its queue, calendar, stale events and forks, implements the
\* timetable: what an instance awaits happens neither early nor late nor twice.
THEOREM RunKeepsTimetable == Spec => ImplementsTimetable
  BY Consistent, InitRefines, NextRefines, PTL
     DEF Spec, ImplementsTimetable, Abstract!TSpec
=============================================================================
