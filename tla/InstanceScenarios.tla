-------------------------- MODULE InstanceScenarios --------------------------
(***************************************************************************)
(* The scenario of a run and its forks.  A data provider creates a         *)
(* scenario from the table it has read; the instances become known, and    *)
(* their processes and activities ready, at the times the scenario gives.  *)
(* A fork continues the run at its current time with a scenario that keeps *)
(* what has been disclosed and samples everything else again: the system   *)
(* state is copied, and the events its tokens await are scheduled anew.    *)
(*                                                                         *)
(* The engine is reduced to what the data provider sees of it: a token at  *)
(* each process and activity, waiting for its ready event, ready, busy and *)
(* done.  A number drawn too early is drawn again a few times and then set *)
(* to the earliest time allowed; what can come of it is the greater of one *)
(* number drawn and that time.                                             *)
(***************************************************************************)
EXTENDS InstanceTable

CONSTANTS
  Lowest,    \* the lowest number
  MaxTime,   \* bound on the clock
  MaxForks   \* bound on the forks, each a fork of the one before

ASSUME ScenarioAssumption == Lowest \in Int /\ MaxTime \in Nat /\ MaxForks \in Nat

VARIABLES
  scen,      \* the scenario: values, disclosure times of rows and nodes, instantiation times
  time,      \* the current time
  coming,    \* the time at which the instantiation of each instance is scheduled
  at,        \* the state of the token at each node of each instance
  due,       \* the time at which the event a token awaits is scheduled
  stamp,     \* the time at which a token became ready or busy
  given,     \* the values each token has been given, those of the scopes around it included
  forks      \* the forks made

runVars == <<scen, time, coming, at, due, stamp, given, forks>>
vars == <<tableVars, runVars>>

AtLeast(t, earliest) == Max({t, earliest})
Tokens == Instances \X Nodes
ProcessToken(i) == <<i, Process(i)>>

(*------------------------------- sampling --------------------------------*)
\* A fork keeps the rows the run has disclosed before the spawn time.
KeptRow(origin, k, spawn) == origin.rows[k] < spawn

\* The values a row may give an attribute, each drawn or kept; an instance is not
\* instantiated before the spawn time.
RowValues(s, k, origin, spawn) ==
  LET row == inits[k]
      view == View(s.values[row.inst])
      timely(v) == IF row.attr = Timestamp(row.node) THEN AtLeast(v, spawn) ELSE v
  IN IF KeptRow(origin, k, spawn) THEN {origin.values[row.inst][row.attr]}
     ELSE IF HasValue(view, row.init) THEN {timely(Value(view, row.init, d)) : d \in row.init.spread}
     ELSE {Undefined}

\* The times at which a row may be disclosed, which may depend on the value it gives.
RowDisclosures(s, k, origin, spawn) ==
  LET row == inits[k]
      view == View(s.values[row.inst])
      draws == IF Empty(row.disclosure) THEN {0} ELSE row.disclosure.spread
  IN IF KeptRow(origin, k, spawn) THEN {origin.rows[k]}
     ELSE IF HasValue(view, row.disclosure) THEN {AtLeast(Value(view, row.disclosure, d), spawn) : d \in draws}
     ELSE {Undefined}

Valued(s, k, v) == [s EXCEPT !.values[inits[k].inst][inits[k].attr] = v]
Revealed(s, k, t) == [s EXCEPT !.rows = Append(@, t), !.nodes = Disclosed(@, inits[k], t)]

\* What may come of sampling a row next; one that yields no value fails the scenario.
RowSamples(s, k, origin, spawn) ==
  IF s.fails THEN {s}
  ELSE UNION {IF v = Undefined THEN {[s EXCEPT !.fails = TRUE]}
              ELSE {IF t = Undefined THEN [s EXCEPT !.fails = TRUE] ELSE Revealed(Valued(s, k, v), k, t) :
                      t \in RowDisclosures(Valued(s, k, v), k, origin, spawn)} :
              v \in RowValues(s, k, origin, spawn)}

Unsampled ==
  [values |-> values, rows |-> <<>>, fails |-> FALSE,
   nodes |-> [i \in Instances |-> [n \in Nodes |->
                IF i \in InTable /\ n = Process(i) THEN 0 ELSE Undefined]]]

\* The rows are sampled in order, so that each reads what those before it give.
Samples(origin, spawn) ==
  LET upTo[k \in 0..Len(inits)] ==
        IF k = 0 THEN {Unsampled} ELSE UNION {RowSamples(s, k, origin, spawn) : s \in upTo[k - 1]}
  IN upTo[Len(inits)]

\* The scenario of a provider whose data are certain, the dynamic one disclosing each row
\* with its node.
Certainty ==
  [values |-> values, nodes |-> shown, fails |-> FALSE,
   rows |-> [k \in DOMAIN inits |->
               IF provider = "dynamic" THEN shown[inits[k].inst][inits[k].node] ELSE Lowest]]

Scenarios == IF provider = "stochastic" THEN Samples(Certainty, Lowest) ELSE {Certainty}

\* A mutant: what is disclosed at the current time is drawn again.
SpawnNow == time

\* The current time of a run counts as disclosed, since clock ticks disclose.
SpawnTime == time + 1

\* Only a fork of sampled data can differ from its run.
Forks == IF provider = "stochastic" THEN Samples(scen, SpawnTime) ELSE Scenarios

(*------------------------------- times -----------------------------------*)
\* An instance is known when its process is disclosed, from the start without disclosures.
KnownTime(s, i) ==
  IF provider \in {"static", "expected"} THEN Lowest ELSE s.nodes[i][Process(i)]

ProcessReadyTime(s, i) == AtLeast(s.values[i][Timestamp(Process(i))], KnownTime(s, i))

EarliestInstantiationTime(s) == Min({ProcessReadyTime(s, i) : i \in InTable})

\* What a token arrives with: the values of the scope around it.
Around(i, n) ==
  IF Parent[n] = "" THEN [a \in Attributes |-> Undefined] ELSE given[<<i, Parent[n]>>]

\* A first ready expression assigning the timestamp delays a token arriving.
GivesTimestamp(i, n) == readies[i][n] # <<>> /\ readies[i][n][1].target = Timestamp(n)
ReadyTimestamps(i, n, earliest) ==
  IF GivesTimestamp(i, n) /\ HasValue(View(Around(i, n)), readies[i][n][1])
    THEN {AtLeast(Value(View(Around(i, n)), readies[i][n][1], d), earliest) : d \in readies[i][n][1].spread}
    ELSE {Lowest}

\* A mutant: the timestamp of a ready expression replaces the disclosure.
ReadyAtTimestamp(s, i, n, timestamp) ==
  IF s.nodes[i][n] = Undefined \/ timestamp # Lowest THEN timestamp ELSE s.nodes[i][n]

ActivityReadyTime(s, i, n, timestamp) ==
  IF s.nodes[i][n] = Undefined THEN timestamp ELSE AtLeast(s.nodes[i][n], timestamp)

\* The completion expressions of a task add to the time it has become busy at.
CompletionTimes(i, n, began, earliest) ==
  {AtLeast(t, earliest) :
     t \in FoldLeft(LAMBDA ts, e : IF HasValue(View(given[<<i, n>>]), e)
                                     THEN {Value(View(given[<<i, n>>]), e, u + d) : u \in ts, d \in e.spread}
                                     ELSE ts,
                    {began}, ends[i][n])}

(*------------------------------- values at a scope -----------------------*)
\* The model decides the source of an initial value.
InitialValue(g, i, n, a) ==
  IF a = Timestamp(n) THEN time
  ELSE IF a \notin DOMAIN ModelGiven THEN scen.values[i][a]
  ELSE IF HasValue(View(g), ModelGiven[a])
    THEN Value(View(g), ModelGiven[a], Mean(ModelGiven[a].spread)) ELSE Undefined

\* A scope instance coming into being gives its attributes their initial values in
\* declaration order.
InitialValues(i, n) ==
  LET upTo[k \in 0..Len(Own[n])] ==
        IF k = 0 THEN Around(i, n)
        ELSE [upTo[k - 1] EXCEPT ![Own[n][k]] = InitialValue(upTo[k - 1], i, n, Own[n][k])]
  IN upTo[Len(Own[n])]

\* What may come of applying a ready expression; one assigning the timestamp has been applied.
Applied(g, n, e) ==
  IF e.target = Timestamp(n) THEN {g}
  ELSE {[g EXCEPT ![e.target] = IF HasValue(View(g), e) THEN Value(View(g), e, d) ELSE @] : d \in e.spread}

\* The ready expressions are applied to the initial values in the order of their rows; one
\* assigning a status attribute of a scope around changes it for the token alone.
ReadyValues(i, n) ==
  LET upTo[k \in 0..Len(readies[i][n])] ==
        IF k = 0 THEN {InitialValues(i, n)}
        ELSE UNION {Applied(g, n, readies[i][n][k]) : g \in upTo[k - 1]}
  IN upTo[Len(readies[i][n])]

(*------------------------------- the run ---------------------------------*)
\* Nothing scheduled is due: the engine has processed every event of this time.
Quiet ==
  /\ \A i \in Instances : coming[i] # Undefined => coming[i] > time
  /\ \A k \in Tokens : due[k] # Undefined => due[k] > time

Start ==
  /\ phase = "ready" /\ InTable # {}
  /\ \E s \in Scenarios :
       /\ scen' = s
       /\ phase' = IF s.fails THEN "failed" ELSE "run"
       /\ IF s.fails THEN UNCHANGED <<time, coming>>
          ELSE /\ time' = EarliestInstantiationTime(s)
               /\ coming' = [i \in Instances |->
                               IF i \in InTable THEN KnownTime(s, i) ELSE Undefined]
  /\ UNCHANGED <<provider, table, next, globals, values, shown, inits, readies, ends,
                 at, due, stamp, given, forks>>

ClockTick ==
  /\ phase = "run" /\ Quiet /\ time < MaxTime
  /\ time' = time + 1
  /\ UNCHANGED <<tableVars, scen, coming, at, due, stamp, given, forks>>

Instantiate(i) ==
  /\ phase = "run" /\ coming[i] # Undefined /\ coming[i] <= time
  /\ coming' = [coming EXCEPT ![i] = Undefined]
  /\ at' = [at EXCEPT ![ProcessToken(i)] = "waiting"]
  /\ due' = [due EXCEPT ![ProcessToken(i)] = ProcessReadyTime(scen, i)]
  /\ UNCHANGED <<tableVars, scen, time, stamp, given, forks>>

\* A bound: what happens at a node is told apart by the table only if a row names the
\* node or one inside it.
Concerns(i, n) == \E k \in DOMAIN table : table[k].inst = i /\ n \in Upwards[table[k].node]

\* A token arrives at an activity of a scope under way, or a compensation activity
\* is triggered.
Arrive(i, n) ==
  /\ phase = "run" /\ Concerns(i, n)
  /\ Kind[n] \in {"subprocess", "task", "decision", "compensation"}
  /\ at[<<i, n>>] = "absent" /\ at[<<i, Parent[n]>>] = "busy"
  /\ \E t \in ReadyTimestamps(i, n, Lowest) :
       due' = [due EXCEPT ![<<i, n>>] = ActivityReadyTime(scen, i, n, t)]
  /\ at' = [at EXCEPT ![<<i, n>>] = "waiting"]
  /\ UNCHANGED <<tableVars, scen, time, coming, stamp, given, forks>>

\* The ready event carries the initial values of the scope; a process starts at once,
\* an activity awaits its entry.
BecomeReady(i, n) ==
  /\ phase = "run" /\ at[<<i, n>>] = "waiting" /\ due[<<i, n>>] <= time
  /\ \E g \in ReadyValues(i, n) : given' = [given EXCEPT ![<<i, n>>] = g]
  /\ at' = [at EXCEPT ![<<i, n>>] = IF Kind[n] = "process" THEN "busy" ELSE "ready"]
  /\ due' = [due EXCEPT ![<<i, n>>] = Undefined]
  /\ stamp' = [stamp EXCEPT ![<<i, n>>] = time]
  /\ UNCHANGED <<tableVars, scen, time, coming, forks>>

\* A decision task completes by its choices, a task when its status is due.
Enter(i, n) ==
  /\ phase = "run" /\ at[<<i, n>>] = "ready"
  /\ at' = [at EXCEPT ![<<i, n>>] = "busy"]
  /\ stamp' = [stamp EXCEPT ![<<i, n>>] = time]
  /\ IF Kind[n] \in {"task", "compensation"}
       THEN \E t \in CompletionTimes(i, n, time, Lowest) : due' = [due EXCEPT ![<<i, n>>] = t]
       ELSE UNCHANGED due
  /\ UNCHANGED <<tableVars, scen, time, coming, given, forks>>

Complete(i, n) ==
  /\ phase = "run" /\ at[<<i, n>>] = "busy"
  /\ due[<<i, n>>] # Undefined /\ due[<<i, n>>] <= time
  /\ at' = [at EXCEPT ![<<i, n>>] = "done"]
  /\ due' = [due EXCEPT ![<<i, n>>] = Undefined]
  /\ UNCHANGED <<tableVars, scen, time, coming, stamp, given, forks>>

\* A mutant: an instance known at the time of the state is taken as still to come.
NotYetHeldLate(s, i) == i \in InTable /\ KnownTime(s, i) >= time

\* An installed state holds the instances known up to its time; the others are instantiated
\* when they become known.
NotYetHeld(s, i) == i \in InTable /\ KnownTime(s, i) > time

\* What an installed token may await: its process or activity ready, or its completion.
DueAgain(s, k) ==
  LET i == k[1] n == k[2] IN
  CASE at[k] = "waiting" /\ Kind[n] = "process" -> {ProcessReadyTime(s, i)}
    [] at[k] = "waiting" /\ Kind[n] # "process" ->
         {ActivityReadyTime(s, i, n, t) : t \in ReadyTimestamps(i, n, time)}
    [] at[k] = "busy" /\ Kind[n] \in {"task", "compensation"} ->
         CompletionTimes(i, n, stamp[k], time)
    [] OTHER -> {Undefined}

\* The events the tokens of the copy await are scheduled anew.
DuesAgain(s) ==
  LET awaiting == {k \in Tokens : due[k] # Undefined} IN
  {[k \in Tokens |-> IF k \in awaiting THEN d[k] ELSE Undefined] :
     d \in {d \in [awaiting -> UNION {DueAgain(s, k) : k \in awaiting}] :
              \A k \in awaiting : d[k] \in DueAgain(s, k)}}

\* A fork at a decision: its scenario and a copy of the state are installed together.
Fork ==
  /\ phase = "run" /\ Quiet /\ forks < MaxForks
  /\ forks' = forks + 1
  /\ \E s \in Forks :
       /\ scen' = s
       /\ phase' = IF s.fails THEN "failed" ELSE "run"
       /\ coming' = [i \in Instances |-> IF ~s.fails /\ NotYetHeld(s, i) THEN KnownTime(s, i) ELSE Undefined]
       /\ due' \in IF s.fails THEN {due} ELSE DuesAgain(s)
  /\ UNCHANGED <<provider, table, next, globals, values, shown, inits, readies, ends,
                 time, at, stamp, given>>

Init ==
  /\ TableInit
  /\ scen = Certainty /\ time = Lowest /\ forks = 0
  /\ coming = [i \in Instances |-> Undefined]
  /\ at = [k \in Tokens |-> "absent"]
  /\ due = [k \in Tokens |-> Undefined]
  /\ stamp = [k \in Tokens |-> Undefined]
  /\ given = [k \in Tokens |-> [a \in Attributes |-> Undefined]]

Next ==
  \/ TableNext /\ UNCHANGED runVars
  \/ Start \/ ClockTick \/ Fork
  \/ \E i \in Instances : Instantiate(i)
  \/ \E i \in Instances, n \in Nodes :
       Arrive(i, n) \/ BecomeReady(i, n) \/ Enter(i, n) \/ Complete(i, n)

Spec == Init /\ [][Next]_vars

(*------------------------------- properties ------------------------------*)
\* The row giving an attribute its value: an instance may be given one again by a later row.
Decides(k) == \A j \in DOMAIN inits : j > k => inits[j].inst # inits[k].inst \/ inits[j].attr # inits[k].attr
RowOf(k) == scen.rows[k]
SampledBy(k) == scen.values[inits[k].inst][inits[k].attr]

\* A row may initialise an attribute declared by a scope around the node it names.
GivenAt(i, a, n) == \A k \in DOMAIN inits : inits[k].inst = i /\ inits[k].attr = a => inits[k].node = n

\* Continuing a run in a fork of it, or in a fork of a fork, keeps what has been
\* disclosed, whatever later draws depend on it: every initialization disclosed by
\* the current time keeps its disclosure and its value, and none of the others counts
\* as disclosed already (StochasticDataProvider::forkScenario and sample).
ForkKeepsThePast ==
  [][phase = "run" /\ phase' = "run" =>
       \A k \in DOMAIN inits :
         IF RowOf(k) <= time
           THEN RowOf(k)' = RowOf(k) /\ (Decides(k) => SampledBy(k)' = SampledBy(k))
           ELSE RowOf(k)' > time]_vars

\* What an instance has been given when its process or one of its activities became
\* ready is disclosed, for the node and the scopes around it, and stays the value of
\* the scenario the run is on, the forks included (StaticDataProvider::readyProcess
\* and readyActivity, StochasticDataProvider::sample).  Exempt are values the node or its
\* ready expressions determine, and rows naming a node within the scope that declares
\* the attribute: the scope is given the value before such a row is disclosed
\* (InstanceDataReader.cpp:145), and only the row's own node awaits its disclosure.
GivenAgrees ==
  phase = "run" =>
    \A k \in DOMAIN inits : LET i == inits[k].inst IN
      \A n \in Nodes :
        at[<<i, n>>] \in {"ready", "busy", "done"} /\ inits[k].node \in Upwards[n] =>
          /\ RowOf(k) <= time
          /\ inits[k].node = n /\ Decides(k) /\ inits[k].attr \in ToSet(Own[n]) \ {Timestamp(n)} =>
               \/ given[<<i, n>>][inits[k].attr] = SampledBy(k)
               \/ \E j \in DOMAIN readies[i][n] : readies[i][n][j].target = inits[k].attr
          /\ n = Process(i) /\ GivenAt(i, Timestamp(n), n) => stamp[<<i, n>>] >= scen.values[i][Timestamp(n)]

\* A table that is not refused can be sampled whatever is drawn, and every instance in
\* it comes into being exactly once: it is held by the state or else its instantiation
\* is scheduled, never both and never neither, however often the run is forked
\* (StaticDataProvider::notice, InstanceDataReader, StochasticDataProvider::readValue).
InstancesExact ==
  /\ phase # "failed"
  /\ phase = "run" =>
       \A i \in InTable :
         (at[ProcessToken(i)] = "absent") = (coming[i] # Undefined)
=============================================================================
