-------------------------- MODULE DecisionCandidates --------------------------
(***************************************************************************)
(* A run of the engine under the greedy controller, as far as messages,    *)
(* decisions and data are concerned: the tokens and messages of module     *)
(* MessageExchange, the data they write and announce, the tokens at        *)
(* conditional events, and what the controller has gathered from all these *)
(* notices (execution/controller/src): the candidate decisions with the    *)
(* evaluations it keeps (CachedCandidates and the classes derived from it),*)
(* the messages addressed directly (InstantDirectMessage), and the choice  *)
(* among them (GreedyController, GreedyDispatcher, CompetingCandidates).   *)
(*                                                                         *)
(* A decision is <<t, None>> for the entry of token t and <<t, m>> for the *)
(* delivery of message m to it.  Besides the fields of MessageExchange a   *)
(* collaboration gives for each node                                       *)
(*   reads    the attributes, or "time", read by its entry and completion  *)
(*            restrictions, those it inherits, its operators and guidance; *)
(*   writes, chosen   the attributes its operators write, and its choice;  *)
(*   reward, forbids  the reward of a decision and the values an attribute *)
(*            must not have for a decision to be feasible;                 *)
(*   condition        the attribute a conditional event waits for;         *)
(* and the nodes in a sequential ad-hoc subprocess, and the attributes     *)
(* that are global.                                                        *)
(***************************************************************************)
EXTENDS MessageExchange, Integers, SequencesExt

CONSTANTS MaxTime, MaxInstalls

ASSUME BoundsAssumption == MaxTime \in Nat /\ MaxInstalls \in Nat

\* What a node reads, and the condition it waits for, is declared.
ASSUME AttributesAssumption ==
  \A c \in Collaborations :
    /\ "time" \notin c.attributes
    /\ \A t \in DOMAIN c.node :
         /\ \A w \in DOMAIN c.reads[c.node[t]] :
              c.reads[c.node[t]][w] \subseteq c.attributes \cup {"time"}
         /\ c.kind[c.node[t]] = "condition" => c.condition[c.node[t]] \in c.attributes

VARIABLES
  time,
  data,        \* [<<instance or "global", attribute>> -> value]
  waiting,     \* tokens at conditional events that wait for their condition
  heard,       \* [collector -> [requests, messages]] a collector has been told of
  direct,      \* deliveries of messages addressed directly
  pending,     \* [cache -> decisions without an evaluation]
  evaluation,  \* [cache -> [decision |-> the values its evaluation is based on]]
  timestamp,   \* [cache -> time of the last clock tick it has seen]
  installs,    \* number of states installed, at most MaxInstalls
  silent       \* attributes written without an announcement

dataVars == <<time, data, waiting, silent>>
controllerVars == <<heard, direct, pending, evaluation, timestamp>>
vars == <<exchangeVars, dataVars, controllerVars, installs>>

Values == 0..1
Entries == "entries"
Sequential == "sequential"
Deliveries == "deliveries"
Caches == {Entries, Sequential, Deliveries}
Collectors == {"deliveries", "direct"}

-----------------------------------------------------------------------------
(* Data *)

Root(t) ==
  LET m == model.owner[t] IN IF model.part[m] = "process" THEN m ELSE model.holder[m]

Place(t, a) == <<IF a \in model.globals THEN "global" ELSE Root(t), a>>
Places(t, attributes) == {Place(t, a) : a \in attributes}
Value(t, a) == IF a = "time" THEN time ELSE data[Place(t, a)]

AllPlaces(c) ==
  {<<"global", a>> : a \in c.globals}
    \cup ({m \in DOMAIN c.part : c.part[m] = "process"} \X (c.attributes \ c.globals))

Node(t) == model.node[t]

\* The data the completion of a token announces: a choice is announced together
\* with the operators of its task.
Announced(t) ==
  IF model.writes[Node(t)] = {} THEN {}
  ELSE Places(t, model.writes[Node(t)]
                   \cup (IF Kind(t) = "decision" THEN {model.chosen[Node(t)]} ELSE {}))

\* The operators of the node write, and their writes are announced.
Written(t) ==
  {d \in [DOMAIN data -> Values] :
     \A p \in DOMAIN data : p \notin Places(t, model.writes[Node(t)]) => d[p] = data[p]}

Condition(t) == model.condition[Node(t)]
Holds(t, values) == values[Place(t, Condition(t))] = 1

\* Mutant: the condition is evaluated before the writes.
NoticedBefore(update, values) ==
  {t \in waiting : at[t] = "busy" /\ Place(t, Condition(t)) \in update /\ Holds(t, data)}

\* The tokens whose condition the announced writes make hold are completed.
Noticed(update, values) ==
  {t \in waiting : at[t] = "busy" /\ Place(t, Condition(t)) \in update /\ Holds(t, values)}
Commands(tokens) ==
  [i \in 1..Cardinality(tokens) |-> [type |-> "complete", token |-> SetToSeq(tokens)[i]]]

\* A token whose operators are applied in a step, whatever else the step does.
Applies(t, values) ==
  /\ data' = values
  /\ waiting' = waiting \ Noticed(Announced(t), values)
  /\ silent' = silent \ Announced(t)
  /\ UNCHANGED <<time, installs>>
ByNotice(t, values) == Commands(Noticed(Announced(t), values))

-----------------------------------------------------------------------------
(* Evaluations *)

Reads(t, what) == UNION {model.reads[Node(t)][w] : w \in what \cap DOMAIN model.reads[Node(t)]}

\* A decision about a token that is ready is about its entry.  The operators of
\* a task are applied on entry, those of a node that awaits something later.
ReadByEntry(t) ==
  Reads(t, {"entry", "inherited", "entryGuidance"}
             \cup (IF Kind(t) \in {"task", "sendTask"} THEN {"operators"} ELSE {}))
ReadByDelivery(t) ==
  Reads(t, {"operators", "inherited", "deliveryGuidance"}
             \cup (IF Kind(t) = "receive" THEN {"completion"}
                   ELSE IF Kind(t) = "start" THEN {"entry"} ELSE {}))

ReadBy(d) == IF d[2] = None THEN ReadByEntry(d[1]) ELSE ReadByDelivery(d[1])

\* What an evaluation is known to depend on: not the restrictions inherited by
\* an intermediate or boundary event.
Dependencies(d) ==
  IF d[2] # None /\ Kind(d[1]) = "catch"
  THEN Reads(d[1], {"operators", "deliveryGuidance"})
  ELSE ReadBy(d)

Basis(d) == [a \in ReadBy(d) |-> Value(d[1], a)]

Feasible(d, basis) ==
  \A a \in DOMAIN basis : <<a, basis[a]>> \notin model.forbids[Node(d[1])]
Reward(d, basis) ==
  model.reward[Node(d[1])]
    + FoldSet(LAMBDA a, sum : sum + basis[a], 0, DOMAIN basis)

\* A decision is gone with its request or its message.
Alive(d) ==
  IF d[2] = None THEN AwaitsEntry(d[1]) ELSE AwaitsDelivery(d[1]) /\ d[2] \in Pool

CacheOf(t) == IF Node(t) \in model.sequential THEN Sequential ELSE Entries

TimeDependent(c) == {d \in DOMAIN evaluation[c] : Alive(d) /\ "time" \in Dependencies(d)}

\* The evaluations a cache starts a round with: its clock has ticked if time has
\* passed, except for the deliveries, which are never told the time.
Ticked(c) ==
  IF c # Deliveries /\ time > timestamp[c] THEN TimeDependent(c) ELSE {}
Kept(c) == {d \in DOMAIN evaluation[c] \ Ticked(c) : Alive(d)}
ToEvaluate(c) == {d \in pending[c] \cup Ticked(c) : Alive(d)}

Evaluated(c, decisions) ==
  [d \in Kept(c) \cup decisions |->
     IF d \in decisions THEN Basis(d) ELSE evaluation[c][d]]

\* Of the entries as many are evaluated as it takes to find a feasible one.
FirstFeasible(decisions) ==
  LET feasible == {d \in decisions : Feasible(d, Basis(d))}
      left == ToEvaluate(Entries) \ decisions
  IN \/ left = {} /\ Cardinality(feasible) <= 1
     \/ Cardinality(feasible) = 1

\* The evaluation of the caches in a round, the entries up to the first feasible.
Evaluate(caches, entries) ==
  LET evaluated(c) == IF c = Entries THEN entries ELSE ToEvaluate(c)
  IN /\ entries \subseteq ToEvaluate(Entries)
     /\ FirstFeasible(entries)
     /\ evaluation' = [c \in Caches |->
          IF c \in caches THEN Evaluated(c, evaluated(c)) ELSE evaluation[c]]
     /\ pending' = [c \in Caches |->
          IF c \in caches THEN ToEvaluate(c) \ evaluated(c) ELSE pending[c]]
     /\ timestamp' = [c \in Caches |->
          IF c \in caches \ {Deliveries} /\ time > timestamp[c] THEN time ELSE timestamp[c]]

\* The candidates of some caches and the best of them, by what was evaluated.
Offers(caches, evaluations) ==
  {o \in UNION {{c} \X DOMAIN evaluations[c] : c \in caches} :
     Alive(o[2]) /\ Feasible(o[2], evaluations[o[1]][o[2]])}
Best(offers, evaluations) ==
  {o \in offers : \A p \in offers :
     Reward(o[2], evaluations[o[1]][o[2]]) >= Reward(p[2], evaluations[p[1]][p[2]])}

-----------------------------------------------------------------------------
(* What the controller is told *)

NewMessages == Pool' \ Pool
NewRequests == {t \in Tokens : AwaitsDelivery(t)' /\ ~AwaitsDelivery(t)}
NewEntries == {t \in Tokens : AwaitsEntry(t)' /\ ~AwaitsEntry(t)}

\* The deliveries of some messages some requests may be served by.
Matching(requests, messages) == {d \in requests \X messages : Candidate(d[1], d[2])}

\* Mutant: a new request is not compared with the messages known.
GainedByMessage(collector) ==
  Matching({r \in heard[collector].requests : AwaitsDelivery(r)'}, NewMessages)

\* The deliveries a collector gains from a message and the requests it knows,
\* or from a request and the messages it knows.
Gained(collector) ==
  Matching({r \in heard[collector].requests : AwaitsDelivery(r)'}, NewMessages)
    \cup Matching(NewRequests, heard[collector].messages \cap Pool')

\* A message is addressed directly if it or the receiver names the other.
Directed(pairs) ==
  {p \in pairs : Recipient(p[2]) # None \/ model.address[p[1]] # None}

\* Mutant: writes of global data drop nothing.
ObsoleteLocal(c, update) ==
  {d \in DOMAIN evaluation[c] :
     Places(d[1], Dependencies(d) \ ({"time"} \cup model.globals)) \cap update # {}}

\* An announced write drops the evaluations that depend on what was written.
Obsolete(c, update) ==
  {d \in DOMAIN evaluation[c] :
     Places(d[1], Dependencies(d) \ {"time"}) \cap update # {}}

Told(update) ==
  LET alive(decisions) == {d \in decisions : Alive(d)'}
      new(c) == IF c = Deliveries THEN Gained("deliveries")
                ELSE {<<t, None>> : t \in {u \in NewEntries : CacheOf(u) = c}}
  IN /\ heard' = [k \in Collectors |->
                    [requests |-> {r \in heard[k].requests \cup NewRequests : AwaitsDelivery(r)'},
                     messages |-> (heard[k].messages \cup NewMessages) \cap Pool']]
     /\ direct' = alive(direct \cup Directed(Gained("direct")))
     /\ pending' = [c \in Caches |-> alive(pending[c] \cup Obsolete(c, update) \cup new(c))]
     /\ evaluation' = [c \in Caches |->
          [d \in alive(DOMAIN evaluation[c] \ Obsolete(c, update)) |-> evaluation[c][d]]]
     /\ UNCHANGED timestamp

\* A round that has dispatched an event: the controller has evaluated before,
\* and is told of nothing but the end of requests and messages.
AfterRound ==
  /\ heard' = [k \in Collectors |->
                 [requests |-> {r \in heard[k].requests : AwaitsDelivery(r)'},
                  messages |-> heard[k].messages \cap Pool']]
  /\ direct' = {d \in direct : Alive(d)'}

\* Mutant: the messages addressed directly are collected from notices only.
ToldNothingDirect ==
  LET requests == {t \in Tokens : AwaitsDelivery(t)}
      pairs == Matching(requests, Pool)
  IN /\ heard' = [k \in Collectors |-> [requests |-> requests, messages |-> Pool]]
     /\ direct' = {}
     /\ pending' = [c \in Caches |->
          IF c = Deliveries THEN pairs
          ELSE {<<t, None>> : t \in {u \in Tokens : AwaitsEntry(u) /\ CacheOf(u) = c}}]
     /\ evaluation' = [c \in Caches |-> [d \in {} |-> None]]

\* A state that is installed is read from scratch; the caches keep the time of
\* the last tick they have seen, if in another run.
ToldInstalled ==
  LET requests == {t \in Tokens : AwaitsDelivery(t)}
      pairs == Matching(requests, Pool)
  IN /\ heard' = [k \in Collectors |-> [requests |-> requests, messages |-> Pool]]
     /\ direct' = Directed(pairs)
     /\ pending' = [c \in Caches |->
          IF c = Deliveries THEN pairs
          ELSE {<<t, None>> : t \in {u \in Tokens : AwaitsEntry(u) /\ CacheOf(u) = c}}]
     /\ evaluation' = [c \in Caches |-> [d \in {} |-> None]]

-----------------------------------------------------------------------------
(* Steps of the engine, heard by the controller *)

Init ==
  /\ ExchangeInit
  /\ time = 0
  /\ data = [p \in AllPlaces(model) |-> 0]
  /\ waiting = {}
  /\ heard = [k \in Collectors |-> [requests |-> {}, messages |-> {}]]
  /\ direct = {}
  /\ pending = [c \in Caches |-> {}]
  /\ evaluation = [c \in Caches |-> [d \in {} |-> None]]
  /\ timestamp = [c \in Caches |-> -1]
  /\ installs = 0
  /\ silent = {}

KeepsData == UNCHANGED <<dataVars, installs>>

Starts == \E m \in Machines :
  (StartInstance(m) \/ StartPart(m) \/ EndMachine(m)) /\ KeepsData /\ Told({})

Interrupts == \E t \in Tokens :
  /\ Interrupt(t)
  /\ waiting' = waiting \ {t}
  /\ UNCHANGED <<time, data, silent, installs>>
  /\ Told({})

Arrives == \E t \in Tokens :
  LET holds == Kind(t) = "condition" /\ Holds(t, data)
  IN /\ Arrive(t, holds)
     /\ waiting' = IF Kind(t) = "condition" /\ ~holds THEN waiting \cup {t} ELSE waiting
     /\ UNCHANGED <<time, data, silent, installs>>
     /\ Told({})

Sends == \E t \in Tokens : \E values \in Written(t) :
  Throw(t, ByNotice(t, values)) /\ Applies(t, values) /\ Told(Announced(t))

\* The operators of a task and of a send task are applied when it is entered,
\* those of a node that has awaited something when it completes.
Enters == \E t \in Tokens :
  IF Kind(t) \in {"task", "sendTask"}
  THEN \E values \in Written(t) :
         EnterCommand(t, ByNotice(t, values)) /\ Applies(t, values) /\ Told(Announced(t))
  ELSE EnterCommand(t, <<>>) /\ KeepsData /\ Told({})

Completes == \E t \in Tokens :
  IF Kind(t) \in {"task", "sendTask"}
  THEN CompleteCommand(t, <<>>) /\ KeepsData /\ Told({})
  ELSE \E values \in Written(t) :
         CompleteCommand(t, ByNotice(t, values)) /\ Applies(t, values) /\ Told(Announced(t))

OtherCommands ==
  (Skip \/ \E m \in Tokens : TriggerCommandRun(m)) /\ KeepsData /\ Told({})

TaskDone == \E t \in Tokens :
  Kind(t) = "task" /\ CompleteEvent(t) /\ KeepsData /\ Told({})

-----------------------------------------------------------------------------
(* Rounds: the dispatchers are asked in turn, and time advances if none has   *)
(* an event.                                                                  *)

DispatchEntry(entries) ==
  /\ Evaluate({Entries}, entries)
  /\ LET evaluations == [evaluation EXCEPT ![Entries] = Evaluated(Entries, entries)]
     IN \E o \in Best(Offers({Entries}, evaluations), evaluations) : EnterEvent(o[2][1])
  /\ KeepsData
  /\ AfterRound

NoEntry(entries) == Offers({Entries}, [evaluation EXCEPT ![Entries] = Evaluated(Entries, entries)]) = {}

DispatchDirect(entries) ==
  /\ NoEntry(entries)
  /\ Evaluate({Entries}, entries)
  /\ \E p \in direct : Alive(p) /\ Deliver(p[1], p[2])
  /\ KeepsData
  /\ AfterRound

NoDirect == {p \in direct : Alive(p)} = {}

\* A choice writes its attribute at once; its announcement comes with that of
\* the operators of the task, if it has any.
DispatchChoice(entries) ==
  /\ NoEntry(entries) /\ NoDirect
  /\ Evaluate({Entries}, entries)
  /\ \E t \in Tokens, v \in Values :
       /\ AwaitsChoice(t)
       /\ CompleteEvent(t)
       /\ LET place == Place(t, model.chosen[Node(t)])
          IN /\ data' = [data EXCEPT ![place] = v]
             /\ silent' = silent \cup {place}
  /\ UNCHANGED <<time, waiting, installs>>
  /\ AfterRound

NoChoice == \A t \in Tokens : ~AwaitsChoice(t)

AllEvaluated(entries) ==
  [c \in Caches |-> Evaluated(c, IF c = Entries THEN entries ELSE ToEvaluate(c))]
Competing(entries) == Offers({Sequential, Deliveries}, AllEvaluated(entries))

DispatchBest(entries) ==
  /\ NoEntry(entries) /\ NoDirect /\ NoChoice
  /\ Evaluate(Caches, entries)
  /\ \E o \in Best(Competing(entries), AllEvaluated(entries)) :
       IF o[2][2] = None THEN EnterEvent(o[2][1]) ELSE Deliver(o[2][1], o[2][2])
  /\ KeepsData
  /\ AfterRound

Tick(entries) ==
  /\ Settled
  /\ NoEntry(entries) /\ NoDirect /\ NoChoice
  /\ Competing(entries) = {}
  /\ Evaluate(Caches, entries)
  /\ time < MaxTime
  /\ time' = time + 1
  /\ UNCHANGED <<exchangeVars, data, waiting, silent, installs, heard, direct>>

Dispatch == \E entries \in SUBSET ToEvaluate(Entries) :
  \/ DispatchEntry(entries)
  \/ DispatchDirect(entries)
  \/ DispatchChoice(entries)
  \/ DispatchBest(entries)

\* The state is installed in an engine whose controller is new, or has seen the
\* end of an earlier run.
InstallState ==
  /\ installs < MaxInstalls
  /\ installs' = installs + 1
  /\ Install
  /\ UNCHANGED dataVars
  /\ IF aborted' THEN UNCHANGED controllerVars
     ELSE /\ ToldInstalled
          /\ \E u \in {-1, MaxTime} : timestamp' = [c \in Caches |-> u]

Commanded == Enters \/ Completes \/ OtherCommands

Next ==
  \/ Starts \/ Interrupts \/ Arrives \/ Sends \/ TaskDone \/ Commanded
  \/ Dispatch \/ (\E entries \in SUBSET ToEvaluate(Entries) : Tick(entries))
  \/ InstallState

Spec == Init /\ [][Next]_vars

\* The engine works off its commands and asks its controller again and again;
\* nothing obliges tokens to arrive or machines to end.
FairSpec == Spec /\ WF_vars(Commanded \/ Dispatch)

-----------------------------------------------------------------------------
(* Properties *)

\* A state that is installed registers process instances only, and does not
\* tell apart the messages of one origin to one recipient.
LostInCopy(m) ==
  /\ installs > 0
  /\ \/ Recipient(m) # None /\ model.part[Recipient(m)] # "process"
     \/ \E x \in Tokens \ {m} : Alike(x, m) /\ message[x] # "none"

\* A message that is in the state is where its recipient will find it, and where
\* it is withdrawn with its recipient: kept as long as the recipient is unknown,
\* in its inbox as soon as it is registered, and nowhere once it is over.  This
\* is about Token::sendMessage, registerRecipient and withdrawMessages racing
\* each other, and about their copy in SystemState.
PostedOnce ==
  ~aborted =>
    \A m \in {x \in Pool : ~LostInCopy(x)} :
      LET r == Recipient(m)
          holders == {k \in DOMAIN inbox : m \in inbox[k]}
      IN IF r = None THEN m \in outbox /\ m \notin unsent /\ holders = {}
         ELSE CASE stage[r] = "pending" -> m \in unsent /\ m \notin outbox /\ holders = {}
                [] stage[r] = "live"    -> m \notin unsent /\ m \in outbox /\ holders = {r}
                [] stage[r] = "ended"   ->
                     model.part[r] # "activity" => m \notin outbox /\ holders = {}

\* A send task is busy as long as its message is in the state, or for good if
\* that was withdrawn with its recipient, and it completes only with a delivery;
\* a delivered message has reached one receiver, or an instance it created.
SendersExact ==
  ~aborted =>
    /\ \A t \in {x \in Tokens : IsSendTask(x)} :
         /\ message[t] = "created" => at[t] = "busy"
         /\ message[t] = "withdrawn" /\ at[t] = "busy" =>
              Recipient(t) # None /\ stage[Recipient(t)] = "ended"
         /\ at[t] = "completing" => message[t] = "delivered"
    /\ \A m \in Tokens :
         LET receivers == {r \in Tokens : content[r] = m}
         IN Cardinality(receivers)
              = IF message[m] = "delivered" /\ ProcessesTriggered(model, model.node[m]) = {}
                THEN 1 ELSE 0

Pairs == Matching({t \in Tokens : AwaitsDelivery(t)}, Pool)
Cached(c) == {d \in pending[c] \cup DOMAIN evaluation[c] : Alive(d)}

\* The controller holds exactly the decisions that can be made, each once: one
\* for every pending entry, in the collection responsible for it, and one for
\* every request and message that match, in whatever order these came, went and
\* were installed.
CandidatesExact ==
  ~aborted =>
    /\ Cached(Deliveries) = Pairs
    /\ {d \in direct : Alive(d)} = Directed(Pairs)
    /\ \A c \in {Entries, Sequential} :
         Cached(c) = {<<t, None>> : t \in {u \in Tokens : AwaitsEntry(u) /\ CacheOf(u) = c}}
    /\ \A c \in Caches : \A d \in pending[c] \cap DOMAIN evaluation[c] : ~Alive(d)

\* What an evaluation is not told of: what it is not known to depend on, the
\* time if it is of a delivery or kept by a controller that has seen a later
\* time in an earlier run, and choices that were not announced.
Unnoticed(c, d) ==
  {a \in ReadBy(d) :
     \/ a \notin Dependencies(d)
     \/ a = "time" /\ (c = Deliveries \/ (installs > 0 /\ time <= timestamp[c]))
     \/ a # "time" /\ Place(d[1], a) \in silent}

\* The evaluation a dispatcher compares is that of the present: a write by this
\* or another instance and a tick of the clock drop the evaluations that are
\* based on what has changed, even if nobody asked for them meanwhile.
EvaluationsFresh ==
  Settled =>
    \A c \in Caches : \A d \in Kept(c) : \A a \in ReadBy(d) \ Unnoticed(c, d) :
      evaluation[c][d][a] = Value(d[1], a)

\* No token waits at a conditional event whose condition holds: a write cannot
\* fall between the check on arrival and the announcements the token is told of.
\* Choices that are not announced are the exception.
ConditionsNoticed ==
  \A t \in waiting :
    at[t] = "busy" /\ Holds(t, data) => Place(t, Condition(t)) \in silent

\* The messages addressed directly are delivered, or else one of the two ends is
\* gone, whether or not their delivery is evaluated as feasible, and also if both
\* were there before the state was installed: none waits for ever.
EventuallyServed == Directed(Pairs) # {} ~> (Directed(Pairs) = {} \/ aborted)

\* A copy finds the message of every busy send task (the assertion in the copy
\* constructor of StateMachine): a message withdrawn with its recipient is not.
CopyFindsMessages == aborted => ~SenderWithoutMessage
=============================================================================
