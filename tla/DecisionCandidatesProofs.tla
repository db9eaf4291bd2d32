------------------------ MODULE DecisionCandidatesProofs ------------------------
(***************************************************************************)
(* What the controller gathers is exact and its evaluations are fresh, for *)
(* every collaboration, whatever its nodes, instances and messages.        *)
(*                                                                         *)
(* None of the invariants is inductive.  That no decision is missed or     *)
(* gathered twice rests on tokens and messages never going back to an      *)
(* earlier state, on no step bringing a request and a message at once, and *)
(* on the collectors having been told of everything there is.              *)
(***************************************************************************)
EXTENDS DecisionCandidates, TLAPS

TokenStates == {"created", "ready", "entering", "busy", "completing", "gone"}
MessageStates == {"none", "created", "delivered", "withdrawn"}

\* A token that is not busy yet has sent nothing.
Lifecycle ==
  /\ model \in Collaborations
  /\ at \in [Tokens -> TokenStates]
  /\ message \in [Tokens -> MessageStates]
  /\ \A t \in Tokens : at[t] \in {"created", "ready", "entering"} => message[t] = "none"

\* Tokens and messages go through their states in one direction.
Onwards ==
  /\ model' = model
  /\ \A t \in Tokens :
       /\ at'[t] = "created" => at[t] = "created"
       /\ at'[t] = "ready" => at[t] \in {"created", "ready"}
       /\ at'[t] = "entering" => at[t] \in {"ready", "entering"}
       /\ at'[t] = "busy" => at[t] \in {"created", "entering", "busy"}
       /\ message'[t] = "none" => message[t] = "none"
       /\ message'[t] = "created" => message[t] \in {"none", "created"}

\* A step does not bring a message and a request for one.
NotBoth == NewRequests = {} \/ NewMessages = {}

Advances == Lifecycle' /\ Onwards /\ NotBoth

\* A step ends requests and messages at most.
NothingNew ==
  /\ model' = model
  /\ \A t \in Tokens :
       /\ at'[t] = "ready" => at[t] = "ready"
       /\ at'[t] = "busy" => at[t] = "busy"
       /\ message'[t] = "created" => message[t] = "created"

-----------------------------------------------------------------------------
\* The steps that move no token and send no message.
LEMMA StayingAdvances ==
  ASSUME Lifecycle, UNCHANGED <<model, at, message>>
  PROVE  Advances
  BY DEF Lifecycle, Advances, Onwards, NotBoth, NewRequests, NewMessages, Pool, AwaitsDelivery,
     Tokens, Kind

\* A machine comes into being or is destroyed with its tokens and messages.
LEMMA StartsAdvance ==
  ASSUME Lifecycle,
         NEW m \in Machines, StartInstance(m) \/ StartPart(m) \/ EndMachine(m)
  PROVE  Advances
  <1>1. CASE StartInstance(m) \/ StartPart(m)
    BY <1>1, StayingAdvances DEF StartInstance, StartPart
  <1>2. CASE EndMachine(m)
    <2>1. model' = model
      BY <1>2 DEF EndMachine
    <2>2. \A t \in Tokens : at'[t] = at[t] \/ at'[t] = "gone"
      BY <1>2 DEF EndMachine, Destroy
    <2> DEFINE withdrawing == {k \in Destroyed(m) : model.part[k] # "activity"}
               gone == {t \in Tokens : model.owner[t] \in Destroyed(m)}
               lost == (UNION {Inbox(k) : k \in withdrawing})
                         \cup {t \in gone : IsSendTask(t) /\ at[t] = "busy"}
    <2>3. message' = [x \in Tokens |-> IF x \in lost \cap Pool THEN "withdrawn" ELSE message[x]]
      BY <1>2 DEF EndMachine, Destroy
    <2> HIDE DEF lost
    <2>4. \A t \in Tokens : \/ message'[t] = message[t]
                            \/ message'[t] = "withdrawn" /\ message[t] = "created"
      BY <2>3 DEF Pool
    <2>5. at' = [t \in Tokens |-> IF t \in gone THEN "gone" ELSE at[t]]
      BY <1>2 DEF EndMachine, Destroy
    <2> HIDE DEF gone
    <2>6. at' \in [Tokens -> TokenStates] /\ message' \in [Tokens -> MessageStates]
      BY <2>3, <2>5 DEF Lifecycle, TokenStates, MessageStates
    <2>7. Lifecycle'
      BY <2>1, <2>2, <2>4, <2>6 DEF Lifecycle, Tokens
    <2>8. Onwards
      BY <2>1, <2>2, <2>4 DEF Onwards
    <2>9. NotBoth
      BY <2>1, <2>4 DEF NotBoth, NewMessages, Pool, Tokens
    <2> QED
      BY <2>7, <2>8, <2>9 DEF Advances
  <1> QED
    BY <1>1, <1>2

\* A token moves and no message is sent.
LEMMA MoveAdvances ==
  ASSUME Lifecycle, NEW t \in Tokens, NEW s \in TokenStates \ {"created"},
         model' = model, at' = [at EXCEPT ![t] = s],
         s = "ready" => at[t] = "created",
         s = "entering" => at[t] = "ready",
         s = "busy" => at[t] \in {"created", "entering"},
         \/ message' = message
         \/ message' = [message EXCEPT ![t] = "withdrawn"] /\ message[t] = "created"
  PROVE  Advances
  <1>1. \A u \in Tokens : at'[u] = IF u = t THEN s ELSE at[u]
    BY DEF Lifecycle
  <1>2. at' \in [Tokens -> TokenStates]
    BY DEF Lifecycle
  <1>3. /\ message' \in [Tokens -> MessageStates]
        /\ \A u \in Tokens : \/ message'[u] = message[u]
                             \/ message'[u] = "withdrawn" /\ message[u] = "created"
    <2>1. message \in [Tokens -> MessageStates] /\ "withdrawn" \in MessageStates
      BY DEF Lifecycle, MessageStates
    <2>2. CASE message' = message
      BY <2>1, <2>2
    <2>3. CASE message' = [message EXCEPT ![t] = "withdrawn"] /\ message[t] = "created"
      BY <2>1, <2>3
    <2> QED
      BY <2>2, <2>3
  <1>4. Lifecycle'
    BY <1>1, <1>2, <1>3 DEF Lifecycle, Tokens
  <1>5. Onwards
    BY <1>1, <1>3 DEF Onwards
  <1>6. NotBoth
    BY <1>3 DEF NotBoth, NewMessages, Pool, Tokens
  <1> QED
    BY <1>4, <1>5, <1>6 DEF Advances

\* A token moves and sends its message: it is no token that awaits one.
LEMMA PostAdvances ==
  ASSUME Lifecycle, NEW t \in Tokens, NEW s \in {"busy", "gone"},
         model' = model, at' = [at EXCEPT ![t] = s],
         at[t] \in {"created", "entering"},
         Kind(t) \notin Catching,
         message' = [message EXCEPT ![t] = "created"]
  PROVE  Advances
  <1>1. \A u \in Tokens : at'[u] = IF u = t THEN s ELSE at[u]
    BY DEF Lifecycle
  <1>2. \A u \in Tokens : message'[u] = IF u = t THEN "created" ELSE message[u]
    BY DEF Lifecycle
  <1>3. at' \in [Tokens -> TokenStates] /\ message' \in [Tokens -> MessageStates]
    BY DEF Lifecycle, TokenStates, MessageStates
  <1>4. message[t] = "none"
    BY DEF Lifecycle
  <1>5. Lifecycle'
    BY <1>1, <1>2, <1>3 DEF Lifecycle, Tokens
  <1>6. Onwards
    BY <1>1, <1>2, <1>4 DEF Onwards
  <1>7. NewRequests = {}
    BY <1>1 DEF NewRequests, AwaitsDelivery, Kind, Tokens
  <1> QED
    BY <1>5, <1>6, <1>7 DEF Advances, NotBoth

\* A message is consumed, and tokens that are busy or through complete.
LEMMA ConsumeAdvances ==
  ASSUME Lifecycle, NEW m \in Tokens, message[m] = "created", model' = model,
         at' \in [Tokens -> TokenStates],
         \A u \in Tokens : at'[u] = at[u] \/ at'[u] = "completing",
         message' = [message EXCEPT ![m] = "delivered"]
  PROVE  Advances
  <1>1. \A u \in Tokens : message'[u] = IF u = m THEN "delivered" ELSE message[u]
    BY DEF Lifecycle
  <1>2. message' \in [Tokens -> MessageStates]
    BY DEF Lifecycle, MessageStates
  <1>3. Lifecycle'
    BY <1>1, <1>2 DEF Lifecycle, Tokens
  <1>4. Onwards
    BY <1>1 DEF Onwards
  <1>5. NewMessages = {}
    BY <1>1 DEF NewMessages, Pool, Tokens
  <1> QED
    BY <1>3, <1>4, <1>5 DEF Advances, NotBoth

-----------------------------------------------------------------------------
(* The steps of the exchange *)

LEMMA InterruptAdvances ==
  ASSUME Lifecycle, NEW t \in Tokens, Interrupt(t)
  PROVE  Advances
  BY MoveAdvances DEF Interrupt, Pool, TokenStates

LEMMA ArriveAdvances ==
  ASSUME Lifecycle, NEW t \in Tokens, NEW through \in BOOLEAN, Arrive(t, through)
  PROVE  Advances
  BY MoveAdvances DEF Arrive, Idle, TokenStates

LEMMA ThrowAdvances ==
  ASSUME Lifecycle, NEW t \in Tokens, NEW noticed, Throw(t, noticed)
  PROVE  Advances
  BY PostAdvances DEF Throw, Idle, Post, Catching

LEMMA EnterCommandAdvances ==
  ASSUME Lifecycle, NEW t \in Tokens, NEW noticed, EnterCommand(t, noticed)
  PROVE  Advances
  <1>1. at[t] = "entering" /\ at' = [at EXCEPT ![t] = "busy"] /\ model' = model
    BY DEF EnterCommand
  <1>2. CASE IsSendTask(t)
    <2>1. Kind(t) \notin Catching
      BY <1>2 DEF IsSendTask, Catching
    <2>2. message' = [message EXCEPT ![t] = "created"]
      BY <1>2 DEF EnterCommand, Post
    <2> QED
      BY <1>1, <2>1, <2>2, PostAdvances
  <1>3. CASE ~IsSendTask(t)
    <2>1. message' = message
      BY <1>3 DEF EnterCommand
    <2> QED
      BY <1>1, <2>1, MoveAdvances DEF TokenStates
  <1> QED
    BY <1>2, <1>3

LEMMA CompleteCommandAdvances ==
  ASSUME Lifecycle, NEW t \in Tokens, NEW noticed, CompleteCommand(t, noticed)
  PROVE  Advances
  BY MoveAdvances DEF CompleteCommand, TokenStates

LEMMA TriggerAdvances ==
  ASSUME Lifecycle, NEW m \in Tokens, TriggerCommandRun(m)
  PROVE  Advances
  <1>1. /\ message[m] = "created" /\ model' = model
        /\ message' = [message EXCEPT ![m] = "delivered"]
    BY DEF TriggerCommandRun, Pool
  <1>2. /\ at' \in [Tokens -> TokenStates]
        /\ \A u \in Tokens : at'[u] = at[u] \/ at'[u] = "completing"
    BY DEF TriggerCommandRun, Lifecycle, TokenStates
  <1> QED
    BY <1>1, <1>2, ConsumeAdvances

LEMMA SkipAdvances ==
  ASSUME Lifecycle, Skip
  PROVE  Advances
  BY StayingAdvances DEF Skip

\* What a round dispatches ends requests and messages at most.
LEMMA EnterEventEnds ==
  ASSUME Lifecycle, NEW t, EnterEvent(t)
  PROVE  Advances /\ NothingNew
  <1>1. /\ model' = model /\ message' = message
        /\ at' = [at EXCEPT ![t] = "entering"] /\ at[t] = "ready"
    BY DEF EnterEvent, AwaitsEntry
  <1>2. CASE t \in Tokens
    BY <1>1, <1>2, MoveAdvances DEF TokenStates, NothingNew, Lifecycle
  <1>3. CASE t \notin Tokens
    <2>1. at' = at
      BY <1>1, <1>3 DEF Lifecycle
    <2> QED
      BY <1>1, <2>1, StayingAdvances DEF NothingNew
  <1> QED
    BY <1>2, <1>3

LEMMA CompleteEventEnds ==
  ASSUME Lifecycle, NEW t \in Tokens, CompleteEvent(t)
  PROVE  Advances /\ NothingNew
  BY MoveAdvances DEF CompleteEvent, TokenStates, NothingNew, Lifecycle

LEMMA DeliverEnds ==
  ASSUME Lifecycle, NEW r, NEW m, Deliver(r, m)
  PROVE  Advances /\ NothingNew
  <1>1. /\ model' = model /\ m \in Tokens /\ message[m] = "created"
        /\ message' = [message EXCEPT ![m] = "delivered"]
        /\ at' = [t \in Tokens |->
                    IF t = r \/ (t = m /\ IsSendTask(m)) THEN "completing" ELSE at[t]]
    BY DEF Deliver, Pool
  <1>2. /\ at' \in [Tokens -> TokenStates]
        /\ \A u \in Tokens : at'[u] = at[u] \/ at'[u] = "completing"
    BY <1>1 DEF Lifecycle, TokenStates
  <1>3. Advances
    BY <1>1, <1>2, ConsumeAdvances
  <1>4. NothingNew
    BY <1>1, <1>2 DEF NothingNew, Lifecycle
  <1> QED
    BY <1>3, <1>4

LEMMA InstallAdvances ==
  ASSUME Lifecycle, Install
  PROVE  Advances
  BY StayingAdvances DEF Install

-----------------------------------------------------------------------------
(* Conditional events *)

\* The tokens waiting at conditional events have arrived there, and every
\* attribute has a value.
Waits ==
  /\ waiting \subseteq Tokens
  /\ DOMAIN data = AllPlaces(model)
  /\ \A t \in waiting : Kind(t) = "condition" /\ at[t] \in {"busy", "completing", "gone"}

Conditions == Waits /\ ConditionsNoticed

\* The place of an attribute depends on the collaboration only.
LEMMA SamePlace ==
  ASSUME model' = model, NEW t, NEW a
  PROVE  Place(t, a)' = Place(t, a)
  BY DEF Place, Root

\* Every attribute declared has a place.
LEMMA PlaceExists ==
  ASSUME model \in Collaborations, NEW t \in Tokens, NEW a \in model.attributes
  PROVE  Place(t, a) \in AllPlaces(model)
  <1>1. /\ model.owner[t] \in DOMAIN model.part
        /\ model.part[model.owner[t]] # "process" =>
             model.holder[model.owner[t]] \in DOMAIN model.part
             /\ model.part[model.holder[model.owner[t]]] = "process"
    BY CollaborationsAssumption DEF Tokens
  <1>2. Root(t) \in {m \in DOMAIN model.part : model.part[m] = "process"}
    BY <1>1 DEF Root
  <1> QED
    BY <1>2 DEF Place, AllPlaces

\* The place of the condition a token waits for.
LEMMA ConditionExists ==
  ASSUME model \in Collaborations, NEW t \in Tokens, Kind(t) = "condition"
  PROVE  Place(t, Condition(t)) \in AllPlaces(model)
  <1>1. Condition(t) \in model.attributes
    BY AttributesAssumption DEF Tokens, Kind, Condition, Node
  <1> QED
    BY <1>1, PlaceExists

\* A token keeps waiting while the data it waits for are the same.
LEMMA UnwrittenKeeps ==
  ASSUME Lifecycle, Conditions, Advances, waiting' \subseteq waiting,
         DOMAIN data' = DOMAIN data,
         \A t \in waiting' : LET p == Place(t, Condition(t)) IN
           at'[t] = "busy" =>
             \/ p \in silent'
             \/ data'[p] = data[p] /\ (p \in silent => p \in silent')
             \/ data'[p] # 1
  PROVE  Conditions'
  <1>1. /\ model' = model
        /\ \A t \in Tokens : at'[t] = "busy" => at[t] \in {"created", "entering", "busy"}
    BY DEF Advances, Onwards
  <1>2. Waits'
    <2>1. ASSUME NEW t \in waiting' PROVE at'[t] \in {"busy", "completing", "gone"}
      <3>1. t \in Tokens /\ at[t] \in {"busy", "completing", "gone"}
        BY <2>1 DEF Conditions, Waits
      <3>2. at' \in [Tokens -> TokenStates]
        BY <1>1 DEF Advances, Lifecycle, Tokens
      <3> QED
        BY <3>1, <3>2 DEF Advances, Onwards, TokenStates
    <2> QED
      BY <1>1, <2>1 DEF Conditions, Waits, Kind, Tokens
  <1>3. ASSUME NEW t \in waiting', at'[t] = "busy", Holds(t, data)'
        PROVE  Place(t, Condition(t))' \in silent'
    <2> DEFINE p == Place(t, Condition(t))
    <2>1. Place(t, Condition(t))' = p
      BY <1>1 DEF Place, Condition, Root, Node
    <2>2. data'[p] = 1
      BY <1>1, <1>3, <2>1 DEF Holds, Place, Condition, Root, Node
    <2>3. t \in waiting /\ at[t] = "busy"
      BY <1>1, <1>3 DEF Conditions, Waits
    <2>4. data[p] = 1 => p \in silent
      BY <2>3 DEF Conditions, ConditionsNoticed, Holds
    <2>5. \/ p \in silent'
          \/ data'[p] = data[p] /\ (p \in silent => p \in silent')
      BY <1>3, <2>2
    <2> HIDE DEF p
    <2> QED
      BY <2>1, <2>2, <2>4, <2>5
  <1> QED
    BY <1>2, <1>3 DEF Conditions, ConditionsNoticed

\* The operators of a node write, and their writes are announced.
LEMMA AppliesKeeps ==
  ASSUME Lifecycle, Conditions, Advances,
         NEW t \in Tokens, NEW values \in Written(t), Applies(t, values)
  PROVE  Conditions'
  <1>1. /\ data' = values /\ waiting' = waiting \ Noticed(Announced(t), values)
        /\ silent' = silent \ Announced(t)
    BY DEF Applies
  <1>2. /\ DOMAIN values = DOMAIN data
        /\ \A p \in DOMAIN data : p \notin Places(t, model.writes[Node(t)]) => values[p] = data[p]
    BY DEF Written
  <1>3. Places(t, model.writes[Node(t)]) \subseteq Announced(t)
    BY DEF Announced, Places
  <1>4. ASSUME NEW u \in waiting', at'[u] = "busy"
        PROVE  LET p == Place(u, Condition(u)) IN
               \/ data'[p] = data[p] /\ (p \in silent => p \in silent')
               \/ data'[p] # 1
    <2>1. u \in waiting /\ u \in Tokens /\ at[u] = "busy" /\ u \notin Noticed(Announced(t), values)
      BY <1>1, <1>4 DEF Conditions, Waits, Advances, Onwards
    <2>2. Place(u, Condition(u)) \in DOMAIN data
      BY <2>1, ConditionExists DEF Conditions, Waits, Lifecycle
    <2>3. CASE Place(u, Condition(u)) \in Announced(t)
      BY <1>1, <2>1, <2>3 DEF Noticed, Holds
    <2>4. CASE Place(u, Condition(u)) \notin Announced(t)
      BY <1>1, <1>2, <1>3, <2>2, <2>4
    <2> QED
      BY <2>3, <2>4
  <1> QED
    BY <1>1, <1>2, <1>4, UnwrittenKeeps

-----------------------------------------------------------------------------
(* The steps of the engine *)

\* The steps the controller is told of, and what it is told has been written.
Engine == Starts \/ Interrupts \/ Arrives \/ Sends \/ TaskDone \/ Commanded

LEMMA EngineAdvances ==
  ASSUME Lifecycle, Engine
  PROVE  Advances
  <1>1. CASE Starts
    BY <1>1, StartsAdvance DEF Starts
  <1>2. CASE Interrupts
    BY <1>2, InterruptAdvances DEF Interrupts
  <1>3. CASE Arrives
    <2>1. PICK t \in Tokens : Arrive(t, Kind(t) = "condition" /\ Holds(t, data))
      BY <1>3 DEF Arrives
    <2> QED
      BY <2>1, ArriveAdvances
  <1>4. CASE Sends
    BY <1>4, ThrowAdvances DEF Sends
  <1>5. CASE TaskDone
    BY <1>5, CompleteEventEnds DEF TaskDone
  <1>6. CASE Enters
    BY <1>6, EnterCommandAdvances DEF Enters
  <1>7. CASE Completes
    BY <1>7, CompleteCommandAdvances DEF Completes
  <1>8. CASE OtherCommands
    BY <1>8, SkipAdvances, TriggerAdvances DEF OtherCommands
  <1> QED
    BY <1>1, <1>2, <1>3, <1>4, <1>5, <1>6, <1>7, <1>8 DEF Engine, Commanded

LEMMA DispatchEnds ==
  ASSUME Lifecycle, Dispatch
  PROVE  Advances /\ NothingNew
  <1> PICK entries : DispatchEntry(entries) \/ DispatchDirect(entries)
                     \/ DispatchChoice(entries) \/ DispatchBest(entries)
    BY DEF Dispatch
  <1>1. CASE DispatchEntry(entries)
    BY <1>1, EnterEventEnds DEF DispatchEntry
  <1>2. CASE DispatchDirect(entries)
    BY <1>2, DeliverEnds DEF DispatchDirect
  <1>3. CASE DispatchChoice(entries)
    BY <1>3, CompleteEventEnds DEF DispatchChoice
  <1>4. CASE DispatchBest(entries)
    BY <1>4, EnterEventEnds, DeliverEnds DEF DispatchBest
  <1> QED
    BY <1>1, <1>2, <1>3, <1>4

LEMMA OthersAdvance ==
  ASSUME Lifecycle,
         (\E entries \in SUBSET ToEvaluate(Entries) : Tick(entries)) \/ InstallState
           \/ UNCHANGED vars
  PROVE  Advances
  BY StayingAdvances, InstallAdvances DEF Tick, InstallState, exchangeVars, vars

\* In every step tokens and messages go on, and no step brings both a message
\* and a request for one.
LEMMA NextAdvances == Lifecycle /\ [Next]_vars => Advances
  BY EngineAdvances, DispatchEnds, OthersAdvance DEF Next, Engine

LEMMA InitLifecycle == Init => Lifecycle
  BY DEF Init, ExchangeInit, Lifecycle, TokenStates, MessageStates

-----------------------------------------------------------------------------
(* No token waits for a condition that holds *)

LEMMA SameDataKeeps ==
  ASSUME Lifecycle, Conditions, Advances,
         waiting' \subseteq waiting, data' = data, silent' = silent
  PROVE  Conditions'
  BY UnwrittenKeeps

\* A token arriving at a conditional event goes on if its condition holds, and
\* waits otherwise.
LEMMA ArrivesKeeps ==
  ASSUME Lifecycle, Conditions, Arrives
  PROVE  Conditions'
  <1> PICK t \in Tokens :
        LET holds == Kind(t) = "condition" /\ Holds(t, data)
        IN /\ Arrive(t, holds)
           /\ waiting' = IF Kind(t) = "condition" /\ ~holds THEN waiting \cup {t} ELSE waiting
           /\ UNCHANGED <<time, data, silent, installs>>
    BY DEF Arrives
  <1>1. Advances
    BY ArriveAdvances
  <1>2. CASE waiting' = waiting
    BY <1>1, <1>2, SameDataKeeps
  <1>3. CASE Kind(t) = "condition" /\ ~Holds(t, data) /\ waiting' = waiting \cup {t}
    <2>1. model' = model /\ at' = [at EXCEPT ![t] = "busy"]
      BY <1>3 DEF Arrive, Activities
    <2>2. \A u \in Tokens : at'[u] = IF u = t THEN "busy" ELSE at[u]
      BY <2>1 DEF Lifecycle
    <2>3. Waits'
      BY <1>3, <2>1, <2>2 DEF Conditions, Waits, Kind, Tokens
    <2>4. ASSUME NEW u \in waiting', at'[u] = "busy", Holds(u, data)'
          PROVE  Place(u, Condition(u))' \in silent'
      <3>1. Holds(u, data)
        BY <2>1, <2>4 DEF Holds, Place, Condition, Root, Node
      <3>2. u \in waiting /\ u # t
        BY <1>3, <2>4, <3>1
      <3>3. Place(u, Condition(u)) \in silent
        BY <2>2, <2>4, <3>1, <3>2 DEF Conditions, Waits, ConditionsNoticed
      <3> QED
        BY <2>1, <3>3 DEF Place, Condition, Root, Node
    <2> QED
      BY <2>3, <2>4 DEF Conditions, ConditionsNoticed
  <1> QED
    BY <1>2, <1>3

\* A choice writes its attribute at once, and is announced later if ever.
LEMMA DispatchKeeps ==
  ASSUME Lifecycle, Conditions, Dispatch
  PROVE  Conditions'
  <1> PICK entries : DispatchEntry(entries) \/ DispatchDirect(entries)
                     \/ DispatchChoice(entries) \/ DispatchBest(entries)
    BY DEF Dispatch
  <1>1. Advances
    BY DispatchEnds
  <1>2. CASE DispatchEntry(entries) \/ DispatchDirect(entries) \/ DispatchBest(entries)
    <2>1. KeepsData
      BY <1>2 DEF DispatchEntry, DispatchDirect, DispatchBest
    <2> QED
      BY <1>1, <2>1, SameDataKeeps DEF KeepsData, dataVars
  <1>3. CASE DispatchChoice(entries)
    <2>1. PICK place, v : /\ data' = [data EXCEPT ![place] = v]
                          /\ silent' = silent \cup {place}
      BY <1>3 DEF DispatchChoice
    <2>2. waiting' = waiting /\ DOMAIN data' = DOMAIN data
      BY <1>3, <2>1 DEF DispatchChoice
    <2>3. ASSUME NEW p, p # place, p \in DOMAIN data
          PROVE  data'[p] = data[p]
      BY <2>1, <2>3
    <2>4. ASSUME NEW u \in waiting'
          PROVE  Place(u, Condition(u)) \in DOMAIN data
      BY <2>2, ConditionExists DEF Conditions, Waits, Lifecycle
    <2> QED
      BY <1>1, <2>1, <2>2, <2>3, <2>4, UnwrittenKeeps
  <1> QED
    BY <1>2, <1>3

LEMMA ConditionsKept == Lifecycle /\ Conditions /\ [Next]_vars => Conditions'
  <1> SUFFICES ASSUME Lifecycle, Conditions, [Next]_vars PROVE Conditions'
    OBVIOUS
  <1>1. Advances
    BY NextAdvances
  <1>2. CASE Starts \/ Interrupts \/ TaskDone \/ OtherCommands
    <2>1. waiting' \subseteq waiting /\ data' = data /\ silent' = silent
      BY <1>2 DEF Starts, Interrupts, TaskDone, OtherCommands, KeepsData, dataVars
    <2> QED
      BY <1>1, <2>1, SameDataKeeps
  <1>3. CASE Arrives
    BY <1>3, ArrivesKeeps
  <1>4. CASE Sends
    BY <1>1, <1>4, AppliesKeeps DEF Sends
  <1>5. CASE Enters \/ Completes
    <2>1. \/ \E t \in Tokens : \E values \in Written(t) : Applies(t, values)
          \/ KeepsData
      BY <1>5 DEF Enters, Completes
    <2> QED
      BY <1>1, <2>1, AppliesKeeps, SameDataKeeps DEF KeepsData, dataVars
  <1>6. CASE Dispatch
    BY <1>6, DispatchKeeps
  <1>7. CASE (\E entries \in SUBSET ToEvaluate(Entries) : Tick(entries)) \/ InstallState
             \/ UNCHANGED vars
    <2>1. waiting' = waiting /\ data' = data /\ silent' = silent
      BY <1>7 DEF Tick, InstallState, dataVars, vars
    <2> QED
      BY <1>1, <2>1, SameDataKeeps
  <1> QED
    BY <1>2, <1>3, <1>4, <1>5, <1>6, <1>7 DEF Next, Commanded

LEMMA InitConditions == Init => Conditions
  BY DEF Init, ExchangeInit, Conditions, Waits, ConditionsNoticed

\* In every step tokens and messages go on: the types of both are kept.
LEMMA LifecycleKept == Lifecycle /\ [Next]_vars => Lifecycle'
  BY NextAdvances DEF Advances

\* No token waits at a conditional event whose condition holds, unless by a
\* choice that was not announced: whatever is written, by whichever instance,
\* between the arrival of the token and the notices it is given.
THEOREM NoConditionMissed == Spec => []ConditionsNoticed
  <1>1. Conditions => ConditionsNoticed
    BY DEF Conditions
  <1> QED
    BY InitLifecycle, InitConditions, LifecycleKept, ConditionsKept, <1>1, PTL DEF Spec

-----------------------------------------------------------------------------
(* The decisions gathered *)

\* The pairs and entries that can be decided, or could be earlier.
Requested == {t \in Tokens : AwaitsDelivery(t)}
PastPairs ==
  {d \in Matching(Tokens, Tokens) :
     at[d[1]] \notin {"created", "ready", "entering"} /\ message[d[2]] # "none"}
EntriesOf(c, tokens) == {<<t, None>> : t \in {u \in tokens : CacheOf(u) = c}}
Past(c) ==
  IF c = Deliveries THEN PastPairs ELSE EntriesOf(c, {t \in Tokens : at[t] # "created"})
Possible(c) ==
  IF c = Deliveries THEN Pairs ELSE EntriesOf(c, {t \in Tokens : AwaitsEntry(t)})

\* A cache holds each decision that can be made once, and besides only such as
\* could be made earlier: these cannot be made again.
CacheExact(c) ==
  /\ pending[c] \cup DOMAIN evaluation[c] \subseteq Past(c)
  /\ Possible(c) \subseteq pending[c] \cup DOMAIN evaluation[c]
  /\ pending[c] \cap DOMAIN evaluation[c] = {}

HeardAll ==
  \A k \in Collectors : heard[k].requests = Requested /\ heard[k].messages = Pool

DirectExact == direct \subseteq Directed(PastPairs) /\ Directed(Pairs) \subseteq direct

Gathered == HeardAll /\ DirectExact /\ \A c \in Caches : CacheExact(c)

\* What a cache gains from a step.
New(c) == IF c = Deliveries THEN Gained("deliveries") ELSE EntriesOf(c, NewEntries)

\* The pairs that can be decided are those of a request and a message.
LEMMA PairsAre ==
  ASSUME Lifecycle, NEW d
  PROVE  d \in Pairs <=>
           /\ d \in Matching(Tokens, Tokens)
           /\ AwaitsDelivery(d[1]) /\ message[d[2]] = "created"
  BY DEF Pairs, Matching, Pool

LEMMA NoneIsNoToken == Lifecycle => None \notin Tokens
  BY CollaborationsAssumption DEF Lifecycle, Tokens

\* What can be decided is what could be and is alive.
LEMMA PairsAlive ==
  ASSUME Lifecycle, NEW d \in PastPairs
  PROVE  d \in Pairs <=> Alive(d)
  <1>1. d \in Matching(Tokens, Tokens) /\ d[2] \in Tokens /\ d[2] # None
    BY NoneIsNoToken DEF PastPairs, Matching
  <1>2. Alive(d) <=> AwaitsDelivery(d[1]) /\ message[d[2]] = "created"
    BY <1>1 DEF Alive, Pool
  <1> QED
    BY <1>1, <1>2, PairsAre

LEMMA PairsPast ==
  ASSUME Lifecycle
  PROVE  Pairs \subseteq PastPairs
  BY PairsAre DEF PastPairs, AwaitsDelivery

LEMMA PossibleAlive ==
  ASSUME Lifecycle, NEW c \in Caches, NEW d \in Past(c)
  PROVE  d \in Possible(c) <=> Alive(d)
  <1>1. CASE c = Deliveries
    BY <1>1, PairsAlive DEF Past, Possible
  <1>2. CASE c # Deliveries
    <2>1. PICK t \in Tokens : d = <<t, None>> /\ CacheOf(t) = c
      BY <1>2 DEF Past, EntriesOf
    <2>2. Alive(d) <=> AwaitsEntry(t)
      BY <2>1 DEF Alive
    <2>3. d \in Possible(c) <=> AwaitsEntry(t)
      BY <1>2, <2>1 DEF Possible, EntriesOf
    <2> QED
      BY <2>2, <2>3
  <1> QED
    BY <1>1, <1>2

LEMMA PossiblePast ==
  ASSUME Lifecycle, NEW c \in Caches
  PROVE  Possible(c) \subseteq Past(c)
  BY PairsPast DEF Possible, Past, EntriesOf, AwaitsEntry

\* What could be decided earlier stays so.
LEMMA PastStays ==
  ASSUME Lifecycle, Advances, NEW c \in Caches
  PROVE  PastPairs \subseteq PastPairs' /\ Past(c) \subseteq Past(c)'
  <1>1. model' = model
    BY DEF Advances, Onwards
  <1>2. PastPairs \subseteq PastPairs'
    <2> SUFFICES ASSUME NEW d \in PastPairs PROVE d \in PastPairs'
      OBVIOUS
    <2>1. d[1] \in Tokens /\ d[2] \in Tokens
      BY DEF PastPairs, Matching
    <2>2. d \in Matching(Tokens, Tokens)'
      BY <1>1 DEF PastPairs, Matching, Tokens, Candidate, Matches, Recipient
    <2>3. at'[d[1]] \notin {"created", "ready", "entering"}
      BY <2>1 DEF PastPairs, Advances, Onwards
    <2>4. message'[d[2]] # "none"
      BY <2>1 DEF PastPairs, Advances, Onwards
    <2> QED
      BY <2>2, <2>3, <2>4 DEF PastPairs
  <1>3. CASE c = Deliveries
    BY <1>2, <1>3 DEF Past
  <1>4. CASE c # Deliveries
    <2>1. ASSUME NEW t \in Tokens, CacheOf(t) = c, at[t] # "created"
          PROVE  t \in Tokens' /\ CacheOf(t)' = c /\ at'[t] # "created"
      BY <1>1, <2>1 DEF Advances, Onwards, Tokens, CacheOf, Node
    <2>2. ASSUME NEW d \in Past(c) PROVE d \in Past(c)'
      <3>1. PICK t \in Tokens : d = <<t, None>> /\ CacheOf(t) = c /\ at[t] # "created"
        BY <1>4, <2>2 DEF Past, EntriesOf
      <3>2. t \in {u \in {v \in Tokens' : at'[v] # "created"} : CacheOf(u)' = c}
        BY <2>1, <3>1
      <3> QED
        BY <1>4, <3>1, <3>2 DEF Past, EntriesOf
    <2> QED
      BY <1>2, <2>2
  <1> QED
    BY <1>3, <1>4

\* What is gained is what can be decided after a step and could not before; it
\* has never been decided.
LEMMA GainedPairs ==
  ASSUME Lifecycle, Advances, HeardAll, NEW k \in Collectors, NEW d
  PROVE  /\ d \in Gained(k) => d \in Pairs' /\ d \notin PastPairs
         /\ d \in Pairs' /\ d \notin Pairs => d \in Gained(k)
  <1>1. /\ model' = model
        /\ \A t \in Tokens :
             /\ at'[t] = "busy" => at[t] \in {"created", "entering", "busy"}
             /\ message'[t] = "created" => message[t] \in {"none", "created"}
    BY DEF Advances, Onwards
  <1>2. Tokens' = Tokens /\ Matching(Tokens, Tokens)' = Matching(Tokens, Tokens)
    BY <1>1 DEF Tokens, Matching, Candidate, Matches, Recipient
  <1>3. /\ heard[k].requests = {t \in Tokens : AwaitsDelivery(t)}
        /\ heard[k].messages = {m \in Tokens : message[m] = "created"}
    BY DEF HeardAll, Requested, Pool
  <1>4. d \in Pairs' <=> /\ d \in Matching(Tokens, Tokens)
                         /\ AwaitsDelivery(d[1])' /\ message'[d[2]] = "created"
    <2>1. (Lifecycle => (d \in Pairs <=>
             /\ d \in Matching(Tokens, Tokens)
             /\ AwaitsDelivery(d[1]) /\ message[d[2]] = "created"))'
      BY PairsAre, PTL
    <2> QED
      BY <1>2, <2>1 DEF Advances
  <1>5. d \in Gained(k) <=>
          /\ d \in Matching(Tokens, Tokens)
          /\ AwaitsDelivery(d[1])' /\ message'[d[2]] = "created"
          /\ \/ AwaitsDelivery(d[1]) /\ message[d[2]] # "created"
             \/ ~AwaitsDelivery(d[1]) /\ message[d[2]] = "created"
    BY <1>2, <1>3 DEF Gained, Matching, NewMessages, NewRequests, Pool
  <1>6. ASSUME d \in Gained(k) PROVE d \notin PastPairs
    <2>1. d[1] \in Tokens /\ d[2] \in Tokens
      BY <1>5, <1>6 DEF Matching
    <2>2. CASE message[d[2]] # "created"
      BY <1>1, <1>5, <1>6, <2>1, <2>2 DEF PastPairs
    <2>3. CASE ~AwaitsDelivery(d[1])
      <3>1. at[d[1]] \in {"created", "entering"}
        BY <1>1, <1>5, <1>6, <2>1, <2>3 DEF AwaitsDelivery, Kind
      <3> QED
        BY <3>1 DEF PastPairs
    <2> QED
      BY <1>5, <1>6, <2>2, <2>3
  <1>7. ASSUME d \in Pairs', d \notin Pairs PROVE d \in Gained(k)
    <2>1. d \in Matching(Tokens, Tokens) /\ d[1] \in Tokens /\ d[2] \in Tokens
      BY <1>4, <1>7 DEF Matching
    <2>2. ~(AwaitsDelivery(d[1]) /\ message[d[2]] = "created")
      BY <1>7, <2>1, PairsAre
    <2>3. ~(~AwaitsDelivery(d[1]) /\ message[d[2]] # "created")
      <3>1. ASSUME ~AwaitsDelivery(d[1]), message[d[2]] # "created" PROVE FALSE
        <4>1. d[1] \in NewRequests
          BY <1>4, <1>7, <2>1, <3>1 DEF NewRequests
        <4>2. d[2] \in NewMessages
          BY <1>2, <1>4, <1>7, <2>1, <3>1 DEF NewMessages, Pool
        <4> QED
          BY <4>1, <4>2 DEF Advances, NotBoth
      <3> QED
        BY <3>1
    <2> QED
      BY <1>4, <1>5, <1>7, <2>2, <2>3
  <1> QED
    BY <1>4, <1>5, <1>6, <1>7

LEMMA GainedEntries ==
  ASSUME Lifecycle, Advances, NEW c \in Caches \ {Deliveries}, NEW d
  PROVE  /\ d \in New(c) => d \in Possible(c)' /\ d \notin Past(c)
         /\ d \in Possible(c)' /\ d \notin Possible(c) => d \in New(c)
  <1>1. /\ model' = model
        /\ \A t \in Tokens : at'[t] = "ready" => at[t] \in {"created", "ready"}
    BY DEF Advances, Onwards
  <1>2. Tokens' = Tokens /\ \A t : CacheOf(t)' = CacheOf(t)
    BY <1>1 DEF Tokens, CacheOf, Node
  <1>3. d \in Possible(c)' <=>
          \E t \in Tokens : d = <<t, None>> /\ CacheOf(t) = c /\ at'[t] = "ready"
    BY <1>2 DEF Possible, EntriesOf, AwaitsEntry
  <1>4. d \in Possible(c) <=>
          \E t \in Tokens : d = <<t, None>> /\ CacheOf(t) = c /\ at[t] = "ready"
    BY DEF Possible, EntriesOf, AwaitsEntry
  <1>5. d \in New(c) <=>
          \E t \in Tokens : d = <<t, None>> /\ CacheOf(t) = c /\ at'[t] = "ready" /\ at[t] # "ready"
    BY DEF New, EntriesOf, NewEntries, AwaitsEntry
  <1>6. d \in Past(c) <=>
          \E t \in Tokens : d = <<t, None>> /\ CacheOf(t) = c /\ at[t] # "created"
    BY DEF Past, EntriesOf
  <1> QED
    BY <1>1, <1>3, <1>4, <1>5, <1>6

LEMMA GainedIsNew ==
  ASSUME Lifecycle, Advances, HeardAll, NEW c \in Caches, NEW d
  PROVE  /\ d \in New(c) => d \in Possible(c)' /\ d \notin Past(c)
         /\ d \in Possible(c)' /\ d \notin Possible(c) => d \in New(c)
  <1>1. CASE c = Deliveries
    <2>1. Deliveries \in Collectors
      BY DEF Collectors, Deliveries
    <2>2. /\ d \in Gained(Deliveries) => d \in Pairs' /\ d \notin PastPairs
          /\ d \in Pairs' /\ d \notin Pairs => d \in Gained(Deliveries)
      BY <2>1, GainedPairs
    <2> QED
      BY <1>1, <2>2 DEF New, Possible, Past, Deliveries
  <1>2. CASE c # Deliveries
    BY <1>2, GainedEntries
  <1> QED
    BY <1>1, <1>2

-----------------------------------------------------------------------------
(* What the controller holds after a step *)

\* What remains possible or past after a step, by what is alive.
LEMMA PossibleNext ==
  ASSUME Lifecycle, Advances, NEW c \in Caches, NEW d \in Past(c)
  PROVE  d \in Past(c)' /\ (d \in Possible(c)' <=> Alive(d)')
  <1>1. d \in Past(c)'
    BY PastStays
  <1>2. (Lifecycle => (d \in Past(c) => (d \in Possible(c) <=> Alive(d))))'
    BY PossibleAlive, PTL
  <1> QED
    BY <1>1, <1>2 DEF Advances

LEMMA PossibleIsPastNext ==
  ASSUME Advances, NEW c \in Caches
  PROVE  Possible(c)' \subseteq Past(c)'
  <1>1. (Lifecycle => Possible(c) \subseteq Past(c))'
    BY PossiblePast, PTL
  <1> QED
    BY <1>1 DEF Advances

\* A cache is told of what it gains and of what has become obsolete.
LEMMA ToldCache ==
  ASSUME Lifecycle, Advances, HeardAll, NEW c \in Caches, CacheExact(c),
         NEW update, Told(update)
  PROVE  CacheExact(c)'
  <1>1. pending'[c] = {d \in pending[c] \cup Obsolete(c, update) \cup New(c) : Alive(d)'}
    BY DEF Told, New, EntriesOf
  <1>2. DOMAIN evaluation'[c] = {d \in DOMAIN evaluation[c] \ Obsolete(c, update) : Alive(d)'}
    BY DEF Told
  <1>3. Obsolete(c, update) \subseteq DOMAIN evaluation[c]
    BY DEF Obsolete
  <1>4. /\ pending[c] \cup DOMAIN evaluation[c] \subseteq Past(c)
        /\ Possible(c) \subseteq pending[c] \cup DOMAIN evaluation[c]
        /\ pending[c] \cap DOMAIN evaluation[c] = {}
    BY DEF CacheExact
  <1>5. ASSUME NEW d \in pending'[c] \cup DOMAIN evaluation'[c]
        PROVE  d \in Past(c)'
    BY <1>1, <1>2, <1>3, <1>4, GainedIsNew, PossibleNext, PossibleIsPastNext
  <1>6. ASSUME NEW d \in Possible(c)'
        PROVE  d \in pending'[c] \cup DOMAIN evaluation'[c]
    <2>1. Alive(d)'
      <3>1. (Lifecycle => (d \in Past(c) => (d \in Possible(c) <=> Alive(d))))'
        BY PossibleAlive, PTL
      <3> QED
        BY <1>6, <3>1, PossibleIsPastNext DEF Advances
    <2> QED
      BY <1>1, <1>2, <1>4, <2>1, GainedIsNew
  <1>7. ASSUME NEW d \in pending'[c] \cap DOMAIN evaluation'[c]
        PROVE  FALSE
    BY <1>1, <1>2, <1>4, <1>7, GainedIsNew
  <1> QED
    BY <1>5, <1>6, <1>7 DEF CacheExact

LEMMA ToldDirect ==
  ASSUME Lifecycle, Advances, HeardAll, DirectExact, NEW update, Told(update)
  PROVE  DirectExact'
  <1>1. direct' = {d \in direct \cup Directed(Gained("direct")) : Alive(d)'}
    BY DEF Told
  <1>2. \A d : (Recipient(d[2]) # None \/ model.address[d[1]] # None)'
               = (Recipient(d[2]) # None \/ model.address[d[1]] # None)
    BY DEF Advances, Onwards, Recipient
  <1>3. Deliveries \in Caches /\ "direct" \in Collectors
    BY DEF Caches, Collectors
  <1>4. Past(Deliveries) = PastPairs /\ Possible(Deliveries) = Pairs
        /\ Past(Deliveries)' = PastPairs' /\ Possible(Deliveries)' = Pairs'
    BY DEF Past, Possible
  <1>5. ASSUME NEW d \in direct'
        PROVE  d \in Directed(PastPairs)'
    <2>1. d \in Directed(PastPairs) \/ d \in Directed(Gained("direct"))
      BY <1>1 DEF DirectExact
    <2>2. d \in PastPairs'
      BY <1>3, <1>4, <2>1, PastStays, GainedPairs, PossibleIsPastNext DEF Directed
    <2> QED
      BY <1>2, <2>1, <2>2 DEF Directed
  <1>6. ASSUME NEW d \in Directed(Pairs)'
        PROVE  d \in direct'
    <2>1. d \in Pairs' /\ (Recipient(d[2]) # None \/ model.address[d[1]] # None)
      BY <1>2, <1>6 DEF Directed
    <2>2. Alive(d)'
      <3>1. (Lifecycle => (d \in PastPairs => (d \in Pairs <=> Alive(d))))'
        BY PairsAlive, PTL
      <3> QED
        BY <1>3, <1>4, <2>1, <3>1, PossibleIsPastNext DEF Advances
    <2>3. d \in Pairs \/ d \in Gained("direct")
      BY <1>3, <2>1, GainedPairs
    <2> QED
      BY <1>1, <2>1, <2>2, <2>3 DEF Directed, DirectExact
  <1> QED
    BY <1>5, <1>6 DEF DirectExact

LEMMA ToldHeard ==
  ASSUME Lifecycle, Advances, HeardAll, NEW update, Told(update)
  PROVE  HeardAll'
  <1>1. Tokens' = Tokens
    BY DEF Advances, Onwards, Tokens
  <1>2. ASSUME NEW k \in Collectors
        PROVE  heard'[k].requests = Requested' /\ heard'[k].messages = Pool'
    <2>1. /\ heard'[k].requests = {r \in heard[k].requests \cup NewRequests : AwaitsDelivery(r)'}
          /\ heard'[k].messages = (heard[k].messages \cup NewMessages) \cap Pool'
      BY DEF Told
    <2>2. heard[k].requests = Requested /\ heard[k].messages = Pool
      BY DEF HeardAll
    <2>3. heard'[k].messages = Pool'
      BY <2>1, <2>2 DEF NewMessages
    <2>4. heard'[k].requests = Requested'
      BY <1>1, <2>1, <2>2 DEF Requested, NewRequests
    <2> QED
      BY <2>3, <2>4
  <1> QED
    BY <1>2 DEF HeardAll

\* When nothing is new, nothing becomes possible.
LEMMA NothingPossible ==
  ASSUME Lifecycle, Advances, NothingNew, NEW c \in Caches
  PROVE  Pairs' \subseteq Pairs /\ Possible(c)' \subseteq Possible(c)
  <1>1. model' = model
    BY DEF NothingNew
  <1>2. Tokens' = Tokens /\ Matching(Tokens, Tokens)' = Matching(Tokens, Tokens)
    BY <1>1 DEF Tokens, Matching, Candidate, Matches, Recipient
  <1>3. ASSUME NEW d \in Pairs' PROVE d \in Pairs
    <2>1. (Lifecycle => (d \in Pairs <=>
             /\ d \in Matching(Tokens, Tokens)
             /\ AwaitsDelivery(d[1]) /\ message[d[2]] = "created"))'
      BY PairsAre, PTL
    <2>2. /\ d \in Matching(Tokens, Tokens) /\ d[1] \in Tokens /\ d[2] \in Tokens
          /\ AwaitsDelivery(d[1])' /\ message'[d[2]] = "created"
      BY <1>2, <1>3, <2>1 DEF Advances, Matching
    <2>3. AwaitsDelivery(d[1]) /\ message[d[2]] = "created"
      BY <1>1, <2>2 DEF NothingNew, AwaitsDelivery, Kind
    <2> QED
      BY <2>2, <2>3, PairsAre
  <1>4. CASE c = Deliveries
    BY <1>3, <1>4 DEF Possible
  <1>5. CASE c # Deliveries
    <2>1. \A t : CacheOf(t)' = CacheOf(t)
      BY <1>1 DEF CacheOf, Node
    <2>2. ASSUME NEW d \in Possible(c)' PROVE d \in Possible(c)
      <3>1. PICK t \in Tokens : d = <<t, None>> /\ CacheOf(t) = c /\ at'[t] = "ready"
        BY <1>2, <1>5, <2>1, <2>2 DEF Possible, EntriesOf, AwaitsEntry
      <3>2. at[t] = "ready"
        BY <3>1 DEF NothingNew
      <3> QED
        BY <1>5, <3>1, <3>2 DEF Possible, EntriesOf, AwaitsEntry
    <2> QED
      BY <1>3, <2>2
  <1> QED
    BY <1>4, <1>5

\* A round evaluates some decisions and drops those that cannot be made any more.
LEMMA EvaluateExact ==
  ASSUME NEW caches \in SUBSET Caches, NEW entries, Evaluate(caches, entries),
         NEW c \in Caches, CacheExact(c)
  PROVE  /\ pending'[c] \cup DOMAIN evaluation'[c] \subseteq pending[c] \cup DOMAIN evaluation[c]
         /\ \A d \in pending[c] \cup DOMAIN evaluation[c] :
              Alive(d) => d \in pending'[c] \cup DOMAIN evaluation'[c]
         /\ pending'[c] \cap DOMAIN evaluation'[c] = {}
  <1> DEFINE evaluated == IF c = Entries THEN entries ELSE ToEvaluate(c)
  <1>1. evaluated \subseteq ToEvaluate(c)
    BY DEF Evaluate
  <1>2. pending[c] \cap DOMAIN evaluation[c] = {}
    BY DEF CacheExact
  <1>3. CASE c \in caches
    <2>1. /\ pending'[c] = ToEvaluate(c) \ evaluated
          /\ DOMAIN evaluation'[c] = Kept(c) \cup evaluated
      BY <1>3 DEF Evaluate, Evaluated
    <2>2. Ticked(c) \subseteq DOMAIN evaluation[c]
      BY DEF Ticked, TimeDependent
    <2> HIDE DEF evaluated
    <2> QED
      BY <1>1, <1>2, <2>1, <2>2 DEF Kept, ToEvaluate
  <1>4. CASE c \notin caches
    <2>1. pending'[c] = pending[c] /\ evaluation'[c] = evaluation[c]
      BY <1>4 DEF Evaluate
    <2> QED
      BY <1>2, <2>1
  <1> QED
    BY <1>3, <1>4

LEMMA RoundCache ==
  ASSUME Lifecycle, Advances, NothingNew, NEW c \in Caches, CacheExact(c),
         NEW caches \in SUBSET Caches, NEW entries, Evaluate(caches, entries)
  PROVE  CacheExact(c)'
  <1>1. /\ pending[c] \cup DOMAIN evaluation[c] \subseteq Past(c)
        /\ Possible(c) \subseteq pending[c] \cup DOMAIN evaluation[c]
    BY DEF CacheExact
  <1>2. /\ pending'[c] \cup DOMAIN evaluation'[c] \subseteq pending[c] \cup DOMAIN evaluation[c]
        /\ \A d \in pending[c] \cup DOMAIN evaluation[c] :
             Alive(d) => d \in pending'[c] \cup DOMAIN evaluation'[c]
        /\ pending'[c] \cap DOMAIN evaluation'[c] = {}
    BY EvaluateExact
  <1>3. Past(c) \subseteq Past(c)'
    BY PastStays
  <1>4. ASSUME NEW d \in Possible(c)'
        PROVE  d \in pending'[c] \cup DOMAIN evaluation'[c]
    <2>1. d \in Possible(c) /\ d \in Past(c)
      BY <1>1, <1>4, NothingPossible
    <2>2. Alive(d)
      BY <2>1, PossibleAlive
    <2> QED
      BY <1>1, <1>2, <2>1, <2>2
  <1> QED
    BY <1>1, <1>2, <1>3, <1>4 DEF CacheExact

\* The collectors are told of nothing but the end of requests and messages.
LEMMA RoundGathers ==
  ASSUME Lifecycle, Advances, NothingNew, HeardAll, DirectExact, AfterRound
  PROVE  HeardAll' /\ DirectExact'
  <1>1. model' = model /\ Tokens' = Tokens
    BY DEF NothingNew, Tokens
  <1>2. HeardAll'
    <2>1. ASSUME NEW k \in Collectors
          PROVE  heard'[k].requests = Requested' /\ heard'[k].messages = Pool'
      <3>1. /\ heard'[k].requests = {r \in Requested : AwaitsDelivery(r)'}
            /\ heard'[k].messages = Pool \cap Pool'
        BY DEF AfterRound, HeardAll
      <3>2. Pool' \subseteq Pool
        BY <1>1 DEF Pool, NothingNew
      <3>3. \A r \in Tokens : AwaitsDelivery(r)' => AwaitsDelivery(r)
        BY <1>1 DEF AwaitsDelivery, NothingNew, Kind
      <3> QED
        BY <1>1, <3>1, <3>2, <3>3 DEF Requested
    <2> QED
      BY <2>1 DEF HeardAll
  <1>3. \A d : (Recipient(d[2]) # None \/ model.address[d[1]] # None)'
               = (Recipient(d[2]) # None \/ model.address[d[1]] # None)
    BY <1>1 DEF Recipient
  <1>4. direct' = {d \in direct : Alive(d)'}
    BY DEF AfterRound
  <1>5. Deliveries \in Caches
    BY DEF Caches
  <1>6. PastPairs \subseteq PastPairs' /\ Pairs' \subseteq Pairs
    BY <1>5, PastStays, NothingPossible
  <1>7. ASSUME NEW d \in Directed(Pairs)' PROVE d \in direct'
    <2>1. d \in Pairs' /\ d \in Directed(Pairs)
      BY <1>3, <1>6, <1>7 DEF Directed
    <2>2. (Lifecycle => (d \in PastPairs => (d \in Pairs <=> Alive(d))))'
      BY PairsAlive, PTL
    <2>3. (Lifecycle => Pairs \subseteq PastPairs)'
      BY PairsPast, PTL
    <2> QED
      BY <1>4, <2>1, <2>2, <2>3 DEF Advances, DirectExact
  <1>8. ASSUME NEW d \in direct' PROVE d \in Directed(PastPairs)'
    <2>1. d \in Directed(PastPairs)
      BY <1>4, <1>8 DEF DirectExact
    <2> QED
      BY <1>3, <1>6, <2>1 DEF Directed
  <1> QED
    BY <1>2, <1>7, <1>8 DEF DirectExact

\* A round of the controller keeps what it has gathered exact.
LEMMA DispatchGathers ==
  ASSUME Lifecycle, Gathered, Dispatch
  PROVE  Gathered'
  <1> PICK entries \in SUBSET ToEvaluate(Entries) :
         DispatchEntry(entries) \/ DispatchDirect(entries)
           \/ DispatchChoice(entries) \/ DispatchBest(entries)
    BY DEF Dispatch
  <1>1. Advances /\ NothingNew
    BY DispatchEnds
  <1>2. PICK caches \in SUBSET Caches : Evaluate(caches, entries)
    <2>1. {Entries} \in SUBSET Caches /\ Caches \in SUBSET Caches
      BY DEF Caches
    <2> QED
      BY <2>1 DEF DispatchEntry, DispatchDirect, DispatchChoice, DispatchBest
  <1>3. AfterRound
    BY DEF DispatchEntry, DispatchDirect, DispatchChoice, DispatchBest
  <1>4. HeardAll' /\ DirectExact'
    BY <1>1, <1>3, RoundGathers DEF Gathered
  <1>5. ASSUME NEW c \in Caches PROVE CacheExact(c)'
    BY <1>1, <1>2, RoundCache DEF Gathered
  <1> QED
    BY <1>4, <1>5 DEF Gathered

\* The steps of the engine, of which the controller is told.
LEMMA EngineTells ==
  ASSUME Engine
  PROVE  (\E update : Told(update)) /\ aborted' = aborted
  <1>1. CASE Starts
    BY <1>1 DEF Starts, StartInstance, StartPart, EndMachine
  <1>2. CASE Interrupts
    BY <1>2 DEF Interrupts, Interrupt
  <1>3. CASE Arrives
    BY <1>3 DEF Arrives, Arrive
  <1>4. CASE Sends
    BY <1>4 DEF Sends, Throw
  <1>5. CASE TaskDone
    BY <1>5 DEF TaskDone, CompleteEvent
  <1>6. CASE Enters
    BY <1>6 DEF Enters, EnterCommand
  <1>7. CASE Completes
    BY <1>7 DEF Completes, CompleteCommand
  <1>8. CASE OtherCommands
    BY <1>8 DEF OtherCommands, Skip, TriggerCommandRun
  <1> QED
    BY <1>1, <1>2, <1>3, <1>4, <1>5, <1>6, <1>7, <1>8 DEF Engine, Commanded

LEMMA EngineGathers ==
  ASSUME Lifecycle, Gathered, Engine
  PROVE  Gathered'
  <1>1. Advances
    BY EngineAdvances
  <1>2. PICK update : Told(update)
    BY EngineTells
  <1>3. ASSUME NEW c \in Caches PROVE CacheExact(c)'
    BY <1>1, <1>2, ToldCache DEF Gathered
  <1>4. HeardAll' /\ DirectExact'
    BY <1>1, <1>2, ToldHeard, ToldDirect DEF Gathered
  <1> QED
    BY <1>3, <1>4 DEF Gathered

\* The clock ticks when there is nothing to decide.
LEMMA TickGathers ==
  ASSUME Lifecycle, Gathered, NEW entries, Tick(entries)
  PROVE  Gathered'
  <1>1. /\ model' = model /\ at' = at /\ message' = message
        /\ heard' = heard /\ direct' = direct
        /\ Evaluate(Caches, entries)
    BY DEF Tick, exchangeVars
  <1>2. Advances /\ NothingNew
    BY <1>1, StayingAdvances DEF NothingNew
  <1>3. ASSUME NEW c \in Caches PROVE CacheExact(c)'
    BY <1>1, <1>2, RoundCache DEF Gathered
  <1>4. Tokens' = Tokens /\ Pool' = Pool /\ Requested' = Requested
    BY <1>1 DEF Tokens, Pool, Requested, AwaitsDelivery, Kind
  <1>5. HeardAll'
    BY <1>1, <1>4 DEF Gathered, HeardAll
  <1>6. DirectExact'
    BY <1>1 DEF Gathered, DirectExact, Directed, PastPairs, Pairs, Matching, Tokens, Candidate,
         Matches, Recipient, Pool, AwaitsDelivery, Kind
  <1> QED
    BY <1>3, <1>5, <1>6 DEF Gathered

\* A controller that is given a state reads it from scratch.
LEMMA InstallGathers ==
  ASSUME Lifecycle, InstallState, ~aborted'
  PROVE  Gathered'
  <1>1. model' = model /\ at' = at /\ message' = message /\ ToldInstalled
    BY DEF InstallState, Install
  <1>2. Tokens' = Tokens /\ Pool' = Pool /\ Requested' = Requested /\ Pairs' = Pairs
    BY <1>1 DEF Tokens, Pool, Requested, AwaitsDelivery, Kind, Pairs, Matching, Candidate,
         Matches, Recipient
  <1>3. Directed(Pairs)' = Directed(Pairs)
    BY <1>1, <1>2 DEF Directed, Recipient
  <1>4. Directed(PastPairs)' = Directed(PastPairs)
    BY <1>1 DEF Directed, Recipient, PastPairs, Matching, Tokens, Candidate, Matches
  <1>5. HeardAll'
    BY <1>1, <1>2 DEF ToldInstalled, HeardAll, Requested
  <1>6. DirectExact'
    <2>1. direct' = Directed(Pairs)
      BY <1>1 DEF ToldInstalled, Pairs
    <2>2. Directed(Pairs) \subseteq Directed(PastPairs)
      BY PairsPast DEF Directed
    <2> QED
      BY <1>3, <1>4, <2>1, <2>2 DEF DirectExact
  <1>7. ASSUME NEW c \in Caches PROVE CacheExact(c)'
    <2>1. \A t : CacheOf(t)' = CacheOf(t)
      BY <1>1 DEF CacheOf, Node
    <2>2. Possible(c)' = Possible(c) /\ Past(c)' = Past(c)
      BY <1>1, <1>2, <2>1 DEF Possible, Past, EntriesOf, PastPairs, Matching, Candidate, Matches,
         Recipient, AwaitsEntry
    <2>3. pending'[c] = Possible(c)
      BY <1>1 DEF ToldInstalled, Possible, Pairs, EntriesOf
    <2>4. DOMAIN evaluation'[c] = {}
      BY <1>1 DEF ToldInstalled
    <2> QED
      BY <2>2, <2>3, <2>4, PossiblePast DEF CacheExact
  <1> QED
    BY <1>5, <1>6, <1>7 DEF Gathered

LEMMA InitGathers == Init => Gathered
  <1> SUFFICES ASSUME Init PROVE Gathered
    OBVIOUS
  <1>1. /\ \A t \in Tokens : at[t] = "created" /\ message[t] = "none"
        /\ \A k \in Collectors : heard[k].requests = {} /\ heard[k].messages = {}
        /\ direct = {}
        /\ \A c \in Caches : pending[c] = {} /\ DOMAIN evaluation[c] = {}
    BY DEF Init, ExchangeInit
  <1>2. Requested = {} /\ Pool = {}
    BY <1>1 DEF Requested, AwaitsDelivery, Pool
  <1>3. Pairs = {}
    BY <1>2 DEF Pairs, Matching
  <1>4. \A c \in Caches : Possible(c) = {}
    BY <1>1, <1>3 DEF Possible, EntriesOf, AwaitsEntry
  <1> QED
    BY <1>1, <1>2, <1>3, <1>4 DEF Gathered, HeardAll, DirectExact, Directed, CacheExact

LEMMA GatheredKept == Lifecycle /\ (~aborted => Gathered) /\ [Next]_vars => (~aborted => Gathered)'
  <1> SUFFICES ASSUME Lifecycle, ~aborted => Gathered, [Next]_vars, ~aborted'
               PROVE  Gathered'
    OBVIOUS
  <1>1. CASE Engine
    BY <1>1, EngineTells, EngineGathers
  <1>2. CASE Dispatch
    <2>1. aborted' = aborted
      BY <1>2 DEF Dispatch, DispatchEntry, DispatchDirect, DispatchChoice, DispatchBest,
           EnterEvent, CompleteEvent, Deliver
    <2> QED
      BY <1>2, <2>1, DispatchGathers
  <1>3. CASE \E entries \in SUBSET ToEvaluate(Entries) : Tick(entries)
    BY <1>3, TickGathers DEF Tick, Settled
  <1>4. CASE InstallState
    BY <1>4, InstallGathers
  <1>5. CASE UNCHANGED vars
    BY <1>5 DEF vars, exchangeVars, controllerVars, Gathered, HeardAll, DirectExact, CacheExact,
       Requested, Pool, Tokens, AwaitsDelivery, Kind, Directed, PastPairs, Pairs, Matching,
       Candidate, Matches, Recipient, Past, Possible, EntriesOf, AwaitsEntry, CacheOf, Node
  <1> QED
    BY <1>1, <1>2, <1>3, <1>4, <1>5 DEF Next, Engine

\* What is gathered is exact: of the decisions a cache holds those alive are
\* those possible.
LEMMA GatheredExact == Lifecycle /\ (~aborted => Gathered) => CandidatesExact
  <1> SUFFICES ASSUME Lifecycle, Gathered PROVE
        /\ Cached(Deliveries) = Pairs
        /\ {d \in direct : Alive(d)} = Directed(Pairs)
        /\ \A c \in {Entries, Sequential} :
             Cached(c) = {<<t, None>> : t \in {u \in Tokens : AwaitsEntry(u) /\ CacheOf(u) = c}}
        /\ \A c \in Caches : \A d \in pending[c] \cap DOMAIN evaluation[c] : ~Alive(d)
    BY DEF CandidatesExact
  <1>1. ASSUME NEW c \in Caches PROVE Cached(c) = Possible(c)
    <2>1. CacheExact(c)
      BY DEF Gathered
    <2> QED
      BY <2>1, PossibleAlive DEF CacheExact, Cached
  <1>2. Deliveries \in Caches /\ {Entries, Sequential} \subseteq Caches \ {Deliveries}
    BY DEF Caches, Entries, Sequential, Deliveries
  <1>3. {d \in direct : Alive(d)} = Directed(Pairs)
    <2>1. direct \subseteq Directed(PastPairs) /\ Directed(Pairs) \subseteq direct
      BY DEF Gathered, DirectExact
    <2> QED
      BY <2>1, PairsAlive, PairsPast DEF Directed
  <1>4. Cached(Deliveries) = Pairs
    BY <1>1, <1>2 DEF Possible
  <1>5. \A c \in {Entries, Sequential} :
          Cached(c) = {<<t, None>> : t \in {u \in Tokens : AwaitsEntry(u) /\ CacheOf(u) = c}}
    BY <1>1, <1>2 DEF Possible, EntriesOf
  <1>6. \A c \in Caches : pending[c] \cap DOMAIN evaluation[c] = {}
    BY DEF Gathered, CacheExact
  <1> QED
    BY <1>3, <1>4, <1>5, <1>6

\* The controller holds exactly the decisions that can be made, and each once,
\* in whatever order tokens, messages and notices come, rounds are held and the
\* state is installed in another engine.
THEOREM GatheredExactly == Spec => []CandidatesExact
  <1>1. Init => (~aborted => Gathered)
    BY InitGathers
  <1> QED
    BY <1>1, InitLifecycle, LifecycleKept, GatheredKept, GatheredExact, PTL DEF Spec

-----------------------------------------------------------------------------
(* The evaluations *)

\* An evaluation is based on the present value of each attribute it is known to
\* depend on, and on the time of the last tick its cache has seen.
FreshAt(c, d) ==
  \A a \in Dependencies(d) :
    /\ a # "time" /\ Place(d[1], a) \notin silent =>
         evaluation[c][d][a] = data[Place(d[1], a)]
    /\ a = "time" /\ c # Deliveries /\ installs = 0 =>
         evaluation[c][d][a] = timestamp[c]

Clocks ==
  /\ time \in Nat
  /\ installs \in Nat
  /\ timestamp \in [Caches -> Int]
  /\ installs = 0 => \A c \in Caches : timestamp[c] <= time

Fresh == Clocks /\ \A c \in Caches : \A d \in DOMAIN evaluation[c] : FreshAt(c, d)

\* What an evaluation is known to depend on it reads, and is declared.
LEMMA DependenciesRead ==
  ASSUME NEW d
  PROVE  Dependencies(d) \subseteq ReadBy(d)
  <1>1. ASSUME NEW t, NEW what, NEW more, what \subseteq more
        PROVE  Reads(t, what) \subseteq Reads(t, more)
    BY <1>1 DEF Reads
  <1>2. CASE d[2] # None /\ Kind(d[1]) = "catch"
    <2>1. Reads(d[1], {"operators", "deliveryGuidance"}) \subseteq ReadByDelivery(d[1])
      BY <1>1 DEF ReadByDelivery
    <2> QED
      BY <1>2, <2>1 DEF Dependencies, ReadBy
  <1>3. CASE ~(d[2] # None /\ Kind(d[1]) = "catch")
    BY <1>3 DEF Dependencies
  <1> QED
    BY <1>2, <1>3

LEMMA DependencyPlaced ==
  ASSUME Lifecycle, NEW d, d[1] \in Tokens, NEW a \in Dependencies(d), a # "time"
  PROVE  Place(d[1], a) \in AllPlaces(model)
  <1>1. ASSUME NEW what, a \in Reads(d[1], what) PROVE a \in model.attributes
    <2>1. PICK w \in DOMAIN model.reads[model.node[d[1]]] : a \in model.reads[model.node[d[1]]][w]
      BY <1>1 DEF Reads, Node
    <2> QED
      BY <2>1, AttributesAssumption DEF Lifecycle, Tokens
  <1>2. \E what : a \in Reads(d[1], what)
    BY DEF Dependencies, ReadBy, ReadByEntry, ReadByDelivery
  <1>3. a \in model.attributes
    BY <1>1, <1>2
  <1> QED
    BY <1>3, PlaceExists DEF Lifecycle

\* What is read and where it is depends on the collaboration only.
LEMMA SameReads ==
  ASSUME model' = model, NEW d
  PROVE  /\ Dependencies(d)' = Dependencies(d)
         /\ \A a : Place(d[1], a)' = Place(d[1], a)
  BY DEF Dependencies, ReadBy, ReadByEntry, ReadByDelivery, Reads, Kind, Node, Place, Root

\* Decisions are about tokens.
LEMMA CachedTokens ==
  ASSUME Gathered, NEW c \in Caches, NEW d \in pending[c] \cup DOMAIN evaluation[c]
  PROVE  d[1] \in Tokens
  <1>1. d \in Past(c)
    BY DEF Gathered, CacheExact
  <1>2. CASE c = Deliveries
    BY <1>1, <1>2 DEF Past, PastPairs, Matching
  <1>3. CASE c # Deliveries
    BY <1>1, <1>3 DEF Past, EntriesOf
  <1> QED
    BY <1>2, <1>3

\* The caches are told of every write but the silent ones.
Announces(update) ==
  /\ Told(update)
  /\ UNCHANGED <<model, time, installs>>
  /\ silent \ update \subseteq silent'
  /\ \A p \in DOMAIN data \ update : data'[p] = data[p]

LEMMA EngineAnnounces ==
  ASSUME Lifecycle, Conditions, Engine
  PROVE  \E update : Announces(update)
  <1>1. model' = model
    BY EngineAdvances DEF Advances, Onwards
  <1>2. ASSUME Told({}), UNCHANGED <<time, data, silent, installs>>
        PROVE  Announces({})
    BY <1>1, <1>2 DEF Announces
  <1>3. ASSUME NEW t \in Tokens, NEW values \in Written(t), Applies(t, values), Told(Announced(t))
        PROVE  Announces(Announced(t))
    <2>1. /\ data' = values /\ silent' = silent \ Announced(t)
          /\ UNCHANGED <<time, installs>>
      BY <1>3 DEF Applies
    <2>2. \A p \in DOMAIN data : p \notin Places(t, model.writes[Node(t)]) => values[p] = data[p]
      BY DEF Written
    <2>3. Places(t, model.writes[Node(t)]) \subseteq Announced(t)
      BY DEF Announced, Places
    <2> QED
      BY <1>1, <1>3, <2>1, <2>2, <2>3 DEF Announces
  <1>4. CASE Starts \/ Interrupts \/ Arrives \/ TaskDone \/ OtherCommands
    BY <1>2, <1>4 DEF Starts, Interrupts, Arrives, TaskDone, OtherCommands, KeepsData, dataVars
  <1>5. CASE Sends
    BY <1>3, <1>5 DEF Sends
  <1>6. CASE Enters
    BY <1>2, <1>3, <1>6 DEF Enters, KeepsData, dataVars
  <1>7. CASE Completes
    BY <1>2, <1>3, <1>7 DEF Completes, KeepsData, dataVars
  <1> QED
    BY <1>4, <1>5, <1>6, <1>7 DEF Engine, Commanded

\* An evaluation that survives an announcement does not depend on what it says.
LEMMA EngineFresh ==
  ASSUME Lifecycle, Conditions, Gathered, Fresh, Engine
  PROVE  Fresh'
  <1> PICK update : Announces(update)
    BY EngineAnnounces
  <1>1. /\ model' = model /\ time' = time /\ installs' = installs /\ timestamp' = timestamp
        /\ silent \ update \subseteq silent'
        /\ \A p \in DOMAIN data \ update : data'[p] = data[p]
    BY DEF Announces, Told
  <1>2. Clocks'
    BY <1>1 DEF Fresh, Clocks
  <1>3. ASSUME NEW c \in Caches, NEW d \in DOMAIN evaluation'[c]
        PROVE  FreshAt(c, d)'
    <2>1. /\ d \in DOMAIN evaluation[c] \ Obsolete(c, update)
          /\ evaluation'[c][d] = evaluation[c][d]
      BY <1>3 DEF Announces, Told
    <2>2. d[1] \in Tokens
      BY <2>1, CachedTokens
    <2>3. FreshAt(c, d)
      BY <2>1 DEF Fresh
    <2>4. Dependencies(d)' = Dependencies(d) /\ \A a : Place(d[1], a)' = Place(d[1], a)
      BY <1>1, SameReads
    <2>5. ASSUME NEW a \in Dependencies(d), a # "time", Place(d[1], a) \notin silent'
          PROVE  evaluation'[c][d][a] = data'[Place(d[1], a)]
      <3> DEFINE p == Place(d[1], a)
      <3>1. p \notin update
        <4>1. p \in Places(d[1], Dependencies(d) \ {"time"})
          BY <2>5 DEF Places
        <4> QED
          BY <2>1, <4>1 DEF Obsolete
      <3>2. p \in DOMAIN data
        BY <2>2, <2>5, DependencyPlaced DEF Conditions, Waits
      <3>3. evaluation[c][d][a] = data[p]
        BY <1>1, <2>3, <2>5, <3>1 DEF FreshAt
      <3> HIDE DEF p
      <3> QED
        BY <1>1, <2>1, <3>1, <3>2, <3>3 DEF p
    <2>6. ASSUME NEW a \in Dependencies(d), a = "time", c # Deliveries, installs = 0
          PROVE  evaluation'[c][d][a] = timestamp'[c]
      BY <1>1, <2>1, <2>3, <2>6 DEF FreshAt
    <2> QED
      BY <1>1, <2>4, <2>5, <2>6 DEF FreshAt
  <1> QED
    BY <1>2, <1>3 DEF Fresh

\* A step that evaluates, and writes silently at most.
LEMMA EvaluateFresh ==
  ASSUME Lifecycle, Conditions, Gathered, Fresh,
         NEW caches \in SUBSET Caches, NEW entries, Evaluate(caches, entries),
         model' = model, installs' = installs, time' \in {time, time + 1},
         silent \subseteq silent',
         \A p \in DOMAIN data : p \notin silent' => data'[p] = data[p]
  PROVE  Fresh'
  <1> DEFINE evaluated(c) == IF c = Entries THEN entries ELSE ToEvaluate(c)
  <1>1. Clocks
    BY DEF Fresh
  <1>2. timestamp' = [c \in Caches |->
          IF c \in caches \ {Deliveries} /\ time > timestamp[c] THEN time ELSE timestamp[c]]
    BY DEF Evaluate
  <1>3. Clocks'
    BY <1>1, <1>2 DEF Clocks
  <1>4. ASSUME NEW c \in Caches PROVE evaluated(c) \subseteq ToEvaluate(c)
    BY DEF Evaluate
  <1>5. ASSUME NEW c \in Caches, NEW d \in DOMAIN evaluation'[c]
        PROVE  FreshAt(c, d)'
    <2>1. evaluation'[c] = IF c \in caches THEN Evaluated(c, evaluated(c)) ELSE evaluation[c]
      BY DEF Evaluate
    <2> HIDE DEF evaluated
    <2>2. \/ c \in caches /\ d \in evaluated(c) /\ evaluation'[c][d] = Basis(d)
          \/ /\ d \in DOMAIN evaluation[c] /\ evaluation'[c][d] = evaluation[c][d]
             /\ c \in caches => d \in Kept(c)
      BY <1>5, <2>1 DEF Evaluated, Kept
    <2>3. d \in pending[c] \cup DOMAIN evaluation[c]
      BY <1>4, <2>2 DEF ToEvaluate, Ticked, TimeDependent
    <2>4. d[1] \in Tokens
      BY <2>3, CachedTokens
    <2>5. Dependencies(d)' = Dependencies(d) /\ \A a : Place(d[1], a)' = Place(d[1], a)
      BY SameReads
    <2>6. ASSUME NEW a \in Dependencies(d), a # "time", Place(d[1], a) \notin silent'
          PROVE  evaluation'[c][d][a] = data'[Place(d[1], a)]
      <3>1. Place(d[1], a) \in DOMAIN data
        BY <2>4, <2>6, DependencyPlaced DEF Conditions, Waits
      <3>2. data'[Place(d[1], a)] = data[Place(d[1], a)]
        BY <2>6, <3>1
      <3>3. CASE evaluation'[c][d] = Basis(d)
        BY <2>6, <3>2, <3>3, DependenciesRead DEF Basis, Value
      <3>4. CASE d \in DOMAIN evaluation[c] /\ evaluation'[c][d] = evaluation[c][d]
        BY <2>6, <3>2, <3>4 DEF Fresh, FreshAt
      <3> QED
        BY <2>2, <3>3, <3>4
    <2>7. ASSUME NEW a \in Dependencies(d), a = "time", c # Deliveries, installs = 0
          PROVE  evaluation'[c][d][a] = timestamp'[c]
      <3>1. timestamp[c] <= time /\ time \in Nat /\ timestamp[c] \in Int
        BY <1>1, <2>7 DEF Clocks
      <3>2. CASE c \in caches /\ evaluation'[c][d] = Basis(d)
        <4>1. timestamp'[c] = time
          BY <1>2, <2>7, <3>1, <3>2
        <4>2. evaluation'[c][d][a] = time
          BY <2>7, <3>2, DependenciesRead DEF Basis, Value
        <4> QED
          BY <4>1, <4>2
      <3>3. CASE /\ d \in DOMAIN evaluation[c] /\ evaluation'[c][d] = evaluation[c][d]
                 /\ c \in caches => d \in Kept(c)
        <4>1. evaluation[c][d][a] = timestamp[c]
          BY <2>7, <3>3 DEF Fresh, FreshAt
        <4>2. c \in caches => ~(time > timestamp[c])
          BY <2>7, <3>3 DEF Kept, Ticked, TimeDependent
        <4> QED
          BY <1>2, <3>3, <4>1, <4>2
      <3> QED
        BY <2>2, <3>2, <3>3
    <2> QED
      BY <2>5, <2>6, <2>7 DEF FreshAt
  <1> QED
    BY <1>3, <1>5 DEF Fresh

LEMMA DispatchFresh ==
  ASSUME Lifecycle, Conditions, Gathered, Fresh, Dispatch
  PROVE  Fresh'
  <1> PICK entries \in SUBSET ToEvaluate(Entries) :
         DispatchEntry(entries) \/ DispatchDirect(entries)
           \/ DispatchChoice(entries) \/ DispatchBest(entries)
    BY DEF Dispatch
  <1>1. PICK caches \in SUBSET Caches : Evaluate(caches, entries)
    <2>1. {Entries} \in SUBSET Caches /\ Caches \in SUBSET Caches
      BY DEF Caches
    <2> QED
      BY <2>1 DEF DispatchEntry, DispatchDirect, DispatchChoice, DispatchBest
  <1>2. model' = model
    BY DispatchEnds DEF Advances, Onwards
  <1>3. /\ time' = time /\ installs' = installs /\ silent \subseteq silent'
        /\ \A p \in DOMAIN data : p \notin silent' => data'[p] = data[p]
    <2>1. CASE DispatchEntry(entries) \/ DispatchDirect(entries) \/ DispatchBest(entries)
      BY <2>1 DEF DispatchEntry, DispatchDirect, DispatchBest, KeepsData, dataVars
    <2>2. CASE DispatchChoice(entries)
      <3>1. PICK place, v : data' = [data EXCEPT ![place] = v] /\ silent' = silent \cup {place}
        BY <2>2 DEF DispatchChoice
      <3> QED
        BY <2>2, <3>1 DEF DispatchChoice
    <2> QED
      BY <2>1, <2>2
  <1> QED
    BY <1>1, <1>2, <1>3, EvaluateFresh

LEMMA TickFresh ==
  ASSUME Lifecycle, Conditions, Gathered, Fresh, NEW entries, Tick(entries)
  PROVE  Fresh'
  <1>1. /\ model' = model /\ installs' = installs /\ data' = data /\ silent' = silent
        /\ time' = time + 1 /\ Evaluate(Caches, entries)
    BY DEF Tick, exchangeVars
  <1>2. Caches \in SUBSET Caches
    OBVIOUS
  <1> QED
    BY <1>1, <1>2, EvaluateFresh

LEMMA InstallFresh ==
  ASSUME Clocks, InstallState, ~aborted'
  PROVE  Fresh'
  <1>1. /\ installs' = installs + 1 /\ time' = time
        /\ \A c \in Caches : DOMAIN evaluation'[c] = {}
        /\ \E u \in {-1, MaxTime} : timestamp' = [c \in Caches |-> u]
    BY DEF InstallState, ToldInstalled, dataVars
  <1>2. Clocks'
    BY <1>1, BoundsAssumption DEF Clocks
  <1> QED
    BY <1>1, <1>2 DEF Fresh

LEMMA InitFresh == Init => Fresh
  BY DEF Init, Fresh, Clocks, Caches

LEMMA FreshKept ==
  Lifecycle /\ Conditions /\ (~aborted => Gathered /\ Fresh) /\ [Next]_vars
    => (~aborted => Fresh)'
  <1> SUFFICES ASSUME Lifecycle, Conditions, ~aborted => Gathered /\ Fresh, [Next]_vars, ~aborted'
               PROVE  Fresh'
    OBVIOUS
  <1>1. CASE Engine
    BY <1>1, EngineTells, EngineFresh
  <1>2. CASE Dispatch
    <2>1. aborted' = aborted
      BY <1>2 DEF Dispatch, DispatchEntry, DispatchDirect, DispatchChoice, DispatchBest,
           EnterEvent, CompleteEvent, Deliver
    <2> QED
      BY <1>2, <2>1, DispatchFresh
  <1>3. CASE \E entries \in SUBSET ToEvaluate(Entries) : Tick(entries)
    BY <1>3, TickFresh DEF Tick, Settled
  <1>4. CASE InstallState
    BY <1>4, InstallFresh DEF InstallState, Install, Settled, Fresh
  <1>5. CASE UNCHANGED vars
    <2>1. /\ UNCHANGED <<model, time, installs, timestamp, evaluation, data, silent>>
          /\ Fresh
      BY <1>5 DEF vars, exchangeVars, controllerVars, dataVars
    <2>2. Clocks'
      BY <2>1 DEF Fresh, Clocks
    <2>3. ASSUME NEW c \in Caches, NEW d \in DOMAIN evaluation[c] PROVE FreshAt(c, d)'
      <3>1. Dependencies(d)' = Dependencies(d) /\ \A a : Place(d[1], a)' = Place(d[1], a)
        BY <2>1, SameReads
      <3> QED
        BY <2>1, <3>1 DEF Fresh, FreshAt
    <2> QED
      BY <2>1, <2>2, <2>3 DEF Fresh
  <1> QED
    BY <1>1, <1>2, <1>3, <1>4, <1>5 DEF Next, Engine

\* An evaluation that is kept for the next round is of the present, but for what
\* it is not told of.
LEMMA FreshEnough == (~aborted => Fresh) => EvaluationsFresh
  <1> SUFFICES ASSUME Fresh, NEW c \in Caches, NEW d \in Kept(c),
                      NEW a \in ReadBy(d) \ Unnoticed(c, d)
               PROVE  evaluation[c][d][a] = Value(d[1], a)
    BY DEF EvaluationsFresh, Settled
  <1>1. /\ a \in Dependencies(d)
        /\ a = "time" => c # Deliveries /\ (installs > 0 => ~(time <= timestamp[c]))
        /\ a # "time" => Place(d[1], a) \notin silent
    BY DEF Unnoticed
  <1>2. d \in DOMAIN evaluation[c] \ Ticked(c) /\ Alive(d) /\ FreshAt(c, d)
    BY DEF Kept, Fresh
  <1>3. CASE a # "time"
    BY <1>1, <1>2, <1>3 DEF FreshAt, Value
  <1>4. CASE a = "time"
    <2>1. ~(time > timestamp[c])
      BY <1>1, <1>2, <1>4 DEF Ticked, TimeDependent
    <2>2. installs = 0 /\ timestamp[c] = time
      BY <1>1, <1>4, <2>1 DEF Fresh, Clocks
    <2> QED
      BY <1>1, <1>2, <1>4, <2>2 DEF FreshAt, Value
  <1> QED
    BY <1>3, <1>4

\* An evaluation the controller compares is that of the present: every write and
\* every tick of the clock reaches the caches it matters to, except what they
\* are, by construction, not told of.
THEOREM ComparesThePresent == Spec => []EvaluationsFresh
  <1>1. Init => (~aborted => Gathered)
    BY InitGathers
  <1>2. Init => (~aborted => Fresh)
    BY InitFresh
  <1>3. Lifecycle /\ Conditions /\ (~aborted => Gathered) /\ (~aborted => Fresh) /\ [Next]_vars
          => (~aborted => Fresh)'
    BY FreshKept
  <1> QED
    BY <1>1, <1>2, <1>3, InitLifecycle, InitConditions, LifecycleKept, ConditionsKept, GatheredKept,
       FreshEnough, PTL DEF Spec
=============================================================================
