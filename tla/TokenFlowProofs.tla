--------------------------- MODULE TokenFlowProofs ---------------------------
(***************************************************************************)
(* What is proved of the flow of tokens, for any model, any number of      *)
(* tokens and any times.                                                   *)
(***************************************************************************)
EXTENDS TokenFlow, FiniteSetTheorems, SequenceTheorems, IterationTheorems

\* The commands queued, and the order they are in.
Queued == Range(commands)
Ahead(c, d) == Before(commands, c, d)

\* The commands that advance a token, of which a token has one at a time, and
\* those by which it fails.
Moving ==
  {"advanceToReady", "advanceToEntered", "advanceToBusy", "run", "advanceToCompleted",
   "advanceFromCompleted", "advanceToDone", "advanceToDeparting", "advanceToDeparted",
   "advanceToArrived", "handleDivergingGateway"}
Main == Moving \union {"shutdown"}
Failing == {"advanceToFailed", "terminate", "updateFailed", "handleFailure"}

IsFlow(f) == \E n \in Nodes : \E k \in FlowsFrom(model, n) : f = <<n, k>>

\* No command advances the token.
Unmoved(t) == \A c \in Queued : c.name \in Main => c.for # t

\* A token is younger than the one owning its scope and the one it is linked to.
TokenShaped(t) ==
  /\ tokens[t] \in [node : Nodes, state : States, owner : 0..created, link : 0..created,
                    flow : {<<>>} \union (Nodes \X Nodes), owned : BOOLEAN]
  /\ tokens[t].owner < t /\ tokens[t].link < t
  /\ Kind(t) = "process" => tokens[t].owner = None
  /\ tokens[t].owned => Kind(t) \in Scopes
  /\ State(t) = "READY" /\ Kind(t) \in Scopes => tokens[t].owned
  /\ tokens[t].link \in Live => Kind(tokens[t].link) # "process"

Typed ==
  /\ model \in Models /\ now \in 0..MaxTime /\ signals \in 0..MaxSignals
  /\ trigger \in [TimerNodes(model) -> 0..MaxTime]
  /\ created \in Ids /\ Live \subseteq 1..created
  /\ aborted \in BOOLEAN
  /\ IsQueue(listening) /\ Range(listening) \subseteq Live /\ waiting \subseteq Live
  /\ IsQueue(commands)
  /\ \A t \in Live : TokenShaped(t)

\* A command finds its token as it needs it.
TokenFits(name, t) ==
  /\ name \in Moving \union {"updateFailed"} => Members(t) = {}
  /\ name = "advanceToReady" =>
       /\ Kind(t) \in ActivityKinds /\ State(t) = "ARRIVED"
       /\ Kind(t) = "subprocess" => tokens[t].owned
  /\ name = "advanceToEntered" =>
       Kind(t) \notin Boundaries /\ (Kind(t) \in Scopes => tokens[t].owned)
  /\ name = "advanceToBusy" =>
       /\ Kind(t) \notin Throws \union (Gateways \ {"eventBased"})
       /\ Kind(t) \in Scopes => tokens[t].owned
  /\ name = "run" => Kind(t) \in Scopes /\ tokens[t].owned /\ State(t) = "BUSY"
  /\ name = "advanceToCompleted" => Kind(t) \in CatchEvents \union ActivityKinds \union {"process"}
  /\ name = "advanceFromCompleted" => Kind(t) \in ActivityKinds
  /\ name \in {"advanceToEntered", "advanceToBusy", "run"} /\ Kind(t) = "process" => created = 1
  /\ name \in {"advanceToDeparting", "advanceToDeparted", "advanceToArrived",
              "handleDivergingGateway"} =>
       ~tokens[t].owned /\ Kind(t) # "process"
  /\ name = "advanceToDeparting" => Kind(t) = "eventBased" /\ State(t) = "BUSY"
  /\ name = "advanceToArrived" => IsFlow(tokens[t].flow) /\ tokens[t].flow[1] = Node(t)
  /\ name = "handleDivergingGateway" =>
       Kind(t) \in Gateways /\ State(t) = IF Kind(t) = "eventBased" THEN "BUSY" ELSE "ENTERED"
  /\ name = "shutdown" => Kind(t) \in Scopes /\ \A u \in Members(t) : Members(u) = {}
  /\ name = "advanceToFailed" => Kind(t) \notin Gateways /\ t \notin Range(listening)
  /\ name = "updateFailed" => Kind(t) \in Scopes
  /\ name \in {"terminate", "advanceFromCompleted"} => State(t) # "READY"
  /\ name = "initiateBoundaryEvents" => Kind(t) \in ActivityKinds
  /\ name = "initiateBoundaryEvent" => Kind(t) # "process"
  /\ name = "handleEventBasedGatewayActivation" => Kind(t) \notin Boundaries
  /\ name = "deleteInstance" => Kind(t) = "process"

\* A command is given what it needs.
ArgumentFits(c) ==
  /\ c.name = "advanceToDeparted" => IsFlow(c.arg) /\ c.arg[1] = Node(c.for)
  /\ c.name = "initiateBoundaryEvent" =>
       c.arg \in Nodes \ model.interrupting /\ model.kind[c.arg] \in Boundaries
  /\ c.name = "createMergedToken" =>
       c.arg \in Nodes /\ model.kind[c.arg] \in {"parallel", "inclusive"}

\* Of the tokens at boundary events not completed, none has departed, and one
\* awaiting an error is completed by the failure itself.
BoundaryFits(c) ==
  c.name \in Moving /\ Kind(c.for) \in Boundaries /\ tokens[c.for].link # None =>
    /\ c.name \in {"advanceToBusy", "advanceToCompleted"}
    /\ Kind(c.for) = "errorBoundary" => c.name = "advanceToBusy"

CommandOK(c) ==
  c.name # "broadcastSignal" =>
    c.for \in Live /\ TokenFits(c.name, c.for) /\ ArgumentFits(c) /\ BoundaryFits(c)

CommandsOK == \A c \in Queued : CommandOK(c)

\* A scope does not fail while it is being entered, nor an activity whose
\* boundary events are about to be initiated.
Compatible(c, d) ==
  c.for = d.for =>
    /\ ~(c.name \in {"advanceToBusy", "run"} /\ Kind(c.for) \in Scopes /\ d.name \in Failing)
    /\ ~(c.name = "initiateBoundaryEvents" /\ d.name \in Failing \ {"advanceToFailed"})

NoneFails == \A c, d \in Queued : Compatible(c, d)

\* Alone in the queue are the commands by which activities and processes enter.
Alone(c) ==
  \/ c.name = "advanceToReady"
  \/ c.name = "advanceToEntered" /\ Kind(c.for) \in ActivityKinds \union {"process"}

\* What cannot be queued behind a command.
InOrder(c, d) ==
  /\ ~(c.name \in Main /\ d.name \in Main /\ c.for = d.for)
  /\ d.name = "shutdown" /\ c.name \in Main => tokens[c.for].owner # d.for
  /\ d.name = "initiateBoundaryEvents" => c.for # d.for
  /\ ~(/\ c.name = "handleFailure" /\ d.name = "advanceToBusy"
       /\ Kind(d.for) = "errorBoundary" /\ tokens[d.for].link = c.for)
  /\ ~(/\ c.name \in Moving /\ c.for = d.for
       /\ d.name \in {"advanceToFailed", "handleEventBasedGatewayActivation"})
  /\ ~(c.name = "advanceToArrived" /\ d.name = "updateFailed" /\ c.for = d.for)
  /\ ~Alone(c) /\ ~Alone(d)

OrderOK == \A c, d \in Queued : Ahead(c, d) => InOrder(c, d)

\* What is registered is at rest.
ListeningOK ==
  /\ \A t : ~Before(listening, t, t)
  /\ \A t \in Range(listening) : State(t) = "BUSY" /\ Kind(t) \in Signals /\ Unmoved(t)

WaitingOK ==
  \A t \in waiting :
    State(t) = "WAITING" /\ Kind(t) \in Gateways \ {"eventBased"} /\ Unmoved(t)

DoneOK == \A t \in Live : State(t) = "DONE" => Unmoved(t)

\* A token put at an event-based gateway, with the copies made of it.
Alternative(u) == tokens[u].link # None /\ Kind(u) \notin Boundaries
Rests(g) == Kind(g) = "eventBased" /\ State(g) = "BUSY" /\ Unmoved(g)

AlternativePlaced(u) ==
  LET g == tokens[u].link IN
  /\ g \in Live /\ Rests(g)
  /\ tokens[g].owner = tokens[u].owner /\ tokens[g].link = None
  /\ Node(u) \in {Node(g)} \union FlowsFrom(model, Node(g))
  /\ State(u) = "DEPARTED" => Node(u) = Node(g)

AlternativeMoves(c) ==
  c.name \in Moving /\ Alternative(c.for) =>
    \/ c.name \in {"advanceToDeparted", "advanceToArrived"} /\ Kind(c.for) = "eventBased"
    \/ /\ c.name \in {"advanceToEntered", "advanceToBusy", "advanceToCompleted"}
       /\ Kind(c.for) # "eventBased"
    \/ \E d \in Queued : d.name = "handleEventBasedGatewayActivation" /\ d.for = c.for

AlternativesOK ==
  /\ \A u \in Live : Alternative(u) => AlternativePlaced(u)
  /\ \A c \in Queued : AlternativeMoves(c)

\* No token is left on its way.
Underway(t) ==
  /\ State(t) = "DEPARTED" => \E c \in Queued : c.name = "advanceToArrived" /\ c.for = t
  /\ Kind(t) = "inclusive" =>
       t \in waiting \/ State(t) = "DONE" \/ \E c \in Queued : c.name \in Moving /\ c.for = t

OnTheMove == ~aborted => \A t \in Live : Underway(t)

\* The merges of inclusive gateways come first, and no token of the scope can
\* come to the gateway.
InclusiveMerge(c) == c.name = "createMergedToken" /\ model.kind[c.arg] = "inclusive"

Passed(u, g) ==
  \/ Node(u) = g /\ State(u) = "WAITING"
  \/ Kind(u) \in Boundaries \/ State(u) = "DONE"
  \/ Node(u) # g /\ Node(u) \notin Predecessors(g)

MergesOK ==
  \A c \in Queued : InclusiveMerge(c) =>
    /\ \A d \in Queued : Ahead(d, c) => InclusiveMerge(d) /\ <<d.for, d.arg>> # <<c.for, c.arg>>
    /\ \A u \in Members(c.for) : Passed(u, c.arg)

IInv ==
  /\ Typed
  /\ ScopesKept
  /\ CommandsOK
  /\ NoneFails
  /\ OrderOK
  /\ ListeningOK
  /\ WaitingOK
  /\ DoneOK
  /\ AlternativesOK
  /\ OnTheMove
  /\ MergesOK

-----------------------------------------------------------------------------
\* The commands behind the head, and those of them left when tokens are removed
\* and state machines shut.
Rest == IF commands = <<>> THEN {} ELSE Range(Tail(commands))
Stays(c, gone, shut) == c.for \notin gone /\ ~(c.name \in ByScope /\ c.for \in shut)
Left(gone, shut) == {c \in Rest : Stays(c, gone, shut)}

\* The head of the queue is a command of some name for a token.
HeadIs(name, t) == commands # <<>> /\ Head(commands).name = name /\ Head(commands).for = t

\* Commands are taken off the queue, and others enqueued behind it.
QueueStep(gone, shut, new) ==
  /\ IsQueue(commands)'
  /\ Queued' = Left(gone, shut) \union Range(new)
  /\ \A c, d : Ahead(c, d)' =>
       \/ c \in Left(gone, shut) /\ d \in Left(gone, shut) /\ Ahead(c, d)
       \/ c \in Left(gone, shut) /\ d \in Range(new)
       \/ Before(new, c, d)

\* What is behind the head of the queue is queued.
LEMMA RestQueued ==
  ASSUME IsQueue(commands)
  PROVE  /\ \A c \in Rest : c \in Queued /\ commands # <<>> /\ Ahead(Head(commands), c)
         /\ commands # <<>> => Head(commands) \in Queued
         /\ \A c \in Queued : c = Head(commands) \/ c \in Rest
         /\ Rest # {} => commands # <<>>
  <1>1. CASE commands = <<>>
    <2>1. Queued = {} /\ Rest = {}
      BY <1>1 DEF Queued, Rest, Range
    <2> QED
      BY <1>1, <2>1
  <1>2. CASE commands # <<>>
    <2>1. /\ Head(commands) \in Range(commands)
          /\ Range(commands) = {Head(commands)} \union Range(Tail(commands))
          /\ \A d \in Range(Tail(commands)) : Before(commands, Head(commands), d)
      BY <1>2, TailOrder
    <2> QED
      BY <1>2, <2>1 DEF Rest, Queued, Ahead
  <1> QED
    BY <1>1, <1>2

\* Commands lapse with their tokens and their state machines.
LEMMA CommandsLapse ==
  ASSUME IsQueue(commands), commands # <<>>, NEW gone, NEW shut, NEW new, IsQueue(new),
         commands' = Purged(Tail(commands), gone, shut) \o new
  PROVE  QueueStep(gone, shut, new)
  <1> DEFINE q == Tail(commands)
             keep == {c \in Range(q) : Stays(c, gone, shut)}
             places == {i \in DOMAIN q : q[i] \in keep}
             r == Kept(q, places)
  <1>1. IsQueue(q) /\ Rest = Range(q)
    BY TailOrder DEF Rest
  <1>2. \A c, d : Before(q, c, d) => Ahead(c, d)
    BY TailOrder DEF Ahead
  <1>3. places =
          {i \in DOMAIN q : q[i].for \notin gone /\ ~(q[i].name \in ByScope /\ q[i].for \in shut)}
    BY DEF Stays, Range
  <1>4. r = Purged(q, gone, shut)
    BY <1>3 DEF Purged
  <1>5. keep = Left(gone, shut)
    BY <1>1 DEF Left
  <1>6. r = Kept(q, places) /\ \A i : i \in places <=> i \in DOMAIN q /\ q[i] \in keep
    OBVIOUS
  <1> HIDE DEF q, keep, places, r
  <1>7. /\ IsQueue(r)
        /\ Range(r) = Range(q) \intersect keep
        /\ \A c, d : Before(r, c, d) => Before(q, c, d) /\ c \in Range(r) /\ d \in Range(r)
    BY <1>1, <1>6, KeptOrder
  <1>8. Range(r) = Left(gone, shut)
    BY <1>5, <1>7 DEF keep
  <1>9. commands' = r \o new
    BY <1>4 DEF q
  <1>10. /\ IsQueue(r \o new)
         /\ Range(r \o new) = Range(r) \union Range(new)
         /\ \A c, d : Before(r \o new, c, d) =>
              Before(r, c, d) \/ (c \in Range(r) /\ d \in Range(new)) \/ Before(new, c, d)
    BY <1>7, JoinedOrder
  <1>11. IsQueue(commands') /\ Range(commands') = Left(gone, shut) \union Range(new)
    BY <1>8, <1>9, <1>10
  <1>12. \A c, d : Before(commands', c, d) =>
           \/ c \in Left(gone, shut) /\ d \in Left(gone, shut) /\ Ahead(c, d)
           \/ c \in Left(gone, shut) /\ d \in Range(new)
           \/ Before(new, c, d)
    BY <1>2, <1>7, <1>8, <1>9, <1>10
  <1> QED
    BY <1>11, <1>12 DEF QueueStep, Queued, Ahead

\* Commands are enqueued behind the others.
LEMMA CommandsEnqueued ==
  ASSUME IsQueue(commands), commands # <<>>, NEW new, IsQueue(new),
         commands' = Tail(commands) \o new
  PROVE  QueueStep({}, {}, new)
  <1> DEFINE q == Tail(commands)
  <1>1. IsQueue(q) /\ Rest = Range(q)
    BY TailOrder DEF Rest
  <1>2. \A c, d : Before(q, c, d) => Ahead(c, d) /\ c \in Range(q) /\ d \in Range(q)
    BY TailOrder DEF Ahead
  <1>3. Left({}, {}) = Range(q)
    BY <1>1 DEF Left, Stays
  <1>4. commands' = q \o new
    OBVIOUS
  <1> HIDE DEF q
  <1>5. /\ IsQueue(q \o new)
        /\ Range(q \o new) = Range(q) \union Range(new)
        /\ \A c, d : Before(q \o new, c, d) =>
             Before(q, c, d) \/ (c \in Range(q) /\ d \in Range(new)) \/ Before(new, c, d)
    BY <1>1, JoinedOrder
  <1>6. IsQueue(commands') /\ Range(commands') = Left({}, {}) \union Range(new)
    BY <1>3, <1>4, <1>5
  <1>7. \A c, d : Before(commands', c, d) =>
           \/ c \in Left({}, {}) /\ d \in Left({}, {}) /\ Ahead(c, d)
           \/ c \in Left({}, {}) /\ d \in Range(new)
           \/ Before(new, c, d)
    BY <1>2, <1>3, <1>4, <1>5
  <1> QED
    BY <1>6, <1>7 DEF QueueStep, Queued, Ahead

\* The queue was empty.
LEMMA CommandsBegin ==
  ASSUME commands = <<>>, NEW new, IsQueue(new), commands' = new
  PROVE  QueueStep({}, {}, new) /\ Rest = {} /\ Queued = {}
  <1>1. Left({}, {}) = {}
    BY DEF Left, Rest
  <1> QED
    BY <1>1 DEF QueueStep, Queued, Ahead, Rest, Range

-----------------------------------------------------------------------------
\* A token is in a scope that is busy or failing.
InScope(t) ==
  Kind(t) # "process" =>
    /\ tokens[t].owner \in Live
    /\ tokens[tokens[t].owner].owned
    /\ State(tokens[t].owner) \in {"BUSY", "FAILING"}

\* A step that removes some tokens and creates others changes one at most: it
\* stays where it is unless it arrives, and the scope it owns is kept.
Touched(t, gone) ==
  /\ tokens'[t].owner = tokens[t].owner
  /\ tokens'[t].link \in {tokens[t].link, None}
  /\ \/ Node(t)' = Node(t)
     \/ /\ HeadIs("advanceToArrived", t) /\ Kind(t) # "process"
        /\ Kind(t)' \notin Boundaries \union {"process"}
  /\ TokenShaped(t)'
  /\ Members(t) \ gone # {} => tokens'[t].owned /\ State(t)' \in {"BUSY", "FAILING"}

\* A token is created in a scope that has one, or that is being run.
Fresh(x) ==
  /\ TokenShaped(x)' /\ InScope(x)' /\ Kind(x)' # "process" /\ State(x)' # "DONE"
  /\ Members(tokens'[x].owner) # {} \/ HeadIs("run", tokens'[x].owner)

TokenStep(t, gone, k) ==
  /\ model' = model
  /\ k \in Nat /\ created' = created + k /\ created' <= MaxTokens
  /\ gone \subseteq Live
  /\ Live' = (Live \ gone) \union (created + 1)..(created + k)
  /\ \A u \in Live \ gone : u # t => tokens'[u] = tokens[u]
  /\ \A u \in Live : tokens[u].owner \in gone => u \in gone
  /\ t \in Live \ gone => Touched(t, gone)
  /\ \A x \in (created + 1)..(created + k) : Fresh(x)

RegisterStep(t, gone) ==
  /\ IsQueue(listening)' /\ (\A u : ~Before(listening', u, u))
  /\ Range(listening') \subseteq (Range(listening) \ gone) \union {t}
  /\ waiting' \subseteq (waiting \ gone) \union {t}
  /\ waiting \ (gone \union {t}) \subseteq waiting'
  /\ t \in Range(listening') => t \in Live \ gone /\ State(t)' = "BUSY" /\ Kind(t)' \in Signals
  /\ t \in waiting' =>
       /\ t \in Live \ gone /\ State(t)' = "WAITING"
       /\ Kind(t)' \in Gateways \ {"eventBased"}

EnvironmentStep ==
  /\ trigger' = trigger /\ now' \in 0..MaxTime /\ signals' \in 0..MaxSignals
  /\ aborted' = aborted

\* The tokens that remain, and those created.
LEMMA TokensAfter ==
  ASSUME Typed, NEW t, NEW gone, NEW k, TokenStep(t, gone, k)
  PROVE  /\ \A u \in Live' : u \in Live \ gone \/ (u \in (created + 1)..(created + k) /\ u \notin Live)
         /\ \A u \in Live \ gone : u \in Live' /\ tokens'[u].owner = tokens[u].owner
         /\ \A u \in Live \ gone : u # t => Kind(u)' = Kind(u) /\ tokens'[u] = tokens[u]
         /\ \A u \in Live \ gone : Kind(u)' = "process" <=> Kind(u) = "process"
         /\ \A u \in Live \ gone : tokens'[u].link \in {tokens[u].link, None}
         /\ Nodes' = Nodes /\ None \notin Live /\ created \in Nat
  <1>1. created \in Nat /\ k \in Nat /\ \A u \in Live : u \in 1..created
    BY FlowAssumption DEF Typed, TokenStep, Ids
  <1>2. \A u \in Live' : u \in Live \ gone \/ (u \in (created + 1)..(created + k) /\ u \notin Live)
    BY <1>1 DEF TokenStep
  <1>3. \A u \in Live \ gone : u # t => tokens'[u] = tokens[u]
    BY DEF TokenStep
  <1>4. t \in Live \ gone => Touched(t, gone)
    BY DEF TokenStep
  <1>5. model' = model
    BY DEF TokenStep
  <1>6. \A u \in Live \ gone : u \in Live'
    BY DEF TokenStep
  <1> QED
    BY <1>1, <1>2, <1>3, <1>4, <1>5, <1>6 DEF Touched, Kind, Node, Nodes, None

LEMMA TypedKept ==
  ASSUME Typed, NEW t, NEW gone, NEW k, TokenStep(t, gone, k), RegisterStep(t, gone),
         EnvironmentStep, IsQueue(commands)'
  PROVE  Typed'
  <1>1. /\ \A u \in Live' : u \in Live \ gone \/ (u \in (created + 1)..(created + k) /\ u \notin Live)
        /\ \A u \in Live \ gone : u \in Live'
        /\ \A u \in Live \ gone : u # t => Kind(u)' = Kind(u) /\ tokens'[u] = tokens[u]
        /\ \A u \in Live \ gone : Kind(u)' = "process" <=> Kind(u) = "process"
        /\ Nodes' = Nodes /\ None \notin Live /\ created \in Nat
    BY TokensAfter
  <1>2. /\ created' \in Ids /\ created <= created' /\ created' \in Nat
        /\ \A u \in Live' : u \in 1..created'
    <2>1. created \in 1..MaxTokens /\ MaxTokens \in Nat /\ k \in Nat /\ \A u \in Live : u \in 1..created
      BY FlowAssumption DEF Typed, TokenStep, Ids
    <2>2. created' = created + k /\ created' <= MaxTokens
      BY DEF TokenStep
    <2> QED
      BY <1>1, <2>1, <2>2 DEF Ids
  <1>3. ASSUME NEW u \in Live' PROVE TokenShaped(u)'
    <2>1. CASE u \in Live \ gone /\ u # t
      <3>1. tokens'[u] = tokens[u] /\ TokenShaped(u) /\ Kind(u)' = Kind(u) /\ State(u)' = State(u)
        BY <1>1, <2>1 DEF Typed, State
      <3>2. tokens[u].link \in 0..created /\ tokens[u].owner \in 0..created
        BY <3>1 DEF TokenShaped
      <3>3. tokens[u].link \in Live' => tokens[u].link \in Live \ gone
        BY <1>1, <3>2
      <3>4. tokens[u].link \in Live' => Kind(tokens[u].link)' # "process"
        BY <1>1, <3>1, <3>3 DEF TokenShaped
      <3>5. tokens[u] \in [node : Nodes, state : States, owner : 0..created', link : 0..created',
                           flow : {<<>>} \union (Nodes \X Nodes), owned : BOOLEAN]
        <4>1. tokens[u] \in [node : Nodes, state : States, owner : 0..created, link : 0..created,
                             flow : {<<>>} \union (Nodes \X Nodes), owned : BOOLEAN]
          BY <3>1 DEF TokenShaped
        <4>2. 0..created \subseteq 0..created'
          BY <1>1, <1>2
        <4> QED
          BY <4>1, <4>2
      <3> QED
        BY <1>1, <3>1, <3>4, <3>5 DEF TokenShaped
    <2>2. CASE u \in Live \ gone /\ u = t
      BY <2>2 DEF TokenStep, Touched
    <2>3. CASE u \in (created + 1)..(created + k)
      BY <2>3 DEF TokenStep, Fresh
    <2> QED
      BY <1>1, <2>1, <2>2, <2>3
  <1>4. IsQueue(listening)' /\ Range(listening') \subseteq Live' /\ waiting' \subseteq Live'
    BY <1>1 DEF Typed, RegisterStep
  <1>5. /\ model' \in Models /\ now' \in 0..MaxTime /\ signals' \in 0..MaxSignals
        /\ trigger' \in [TimerNodes(model') -> 0..MaxTime] /\ aborted' \in BOOLEAN
    BY DEF Typed, EnvironmentStep, TokenStep
  <1>6. Live' \subseteq 1..created'
    BY <1>2
  <1> QED
    BY <1>2, <1>3, <1>4, <1>5, <1>6 DEF Typed

\* No token outlives the scope it is in.
LEMMA ScopesStayKept ==
  ASSUME Typed, ScopesKept, NEW t, NEW gone, NEW k, TokenStep(t, gone, k)
  PROVE  ScopesKept'
  <1>1. /\ \A u \in Live' : u \in Live \ gone \/ (u \in (created + 1)..(created + k) /\ u \notin Live)
        /\ \A u \in Live \ gone : u \in Live' /\ tokens'[u].owner = tokens[u].owner
        /\ \A u \in Live \ gone : u # t => Kind(u)' = Kind(u) /\ tokens'[u] = tokens[u]
        /\ \A u \in Live \ gone : Kind(u)' = "process" <=> Kind(u) = "process"
    BY TokensAfter
  <1>2. ASSUME NEW u \in Live' PROVE InScope(u)'
    <2>1. CASE u \in Live \ gone
      <3> SUFFICES ASSUME Kind(u)' # "process" PROVE InScope(u)'
        BY DEF InScope
      <3>0. Kind(u) # "process"
        BY <1>1, <2>1
      <3>00. PICK s : s = tokens[u].owner
        OBVIOUS
      <3>1. s \in Live /\ tokens[s].owned /\ State(s) \in {"BUSY", "FAILING"}
        BY <2>1, <3>0, <3>00 DEF ScopesKept
      <3>2. s \notin gone
        BY <2>1, <3>00, <3>1 DEF TokenStep
      <3>3. u \in Members(s) \ gone
        BY <2>1, <3>00 DEF Members
      <3>4. tokens'[s].owned /\ State(s)' \in {"BUSY", "FAILING"}
        <4>1. CASE s = t
          BY <3>1, <3>2, <3>3, <4>1 DEF TokenStep, Touched
        <4>2. CASE s # t
          BY <1>1, <3>1, <3>2, <4>2 DEF State
        <4> QED
          BY <4>1, <4>2
      <3>5. tokens'[u].owner = s /\ s \in Live'
        BY <1>1, <2>1, <3>00, <3>1, <3>2
      <3> QED
        BY <3>4, <3>5 DEF InScope
    <2>2. CASE u \in (created + 1)..(created + k)
      BY <2>2 DEF TokenStep, Fresh
    <2> QED
      BY <1>1, <2>1, <2>2
  <1> QED
    BY <1>2 DEF ScopesKept, InScope

\* The head of the queue and what is behind it.
LEMMA HeadAndRest ==
  ASSUME Typed, CommandsOK, NoneFails, OrderOK, NEW c \in Rest
  PROVE  /\ commands # <<>> /\ c \in Queued /\ CommandOK(c)
         /\ Head(commands) \in Queued /\ CommandOK(Head(commands))
         /\ InOrder(Head(commands), c)
         /\ Compatible(Head(commands), c) /\ Compatible(c, Head(commands))
  <1>1. commands # <<>> /\ c \in Queued /\ Ahead(Head(commands), c) /\ Head(commands) \in Queued
    BY RestQueued DEF Typed
  <1> QED
    BY <1>1 DEF CommandsOK, NoneFails, OrderOK

\* A token that is about to move comes to own no token.
LEMMA MembersStay ==
  ASSUME Typed, CommandsOK, NoneFails, OrderOK, NEW t, NEW gone, NEW k, TokenStep(t, gone, k),
         NEW c \in Rest, c.for \in Live \ gone
  PROVE  /\ c.name \in Moving \union {"updateFailed"} => Members(c.for)' = {}
         /\ c.name = "shutdown" => \A u \in Members(c.for)' : Members(u)' = {}
  <1>1. /\ commands # <<>> /\ CommandOK(c) /\ CommandOK(Head(commands))
        /\ InOrder(Head(commands), c) /\ Compatible(Head(commands), c)
    BY HeadAndRest
  <1>2. /\ \A u \in Live' : u \in Live \ gone \/ (u \in (created + 1)..(created + k) /\ u \notin Live)
        /\ \A u \in Live \ gone : u \in Live' /\ tokens'[u].owner = tokens[u].owner
        /\ created \in Nat
    BY TokensAfter
  <1>3. \A u \in Live : u <= created /\ u \in Nat /\ tokens[u].owner \in 0..created
    BY <1>2 DEF Typed, TokenShaped
  <1>4. ASSUME NEW u, NEW x \in Members(u)', x \notin Members(u)
        PROVE  x \notin Live /\ (Members(u) # {} \/ HeadIs("run", u))
    <2>1. x \in Live' /\ tokens'[x].owner = u
      BY <1>4 DEF Members
    <2>2. x \notin Live \ gone
      BY <1>2, <1>4, <2>1 DEF Members
    <2>3. x \in (created + 1)..(created + k) /\ x \notin Live
      BY <1>2, <2>1, <2>2
    <2> QED
      BY <2>1, <2>3 DEF TokenStep, Fresh
  <1>5. ASSUME NEW u, HeadIs("run", u)
        PROVE  /\ u \in Live /\ Kind(u) \in Scopes
               /\ c.for = u => c.name \notin Moving \union {"updateFailed"}
               /\ c.name = "shutdown" => u \notin Members(c.for)
    <2>1. Head(commands).name = "run" /\ Head(commands).for = u
      BY <1>5 DEF HeadIs
    <2>2. u \in Live /\ Kind(u) \in Scopes
      BY <1>1, <2>1 DEF CommandOK, TokenFits
    <2>3. c.for = u => c.name \notin Moving \union {"updateFailed"}
      BY <1>1, <2>1, <2>2 DEF InOrder, Compatible, Main, Moving, Failing
    <2>4. c.name = "shutdown" => u \notin Members(c.for)
      BY <1>1, <2>1 DEF InOrder, Members, Main, Moving
    <2> QED
      BY <2>2, <2>3, <2>4
  <1>6. c.name \in Moving \union {"updateFailed", "shutdown"} => TokenFits(c.name, c.for)
    BY <1>1 DEF CommandOK, Moving
  <1>7. ASSUME c.name \in Moving \union {"updateFailed"} PROVE Members(c.for)' = {}
    <2>1. Members(c.for) = {} /\ ~HeadIs("run", c.for)
      BY <1>5, <1>6, <1>7 DEF TokenFits
    <2> QED
      BY <1>4, <2>1
  <1>8. ASSUME c.name = "shutdown", NEW u, u \in Members(c.for)' PROVE Members(u)' = {}
    <2>1. ~HeadIs("run", u) \/ u \notin Members(c.for)
      BY <1>5, <1>8
    <2>2. CASE u \in Members(c.for)
      <3>1. Members(u) = {}
        BY <1>6, <1>8, <2>2 DEF TokenFits
      <3> QED
        BY <1>4, <2>1, <2>2, <3>1
    <2>3. CASE u \notin Members(c.for)
      <3>1. u \notin Live /\ u \in Live'
        BY <1>4, <1>8, <2>3 DEF Members
      <3>2. u \notin 0..created
        BY <1>2, <3>1 DEF TokenStep
      <3>3. Members(u) = {}
        BY <1>3, <3>2 DEF Members
      <3>4. ~HeadIs("run", u)
        BY <1>5, <3>1
      <3> QED
        BY <1>4, <3>3, <3>4
    <2> QED
      BY <2>2, <2>3
  <1> QED
    BY <1>7, <1>8

-----------------------------------------------------------------------------
\* What is left of the queue for the token changed still fits it, and what is
\* enqueued fits as well.
LeftFits(t, gone, shut) ==
  t \in Live \ gone =>
    \A c \in Left(gone, shut) : c.for = t => CommandOK(c)' /\ AlternativeMoves(c)'

\* No token is created while the instance has not started.
LEMMA NoneCreated ==
  ASSUME Typed, CommandsOK, NoneFails, OrderOK, NEW t, NEW gone, NEW k, TokenStep(t, gone, k),
         NEW c \in Rest, c.name \in {"advanceToEntered", "advanceToBusy", "run"}, Kind(c.for) = "process"
  PROVE  created' = 1
  <1>1. /\ commands # <<>> /\ CommandOK(c) /\ InOrder(Head(commands), c)
    BY HeadAndRest
  <1>2. c.for \in Live /\ TokenFits(c.name, c.for)
    BY <1>1 DEF CommandOK
  <1>3. created = 1 /\ c.for = 1
    <2>1. created = 1
      BY <1>2 DEF TokenFits
    <2>2. c.for \in 1..1
      BY <1>2, <2>1 DEF Typed
    <2> QED
      BY <2>1, <2>2
  <1>4. k \in Nat /\ created' = 1 + k
    BY <1>3 DEF TokenStep
  <1>5. ASSUME k # 0 PROVE FALSE
    <2>1. PICK s : s = tokens'[2].owner
      OBVIOUS
    <2>2. Fresh(2)
      <3>1. 2 \in (created + 1)..(created + k)
        BY <1>3, <1>4, <1>5
      <3> QED
        BY <3>1 DEF TokenStep
    <2>3. s \in Live' /\ s < 2 /\ (Members(s) # {} \/ HeadIs("run", s))
      BY <2>1, <2>2 DEF Fresh, InScope, TokenShaped
    <2>4. s = 1
      <3>1. s \in Live \/ s \in (created + 1)..(created + k)
        BY <2>3, TokensAfter
      <3>2. s \in Live => s \in 1..created
        BY DEF Typed
      <3> QED
        BY <1>3, <1>4, <2>3, <3>1, <3>2
    <2>5. ~HeadIs("run", s)
      BY <1>1, <1>3, <2>4 DEF InOrder, HeadIs, Main, Moving
    <2>6. PICK u \in Live : tokens[u].owner = 1
      BY <2>3, <2>4, <2>5 DEF Members
    <2>7. u \in 1..1 /\ tokens[u].owner < u
      BY <1>3, <2>6 DEF Typed, TokenShaped
    <2> QED
      BY <2>6, <2>7
  <1> QED
    BY <1>4, <1>5

\* Commands that do not concern the token changed go on to fit.
LEMMA CommandsStayFit ==
  ASSUME Typed, CommandsOK, NoneFails, OrderOK, NEW t, NEW gone, NEW k, TokenStep(t, gone, k),
         RegisterStep(t, gone), NEW shut, LeftFits(t, gone, shut),
         NEW c \in Left(gone, shut)
  PROVE  CommandOK(c)'
  <1>1. c \in Rest /\ CommandOK(c) /\ c.for \notin gone
    BY HeadAndRest DEF Left, Stays
  <1> SUFFICES ASSUME c.name # "broadcastSignal"
      PROVE  CommandOK(c)'
    BY DEF CommandOK
  <1>2. c.for \in Live \ gone
    BY <1>1 DEF CommandOK
  <1>3. CASE c.for = t
    BY <1>2, <1>3 DEF LeftFits
  <1>4. CASE c.for # t
    <2> DEFINE u == c.for
    <2>1. /\ u \in Live' /\ Kind(u)' = Kind(u) /\ tokens'[u] = tokens[u]
          /\ Nodes' = Nodes /\ model' = model
      <3>1. model' = model
        BY DEF TokenStep
      <3> QED
        BY <1>2, <1>4, <3>1, TokensAfter
    <2>2. Node(u)' = Node(u) /\ State(u)' = State(u)
      BY <2>1 DEF Node, State
    <2>3. /\ c.name \in Moving \union {"updateFailed"} => Members(u)' = {}
          /\ c.name = "shutdown" => \A x \in Members(u)' : Members(x)' = {}
      BY <1>1, <1>2, MembersStay
    <2>4. u \in Range(listening') => u \in Range(listening)
      BY <1>4 DEF RegisterStep
    <2>5. TokenFits(c.name, u) /\ ArgumentFits(c) /\ BoundaryFits(c)
      BY <1>1 DEF CommandOK
    <2>9. c.name \in {"advanceToEntered", "advanceToBusy", "run"} /\ Kind(u) = "process" => created' = 1
      BY <1>1, NoneCreated
    <2> HIDE DEF u
    <2>6. TokenFits(c.name, u)'
      BY <2>1, <2>2, <2>3, <2>4, <2>5, <2>9 DEF TokenFits, IsFlow, FlowsFrom, Nodes
    <2>7. ArgumentFits(c)'
      BY <2>1, <2>2, <2>5 DEF ArgumentFits, IsFlow, FlowsFrom, Nodes, u
    <2>8. BoundaryFits(c)'
      BY <2>1, <2>5 DEF BoundaryFits, u
    <2> QED
      BY <2>1, <2>6, <2>7, <2>8 DEF CommandOK, u
  <1> QED
    BY <1>3, <1>4

\* A command enqueued fits its token and what is queued before it; no token at
\* rest is advanced.
NewFits(gone, shut, new) ==
  \A c \in Range(new) :
    /\ CommandOK(c)' /\ AlternativeMoves(c)'
    /\ c.name \in Main =>
         /\ c.for \notin Range(listening') /\ c.for \notin waiting' /\ State(c.for)' # "DONE"
         /\ c.for \in Live => ~Rests(c.for)
    /\ \A d \in Queued' : Compatible(c, d)' /\ Compatible(d, c)'
    /\ \A d \in Left(gone, shut) : InOrder(d, c)'
    /\ \A d : Before(new, c, d) => InOrder(c, d)'

\* A token coming to rest is not about to be advanced.
RestsAfter(t, gone, shut) ==
  t \in Live \ gone /\ (State(t)' = "DONE" \/ t \in Range(listening') \/ t \in waiting') =>
    \A c \in Left(gone, shut) : c.name \in Main => c.for # t

\* What is left of the queue concerns tokens that are left; those about to be
\* advanced stay where they are.
LEMMA LeftStays ==
  ASSUME Typed, CommandsOK, NoneFails, OrderOK, NEW t, NEW gone, NEW k, TokenStep(t, gone, k),
         NEW shut, NEW c \in Left(gone, shut), c.name # "broadcastSignal"
  PROVE  /\ c.for \in Live \ gone /\ c.for \in Live' /\ c.for # None
         /\ tokens'[c.for].owner = tokens[c.for].owner
         /\ tokens'[c.for].link \in {tokens[c.for].link, None}
         /\ c.name \in Main => Node(c.for)' = Node(c.for) /\ Kind(c.for)' = Kind(c.for)
  <1>1. c \in Rest /\ c \in Queued /\ CommandOK(c) /\ c.for \notin gone /\ InOrder(Head(commands), c)
    BY HeadAndRest DEF Left, Stays
  <1>2. c.for \in Live \ gone
    BY <1>1 DEF CommandOK
  <1>3. /\ c.for \in Live' /\ c.for # None
        /\ tokens'[c.for].owner = tokens[c.for].owner
        /\ tokens'[c.for].link \in {tokens[c.for].link, None}
        /\ c.for # t => Kind(c.for)' = Kind(c.for) /\ tokens'[c.for] = tokens[c.for]
    BY <1>2, TokensAfter
  <1>4. ASSUME c.name \in Main PROVE Node(c.for)' = Node(c.for) /\ Kind(c.for)' = Kind(c.for)
    <2>1. CASE c.for # t
      BY <1>3, <2>1 DEF Node
    <2>2. CASE c.for = t
      <3>1. ~HeadIs("advanceToArrived", t)
        BY <1>1, <1>4, <2>2 DEF InOrder, HeadIs, Main, Moving
      <3>2. Node(t)' = Node(t) /\ model' = model
        BY <1>2, <2>2, <3>1 DEF TokenStep, Touched
      <3> QED
        BY <2>2, <3>2 DEF Kind
    <2> QED
      BY <2>1, <2>2
  <1> QED
    BY <1>2, <1>3, <1>4

LEMMA NoneComesToFail ==
  ASSUME Typed, CommandsOK, NoneFails, OrderOK, NEW t, NEW gone, NEW k, TokenStep(t, gone, k),
         NEW shut, NEW new, QueueStep(gone, shut, new), NewFits(gone, shut, new)
  PROVE  NoneFails'
  <1> SUFFICES ASSUME NEW c \in Queued', NEW d \in Queued' PROVE Compatible(c, d)'
    BY DEF NoneFails
  <1>1. CASE c \in Range(new) \/ d \in Range(new)
    BY <1>1 DEF NewFits
  <1>2. CASE c \in Left(gone, shut) /\ d \in Left(gone, shut)
    <2>1. Compatible(c, d)
      BY <1>2, HeadAndRest DEF Left, NoneFails
    <2>2. c.name \in {"advanceToBusy", "run"} => Kind(c.for)' = Kind(c.for)
      BY <1>2, LeftStays DEF Main, Moving
    <2> QED
      BY <2>1, <2>2 DEF Compatible
  <1> QED
    BY <1>1, <1>2 DEF QueueStep

LEMMA OrderStays ==
  ASSUME Typed, CommandsOK, NoneFails, OrderOK, NEW t, NEW gone, NEW k, TokenStep(t, gone, k),
         NEW shut, NEW new, QueueStep(gone, shut, new), NewFits(gone, shut, new)
  PROVE  OrderOK'
  <1> SUFFICES ASSUME NEW c \in Queued', NEW d \in Queued', Ahead(c, d)' PROVE InOrder(c, d)'
    BY DEF OrderOK
  <1>1. CASE c \in Left(gone, shut) /\ d \in Range(new)
    BY <1>1 DEF NewFits
  <1>2. CASE Before(new, c, d)
    <2>1. c \in Range(new)
      BY <1>2 DEF Before, Range
    <2> QED
      BY <1>2, <2>1 DEF NewFits
  <1>3. CASE c \in Left(gone, shut) /\ d \in Left(gone, shut) /\ Ahead(c, d)
    <2>1. InOrder(c, d)
      BY <1>3, HeadAndRest DEF Left, OrderOK
    <2>2. c.name \in Main => tokens'[c.for].owner = tokens[c.for].owner
      BY <1>3, LeftStays DEF Main, Moving
    <2>3. c.name = "handleFailure" => c.for # None
      BY <1>3, LeftStays
    <2>4. d.name = "advanceToBusy" =>
            Kind(d.for)' = Kind(d.for) /\ tokens'[d.for].link \in {tokens[d.for].link, None}
      BY <1>3, LeftStays DEF Main, Moving
    <2>5. /\ c.name = "advanceToEntered" => Kind(c.for)' = Kind(c.for)
          /\ d.name = "advanceToEntered" => Kind(d.for)' = Kind(d.for)
      BY <1>3, LeftStays DEF Main, Moving
    <2> QED
      BY <2>1, <2>2, <2>3, <2>4, <2>5 DEF InOrder, Alone
  <1> QED
    BY <1>1, <1>2, <1>3 DEF QueueStep

\* Tokens at rest stay at rest.
LEMMA RestStays ==
  ASSUME Typed, CommandsOK, NoneFails, OrderOK, ListeningOK, WaitingOK, DoneOK,
         NEW t, NEW gone, NEW k, TokenStep(t, gone, k), RegisterStep(t, gone),
         NEW shut, NEW new, QueueStep(gone, shut, new), NewFits(gone, shut, new),
         RestsAfter(t, gone, shut)
  PROVE  ListeningOK' /\ WaitingOK' /\ DoneOK'
  <1>1. /\ \A u \in Live' : u \in Live \ gone \/ (u \in (created + 1)..(created + k) /\ u \notin Live)
        /\ \A u \in Live \ gone : u # t => Kind(u)' = Kind(u) /\ tokens'[u] = tokens[u]
    BY TokensAfter
  <1>2. ASSUME NEW u, Unmoved(u), \A c \in Range(new) : c.name \in Main => c.for # u
        PROVE  Unmoved(u)'
    <2>1. \A c \in Left(gone, shut) : c \in Queued
      BY HeadAndRest DEF Left
    <2> QED
      BY <1>2, <2>1 DEF QueueStep, Unmoved
  <1>3. ASSUME t \in Live \ gone, State(t)' = "DONE" \/ t \in Range(listening') \/ t \in waiting',
               \A c \in Range(new) : c.name \in Main => c.for # t
        PROVE  Unmoved(t)'
    BY <1>3 DEF RestsAfter, QueueStep, Unmoved
  <1>4. ASSUME NEW u \in Range(listening')
        PROVE  State(u)' = "BUSY" /\ Kind(u)' \in Signals /\ Unmoved(u)'
    <2>1. \A c \in Range(new) : c.name \in Main => c.for # u
      BY <1>4 DEF NewFits
    <2>2. CASE u = t
      BY <1>3, <1>4, <2>1, <2>2 DEF RegisterStep
    <2>3. CASE u # t
      <3>1. u \in Range(listening) /\ u \in Live \ gone
        BY <1>4, <2>3 DEF RegisterStep, Typed
      <3>2. State(u) = "BUSY" /\ Kind(u) \in Signals /\ Unmoved(u)
        BY <3>1 DEF ListeningOK
      <3> QED
        BY <1>1, <1>2, <2>1, <2>3, <3>1, <3>2 DEF State
    <2> QED
      BY <2>2, <2>3
  <1>5. ASSUME NEW u \in waiting'
        PROVE  State(u)' = "WAITING" /\ Kind(u)' \in Gateways \ {"eventBased"} /\ Unmoved(u)'
    <2>1. \A c \in Range(new) : c.name \in Main => c.for # u
      BY <1>5 DEF NewFits
    <2>2. CASE u = t
      BY <1>3, <1>5, <2>1, <2>2 DEF RegisterStep
    <2>3. CASE u # t
      <3>1. u \in waiting /\ u \in Live \ gone
        BY <1>5, <2>3 DEF RegisterStep, Typed
      <3>2. State(u) = "WAITING" /\ Kind(u) \in Gateways \ {"eventBased"} /\ Unmoved(u)
        BY <3>1 DEF WaitingOK
      <3> QED
        BY <1>1, <1>2, <2>1, <2>3, <3>1, <3>2 DEF State
    <2> QED
      BY <2>2, <2>3
  <1>6. ASSUME NEW u \in Live', State(u)' = "DONE" PROVE Unmoved(u)'
    <2>1. \A c \in Range(new) : c.name \in Main => c.for # u
      BY <1>6 DEF NewFits
    <2>2. u \in Live \ gone
      BY <1>1, <1>6 DEF TokenStep, Fresh
    <2>3. CASE u = t
      BY <1>3, <1>6, <2>1, <2>2, <2>3
    <2>4. CASE u # t
      <3>1. State(u) = "DONE"
        BY <1>1, <1>6, <2>2, <2>4 DEF State
      <3> QED
        BY <1>2, <2>1, <2>2, <3>1 DEF DoneOK
    <2> QED
      BY <2>3, <2>4
  <1>7. ListeningOK'
    BY <1>4 DEF ListeningOK, RegisterStep
  <1>8. WaitingOK' /\ DoneOK'
    BY <1>5, <1>6 DEF WaitingOK, DoneOK
  <1> QED
    BY <1>7, <1>8

\* A gateway token goes with the copies awaiting events, the one chosen excepted,
\* and a copy stays between the gateway and an event behind it.
AlternativesStep(t, gone, k) ==
  /\ \A u \in Live \ gone :
       Alternative(u) /\ tokens[u].link \in gone => u = t /\ tokens'[t].link = None
  /\ t \in Live \ gone /\ Rests(t) => Kind(t)' = "eventBased" /\ State(t)' = "BUSY"
  /\ t \in Live \ gone /\ Alternative(t)' =>
       /\ Alternative(t)
       /\ Node(t)' \in {Node(tokens[t].link)} \union FlowsFrom(model, Node(tokens[t].link))
       /\ State(t)' = "DEPARTED" => Node(t)' = Node(tokens[t].link)
  /\ \A x \in (created + 1)..(created + k) : Alternative(x)' => AlternativePlaced(x)'
  /\ \A u \in Live \ gone :
       HeadIs("handleEventBasedGatewayActivation", u) => tokens'[u].link = None

LEMMA AlternativesStay ==
  ASSUME Typed, CommandsOK, NoneFails, OrderOK, AlternativesOK,
         NEW t, NEW gone, NEW k, TokenStep(t, gone, k), AlternativesStep(t, gone, k),
         NEW shut, NEW new, QueueStep(gone, shut, new), NewFits(gone, shut, new),
         LeftFits(t, gone, shut)
  PROVE  AlternativesOK'
  <1>1. /\ \A u \in Live' : u \in Live \ gone \/ (u \in (created + 1)..(created + k) /\ u \notin Live)
        /\ \A u \in Live \ gone : u \in Live' /\ tokens'[u].owner = tokens[u].owner
        /\ \A u \in Live \ gone : u # t => Kind(u)' = Kind(u) /\ tokens'[u] = tokens[u]
        /\ \A u \in Live \ gone : tokens'[u].link \in {tokens[u].link, None}
    BY TokensAfter
  <1>2. model' = model
    BY DEF TokenStep
  <1>3. \A c \in Left(gone, shut) : c \in Queued /\ c \in Rest /\ CommandOK(c) /\ c.for \notin gone
    BY HeadAndRest DEF Left, Stays
  <1>4. ASSUME NEW g \in Live \ gone, Rests(g)
        PROVE  Rests(g)' /\ Node(g)' = Node(g)
    <2>1. Kind(g)' = "eventBased" /\ State(g)' = "BUSY"
      BY <1>1, <1>4 DEF AlternativesStep, Rests, State
    <2>2. Unmoved(g)'
      <3>1. \A c \in Left(gone, shut) : c.name \in Main => c.for # g
        BY <1>3, <1>4 DEF Rests, Unmoved
      <3>2. \A c \in Range(new) : c.name \in Main => c.for # g
        BY <1>4 DEF NewFits
      <3> QED
        BY <3>1, <3>2 DEF QueueStep, Unmoved
    <2>3. Node(g)' = Node(g)
      <3>1. CASE g # t
        BY <1>1, <3>1 DEF Node
      <3>2. CASE g = t
        <4>1. ~HeadIs("advanceToArrived", t)
          <5>1. commands # <<>> => Head(commands) \in Queued
            BY RestQueued DEF Typed
          <5> QED
            BY <1>4, <3>2, <5>1 DEF Rests, Unmoved, HeadIs, Main, Moving
        <4> QED
          BY <3>2, <4>1 DEF TokenStep, Touched
      <3> QED
        BY <3>1, <3>2
    <2> QED
      BY <2>1, <2>2, <2>3 DEF Rests
  <1>5. ASSUME NEW u \in Live', Alternative(u)' PROVE AlternativePlaced(u)'
    <2>1. CASE u \in Live \ gone
      <3>1. PICK g : g = tokens[u].link
        OBVIOUS
      <3>2. Alternative(u)
        BY <1>1, <1>5, <2>1 DEF AlternativesStep, Alternative
      <3>3. /\ g \in Live /\ Rests(g)
            /\ tokens[g].owner = tokens[u].owner /\ tokens[g].link = None
            /\ Node(u) \in {Node(g)} \union FlowsFrom(model, Node(g))
            /\ State(u) = "DEPARTED" => Node(u) = Node(g)
        BY <2>1, <3>1, <3>2 DEF AlternativesOK, AlternativePlaced
      <3>4. tokens'[u].link = g
        BY <1>1, <1>5, <2>1, <3>1 DEF Alternative
      <3>5. g \in Live \ gone
        BY <1>5, <2>1, <3>1, <3>2, <3>3, <3>4 DEF AlternativesStep, Alternative
      <3>6. Rests(g)' /\ Node(g)' = Node(g)
        BY <1>4, <3>3, <3>5
      <3>7. /\ Node(u)' \in {Node(g)} \union FlowsFrom(model, Node(g))
            /\ State(u)' = "DEPARTED" => Node(u)' = Node(g)
        <4>1. CASE u = t
          BY <1>5, <2>1, <3>1, <4>1 DEF AlternativesStep
        <4>2. CASE u # t
          BY <1>1, <2>1, <3>3, <4>2 DEF Node, State
        <4> QED
          BY <4>1, <4>2
      <3>8. tokens'[g].owner = tokens'[u].owner /\ g \in Live' /\ tokens'[g].link = None
        BY <1>1, <2>1, <3>3, <3>5
      <3> QED
        BY <1>2, <3>4, <3>6, <3>7, <3>8 DEF AlternativePlaced
    <2>2. CASE u \in (created + 1)..(created + k)
      BY <1>5, <2>2 DEF AlternativesStep
    <2> QED
      BY <1>1, <2>1, <2>2
  <1>6. ASSUME NEW c \in Left(gone, shut), c.for \in Live \ gone, c.for # t
        PROVE  AlternativeMoves(c)'
    <2> SUFFICES ASSUME c.name \in Moving, Alternative(c.for)'
        PROVE  AlternativeMoves(c)'
      BY DEF AlternativeMoves
    <2>1. Kind(c.for)' = Kind(c.for) /\ tokens'[c.for] = tokens[c.for]
      BY <1>1, <1>6
    <2>2. Alternative(c.for) /\ AlternativeMoves(c)
      BY <1>3, <2>1 DEF Alternative, AlternativesOK
    <2>3. ASSUME NEW d \in Queued, d.name = "handleEventBasedGatewayActivation", d.for = c.for
          PROVE  d \in Queued'
      <3>1. ~HeadIs("handleEventBasedGatewayActivation", c.for)
        BY <1>6, <2>2, <2>1 DEF AlternativesStep, Alternative
      <3>2. d \in Rest
        BY <2>3, <3>1, <1>3, RestQueued, HeadAndRest DEF HeadIs, Typed
      <3>3. d \in Left(gone, shut)
        BY <1>6, <2>3, <3>2 DEF Left, Stays, ByScope
      <3> QED
        BY <3>3 DEF QueueStep
    <2> QED
      BY <2>1, <2>2, <2>3 DEF AlternativeMoves
  <1>7. ASSUME NEW c \in Queued' PROVE AlternativeMoves(c)'
    <2>1. CASE c \in Range(new)
      BY <2>1 DEF NewFits
    <2>2. CASE c \in Left(gone, shut)
      <3>1. CASE c.name = "broadcastSignal"
        BY <3>1 DEF AlternativeMoves, Moving
      <3>2. CASE c.name # "broadcastSignal"
        <4>1. c.for \in Live \ gone
          BY <1>3, <2>2, <3>2 DEF CommandOK
        <4> QED
          BY <1>6, <2>2, <4>1 DEF LeftFits
      <3> QED
        BY <3>1, <3>2
    <2> QED
      BY <2>1, <2>2 DEF QueueStep
  <1> QED
    BY <1>5, <1>7 DEF AlternativesOK

\* The tokens changed and created are not left on their way, and no other one is
\* the one the head of the queue was to advance.
UnderwayStep(t, gone, k) ==
  /\ ~aborted => /\ t \in Live \ gone => Underway(t)'
                 /\ \A x \in (created + 1)..(created + k) : Underway(x)'
  /\ commands # <<>> /\ Head(commands).name \in Moving => Head(commands).for \in {t} \union gone

LEMMA OnTheMoveStays ==
  ASSUME Typed, CommandsOK, NoneFails, OrderOK, OnTheMove,
         NEW t, NEW gone, NEW k, TokenStep(t, gone, k), UnderwayStep(t, gone, k),
         RegisterStep(t, gone), EnvironmentStep, NEW shut, NEW new, QueueStep(gone, shut, new)
  PROVE  OnTheMove'
  <1> SUFFICES ASSUME ~aborted, NEW u \in Live' PROVE Underway(u)'
    BY DEF OnTheMove, EnvironmentStep
  <1>1. /\ u \in Live \ gone \/ (u \in (created + 1)..(created + k) /\ u \notin Live)
        /\ u \in Live \ gone /\ u # t => Kind(u)' = Kind(u) /\ tokens'[u] = tokens[u]
    BY TokensAfter
  <1>2. CASE u \notin Live \ gone \/ u = t
    BY <1>1, <1>2 DEF UnderwayStep
  <1>3. CASE u \in Live \ gone /\ u # t
    <2>1. Underway(u) /\ Kind(u)' = Kind(u) /\ State(u)' = State(u)
      BY <1>1, <1>3 DEF OnTheMove, State
    <2>2. ASSUME NEW c \in Queued, c.name \in Moving, c.for = u, c.name # "run"
          PROVE  c \in Queued'
      <3>1. c \in Rest
        <4>1. c = Head(commands) \/ c \in Rest
          BY RestQueued DEF Typed
        <4>2. commands # <<>>
          BY <2>2 DEF Queued, Range
        <4>3. c # Head(commands)
          BY <1>3, <2>2, <4>2 DEF UnderwayStep
        <4> QED
          BY <4>1, <4>3
      <3>2. c \in Left(gone, shut)
        BY <1>3, <2>2, <3>1 DEF Left, Stays, ByScope, Moving
      <3> QED
        BY <3>2 DEF QueueStep
    <2>3. ASSUME Kind(u) = "inclusive", NEW c \in Queued, c.for = u
          PROVE  c.name # "run"
      <3>1. CommandOK(c)
        BY DEF CommandsOK
      <3> QED
        BY <2>3, <3>1 DEF CommandOK, TokenFits, Scopes
    <2>4. u \in waiting => u \in waiting'
      BY <1>3 DEF RegisterStep
    <2>5. State(u)' = "DEPARTED" => \E c \in Queued' : c.name = "advanceToArrived" /\ c.for = u
      BY <2>1, <2>2 DEF Underway, Moving
    <2>6. Kind(u)' = "inclusive" =>
            u \in waiting' \/ State(u)' = "DONE" \/ \E c \in Queued' : c.name \in Moving /\ c.for = u
      BY <2>1, <2>2, <2>3, <2>4 DEF Underway
    <2> QED
      BY <2>5, <2>6 DEF Underway
  <1> QED
    BY <1>2, <1>3

-----------------------------------------------------------------------------
\* A process no token is left of, and that it stays so.
Emptied(s) == Kind(s) = "process" /\ created > 1 /\ Members(s) = {}
EmptiedStay == \A s \in Live : Emptied(s) /\ s \in Live' => Emptied(s)'

LEMMA StayEmptied ==
  ASSUME Typed, CommandsOK, NEW t, NEW gone, NEW k, TokenStep(t, gone, k)
  PROVE  EmptiedStay
  <1> SUFFICES ASSUME NEW s \in Live, Emptied(s), s \in Live' PROVE Emptied(s)'
    BY DEF EmptiedStay
  <1>1. /\ \A u \in Live' : u \in Live \ gone \/ (u \in (created + 1)..(created + k) /\ u \notin Live)
        /\ \A u \in Live \ gone : tokens'[u].owner = tokens[u].owner
        /\ \A u \in Live \ gone : Kind(u)' = "process" <=> Kind(u) = "process"
        /\ created \in Nat
    BY TokensAfter
  <1>2. Kind(s)' = "process" /\ created' > 1
    <2>1. k \in Nat /\ created' = created + k /\ created > 1
      BY DEF TokenStep, Emptied
    <2> QED
      BY <1>1, <2>1 DEF Emptied
  <1>3. ASSUME NEW x \in Members(s)' PROVE FALSE
    <2>1. x \in Live' /\ tokens'[x].owner = s
      BY DEF Members
    <2>2. x \notin Live \ gone
      BY <1>1, <2>1 DEF Emptied, Members
    <2>3. HeadIs("run", s)
      BY <1>1, <2>1, <2>2 DEF TokenStep, Fresh, Emptied
    <2>4. TokenFits("run", s)
      BY <2>3, RestQueued DEF HeadIs, CommandsOK, CommandOK, Typed
    <2> QED
      BY <2>4 DEF TokenFits, Emptied
  <1> QED
    BY <1>2, <1>3 DEF Emptied

-----------------------------------------------------------------------------
\* A step of the system: one token is changed, others are removed and created.
StepOK(t, gone, k, shut, new) ==
  /\ TokenStep(t, gone, k)
  /\ QueueStep(gone, shut, new)
  /\ RegisterStep(t, gone)
  /\ EnvironmentStep
  /\ LeftFits(t, gone, shut)
  /\ NewFits(gone, shut, new)
  /\ RestsAfter(t, gone, shut)
  /\ AlternativesStep(t, gone, k)
  /\ UnderwayStep(t, gone, k)

\* Such a step keeps the invariant, the merges of inclusive gateways apart.
LEMMA StepKeeps ==
  ASSUME IInv, NEW t, NEW gone, NEW k, NEW shut, NEW new, StepOK(t, gone, k, shut, new), MergesOK'
  PROVE  IInv' /\ EmptiedStay
  <1>1. /\ Typed /\ ScopesKept /\ CommandsOK /\ NoneFails /\ OrderOK /\ ListeningOK
        /\ WaitingOK /\ DoneOK /\ AlternativesOK /\ OnTheMove
    BY DEF IInv
  <1>2. /\ TokenStep(t, gone, k) /\ QueueStep(gone, shut, new) /\ RegisterStep(t, gone)
        /\ EnvironmentStep /\ LeftFits(t, gone, shut) /\ NewFits(gone, shut, new)
        /\ RestsAfter(t, gone, shut) /\ AlternativesStep(t, gone, k) /\ UnderwayStep(t, gone, k)
    BY DEF StepOK
  <1>3. Typed'
    <2>1. IsQueue(commands)'
      BY <1>2 DEF QueueStep
    <2> QED
      BY <1>1, <1>2, <2>1, TypedKept
  <1>4. ScopesKept'
    BY <1>1, <1>2, ScopesStayKept
  <1>5. CommandsOK'
    <2>1. ASSUME NEW c \in Queued' PROVE CommandOK(c)'
      <3>1. CASE c \in Left(gone, shut)
        BY <1>1, <1>2, <3>1, CommandsStayFit
      <3>2. CASE c \in Range(new)
        BY <1>2, <3>2 DEF NewFits
      <3>3. Queued' = Left(gone, shut) \union Range(new)
        BY <1>2 DEF QueueStep
      <3> QED
        BY <2>1, <3>1, <3>2, <3>3
    <2> QED
      BY <2>1 DEF CommandsOK
  <1>6. NoneFails'
    BY <1>1, <1>2, NoneComesToFail
  <1>7. OrderOK'
    BY <1>1, <1>2, OrderStays
  <1>8. ListeningOK' /\ WaitingOK' /\ DoneOK'
    BY <1>1, <1>2, RestStays
  <1>9. AlternativesOK'
    BY <1>1, <1>2, AlternativesStay
  <1>10. OnTheMove'
    BY <1>1, <1>2, OnTheMoveStays
  <1>11. EmptiedStay
    BY <1>1, <1>2, StayEmptied
  <1> QED
    BY <1>3, <1>4, <1>5, <1>6, <1>7, <1>8, <1>9, <1>10, <1>11 DEF IInv

\* Commands other than merges of inclusive gateways are executed after those.
LEMMA NoMerges ==
  ASSUME IInv, NEW gone, NEW shut, NEW new, QueueStep(gone, shut, new), model' = model,
         commands = <<>> \/ ~InclusiveMerge(Head(commands)),
         \A c \in Range(new) : c.name # "createMergedToken" \/ model.kind[c.arg] # "inclusive"
  PROVE  MergesOK'
  <1>1. ASSUME NEW c \in Queued', InclusiveMerge(c) PROVE FALSE
    <2>1. c \notin Range(new)
      BY <1>1 DEF InclusiveMerge
    <2>2. c \in Rest
      BY <1>1, <2>1 DEF QueueStep, Left
    <2>3. commands # <<>> /\ c \in Queued /\ Head(commands) \in Queued /\ Ahead(Head(commands), c)
      BY <2>2, RestQueued DEF IInv, Typed
    <2>4. InclusiveMerge(Head(commands))
      BY <1>1, <2>3 DEF IInv, MergesOK
    <2> QED
      BY <2>3, <2>4
  <1>2. \A c \in Queued' : ~InclusiveMerge(c)'
    BY <1>1 DEF InclusiveMerge
  <1> QED
    BY <1>2 DEF MergesOK

\* The step goes on to keep the invariant when nothing is merged.
LEMMA PlainStepKeeps ==
  ASSUME IInv, NEW t, NEW gone, NEW k, NEW shut, NEW new, StepOK(t, gone, k, shut, new),
         commands = <<>> \/ ~InclusiveMerge(Head(commands)),
         \A c \in Range(new) : c.name # "createMergedToken" \/ model.kind[c.arg] # "inclusive"
  PROVE  IInv' /\ EmptiedStay
  <1>1. QueueStep(gone, shut, new) /\ model' = model
    BY DEF StepOK, TokenStep
  <1>2. MergesOK'
    BY <1>1, NoMerges
  <1> QED
    BY <1>2, StepKeeps

\* After a failed assertion nothing is executed.
LEMMA AbortKeeps ==
  ASSUME IInv, Abort
  PROVE  IInv' /\ EmptiedStay
  <1>1. /\ commands' = <<>> /\ aborted' = TRUE /\ model' = model /\ trigger' = trigger
        /\ now' = now /\ signals' = signals /\ created' = created /\ tokens' = tokens
        /\ listening' = listening /\ waiting' = waiting
    BY DEF Abort, environment, registers
  <1>2. Queued' = {} /\ IsQueue(commands') /\ \A t : Unmoved(t)'
    BY <1>1 DEF Queued, Range, IsQueue, Unmoved
  <1>3. /\ Live' = Live /\ Nodes' = Nodes
         /\ \A t : Node(t)' = Node(t) /\ Kind(t)' = Kind(t) /\ State(t)' = State(t)
    BY <1>1 DEF Live, Nodes, Node, Kind, State
  <1>4. \A t : TokenShaped(t) => TokenShaped(t)'
    BY <1>1, <1>3 DEF TokenShaped
  <1>5. Typed'
    <2>1. Typed
      BY DEF IInv
    <2>2. \A t \in Live' : TokenShaped(t)'
      BY <1>3, <1>4, <2>1 DEF Typed
    <2> QED
      BY <1>1, <1>2, <1>3, <2>1, <2>2 DEF Typed
  <1>6. ScopesKept'
    BY <1>1, <1>3 DEF IInv, ScopesKept
  <1>7. CommandsOK' /\ NoneFails' /\ MergesOK'
    BY <1>2 DEF CommandsOK, NoneFails, MergesOK
  <1>8. OrderOK'
    BY <1>2 DEF OrderOK
  <1>9. ListeningOK' /\ WaitingOK' /\ DoneOK'
    BY <1>1, <1>2, <1>3 DEF IInv, ListeningOK, WaitingOK, DoneOK
  <1>10. AlternativesOK'
    <2>1. ASSUME NEW u \in Live, Alternative(u) PROVE AlternativePlaced(u)'
      <3>1. AlternativePlaced(u)
        BY <2>1 DEF IInv, AlternativesOK
      <3> QED
        BY <1>1, <1>2, <1>3, <3>1 DEF AlternativePlaced, Rests
    <2>2. \A u \in Live' : Alternative(u)' => AlternativePlaced(u)'
      BY <1>1, <1>3, <2>1 DEF Alternative
    <2> QED
      BY <1>2, <2>2 DEF AlternativesOK
  <1>11. OnTheMove'
    BY <1>1 DEF OnTheMove
  <1>12. EmptiedStay
    BY <1>1, <1>3 DEF EmptiedStay, Emptied, Members
  <1> QED
    BY <1>5, <1>6, <1>7, <1>8, <1>9, <1>10, <1>11, <1>12 DEF IInv

-----------------------------------------------------------------------------
\* Queues of no command, of one and of two.
LEMMA NoneQueued == IsQueue(<<>>) /\ Range(<<>>) = {} /\ \A c, d : ~Before(<<>>, c, d)
  BY DEF IsQueue, Range, Before

LEMMA OneQueued ==
  ASSUME NEW a
  PROVE  IsQueue(<<a>>) /\ Range(<<a>>) = {a} /\ \A c, d : ~Before(<<a>>, c, d)
  <1>1. DOMAIN <<a>> = {1} /\ <<a>>[1] = a
    OBVIOUS
  <1>2. Range(<<a>>) = {a}
    BY <1>1 DEF Range
  <1>3. <<a>> \in Seq({a})
    OBVIOUS
  <1> QED
    BY <1>1, <1>2, <1>3 DEF IsQueue, Before

LEMMA TwoQueued ==
  ASSUME NEW a, NEW b
  PROVE  /\ IsQueue(<<a, b>>) /\ Range(<<a, b>>) = {a, b} /\ <<a>> \o <<b>> = <<a, b>>
         /\ \A c, d : Before(<<a, b>>, c, d) => c = a /\ d = b
  <1>1. <<a>> \o <<b>> = <<a, b>>
    <2> DEFINE X == {a, b}
               s == <<a>> \o <<b>>
    <2>1. <<a>> \in Seq(X) /\ <<b>> \in Seq(X) /\ <<a, b>> \in Seq(X)
      OBVIOUS
    <2>2. /\ Len(<<a>>) = 1 /\ Len(<<b>>) = 1 /\ Len(<<a, b>>) = 2
          /\ <<a>>[1] = a /\ <<b>>[1] = b /\ <<a, b>>[1] = a /\ <<a, b>>[2] = b
      OBVIOUS
    <2> HIDE DEF X
    <2>3. /\ s \in Seq(X) /\ Len(s) = Len(<<a>>) + Len(<<b>>)
          /\ \A i \in 1..Len(<<a>>) + Len(<<b>>) :
               s[i] = IF i <= Len(<<a>>) THEN <<a>>[i] ELSE <<b>>[i - Len(<<a>>)]
      BY <2>1, ConcatProperties
    <2> HIDE DEF s
    <2>4. Len(s) = 2 /\ s[1] = a /\ s[2] = b
      <3>1. Len(s) = 2
        BY <2>2, <2>3
      <3>2. s[1] = <<a>>[1]
        BY <2>2, <2>3
      <3>3. s[2] = <<b>>[2 - 1]
        BY <2>2, <2>3
      <3> QED
        BY <2>2, <3>1, <3>2, <3>3
    <2>5. \A i \in 1..Len(s) : s[i] = <<a, b>>[i]
      <3>1. \A i \in 1..2 : i = 1 \/ i = 2
        OBVIOUS
      <3> QED
        BY <2>2, <2>4, <3>1
    <2>6. s = <<a, b>>
      BY <2>1, <2>2, <2>3, <2>4, <2>5, SeqEqual
    <2> QED
      BY <2>6 DEF s
  <1>2. /\ IsQueue(<<a>> \o <<b>>)
        /\ Range(<<a>> \o <<b>>) = Range(<<a>>) \union Range(<<b>>)
        /\ \A c, d : Before(<<a>> \o <<b>>, c, d) =>
             \/ Before(<<a>>, c, d)
             \/ c \in Range(<<a>>) /\ d \in Range(<<b>>)
             \/ Before(<<b>>, c, d)
    BY OneQueued, JoinedOrder
  <1>3. Range(<<a>>) = {a} /\ Range(<<b>>) = {b}
    BY OneQueued
  <1>4. (\A c, d : ~Before(<<a>>, c, d)) /\ (\A c, d : ~Before(<<b>>, c, d))
    BY OneQueued
  <1>5. \A c, d : Before(<<a>> \o <<b>>, c, d) => c = a /\ d = b
    BY <1>2, <1>3, <1>4
  <1>6. Range(<<a>> \o <<b>>) = {a, b}
    BY <1>2, <1>3
  <1> QED
    BY <1>1, <1>2, <1>5, <1>6

\* What the head of the queue needs, and what is not behind it.
LEMMA HeadFits ==
  ASSUME IInv, commands # <<>>
  PROVE  /\ Head(commands) \in Queued /\ CommandOK(Head(commands))
         /\ AlternativeMoves(Head(commands))
         /\ \A d \in Rest : /\ d \in Queued /\ CommandOK(d)
                            /\ InOrder(Head(commands), d)
                            /\ Compatible(Head(commands), d) /\ Compatible(d, Head(commands))
         /\ Alone(Head(commands)) => Rest = {}
  <1>1. /\ Typed /\ CommandsOK /\ NoneFails /\ OrderOK /\ AlternativesOK
    BY DEF IInv
  <1>2. Head(commands) \in Queued
    BY <1>1, RestQueued DEF Typed
  <1>3. CommandOK(Head(commands)) /\ AlternativeMoves(Head(commands))
    BY <1>1, <1>2 DEF CommandsOK, AlternativesOK
  <1>4. \A d \in Rest : /\ d \in Queued /\ CommandOK(d)
                        /\ InOrder(Head(commands), d)
                        /\ Compatible(Head(commands), d) /\ Compatible(d, Head(commands))
    BY <1>1, HeadAndRest
  <1>5. Alone(Head(commands)) => Rest = {}
    BY <1>4 DEF InOrder
  <1> QED
    BY <1>2, <1>3, <1>4, <1>5

\* No command behind the head advances the token.
Free(t) == \A d \in Rest : d.name \in Main => d.for # t

\* A token advanced by the head of the queue.
LEMMA HeadMoves ==
  ASSUME IInv, NEW t, NEW name \in Main, HeadIs(name, t)
  PROVE  /\ t \in Live /\ TokenFits(name, t)
         /\ Free(t) /\ ~Unmoved(t) /\ ~Rests(t)
         /\ t \notin Range(listening) /\ t \notin waiting /\ State(t) # "DONE"
         /\ name \in Moving =>
              \A d \in Rest : d.for = t =>
                d.name \notin {"initiateBoundaryEvents", "advanceToFailed",
                               "handleEventBasedGatewayActivation"}
  <1> DEFINE h == Head(commands)
  <1>1. h.name = name /\ h.for = t /\ commands # <<>>
    BY DEF HeadIs
  <1>2. h \in Queued /\ CommandOK(h) /\ \A d \in Rest : InOrder(h, d)
    BY <1>1, HeadFits
  <1> HIDE DEF h
  <1>3. t \in Live /\ TokenFits(name, t)
    BY <1>1, <1>2 DEF CommandOK, Main, Moving
  <1>4. Free(t)
    BY <1>1, <1>2 DEF Free, InOrder
  <1>5. ~Unmoved(t)
    BY <1>1, <1>2 DEF Unmoved
  <1>6. t \notin Range(listening) /\ t \notin waiting /\ State(t) # "DONE" /\ ~Rests(t)
    BY <1>3, <1>5 DEF IInv, ListeningOK, WaitingOK, DoneOK, Rests
  <1>7. name \in Moving =>
          \A d \in Rest : d.for = t =>
            d.name \notin {"initiateBoundaryEvents", "advanceToFailed",
                           "handleEventBasedGatewayActivation"}
    BY <1>1, <1>2 DEF InOrder
  <1> QED
    BY <1>3, <1>4, <1>5, <1>6, <1>7

-----------------------------------------------------------------------------
\* A token changed where it is.
Records == [node : Nodes, state : States, owner : 0..created, link : 0..created,
            flow : {<<>>} \union (Nodes \X Nodes), owned : BOOLEAN]

LEMMA TokenChanged ==
  ASSUME IInv, NEW t \in Live, NEW r \in Records,
         tokens' = [tokens EXCEPT ![t] = r], UNCHANGED <<model, created>>,
         r.node = tokens[t].node, r.owner = tokens[t].owner, r.link \in {tokens[t].link, None},
         r.owned => Kind(t) \in Scopes,
         r.state = "READY" /\ Kind(t) \in Scopes => r.owned,
         Members(t) # {} => r.owned /\ r.state \in {"BUSY", "FAILING"}
  PROVE  /\ TokenStep(t, {}, 0)
         /\ Live' = Live /\ Nodes' = Nodes /\ model' = model
         /\ tokens'[t] = r /\ State(t)' = r.state
         /\ \A u \in Live : Node(u)' = Node(u) /\ Kind(u)' = Kind(u)
         /\ \A u \in Live : u # t => tokens'[u] = tokens[u] /\ State(u)' = State(u)
         /\ \A u : Members(u)' = Members(u)
  <1>1. Live' = Live /\ tokens'[t] = r /\ (\A u \in Live : u # t => tokens'[u] = tokens[u])
    BY DEF Live
  <1>2. model' = model /\ created' = created /\ Nodes' = Nodes
    BY DEF Nodes
  <1>3. \A u \in Live : tokens'[u].node = tokens[u].node /\ tokens'[u].owner = tokens[u].owner
    BY <1>1
  <1>4. \A u \in Live : Node(u)' = Node(u) /\ Kind(u)' = Kind(u)
    BY <1>2, <1>3 DEF Node, Kind
  <1>5. State(t)' = r.state /\ \A u \in Live : u # t => State(u)' = State(u)
    BY <1>1 DEF State
  <1>6. \A u : Members(u)' = Members(u)
    BY <1>1, <1>3 DEF Members
  <1>7. TokenShaped(t) /\ created \in Nat /\ created \in Ids /\ Live \subseteq 1..created
    BY FlowAssumption DEF IInv, Typed, Ids
  <1>8. TokenShaped(t)'
    <2>1. r.link < t
      BY <1>7 DEF TokenShaped, None
    <2>2. r.link \in Live' => Kind(r.link)' # "process"
      <3>1. None \notin Live
        BY <1>7 DEF None
      <3> QED
        BY <1>1, <1>4, <1>7, <3>1 DEF TokenShaped
    <2>3. tokens'[t] \in [node : Nodes', state : States, owner : 0..created', link : 0..created',
                          flow : {<<>>} \union (Nodes' \X Nodes'), owned : BOOLEAN]
      BY <1>1, <1>2 DEF Records
    <2> QED
      BY <1>1, <1>4, <1>5, <1>7, <2>1, <2>2, <2>3 DEF TokenShaped
  <1>9. Touched(t, {})
    BY <1>1, <1>4, <1>5, <1>8 DEF Touched
  <1>10. created' <= MaxTokens
    BY <1>2, <1>7, FlowAssumption DEF Ids
  <1>11. TokenStep(t, {}, 0)
    BY <1>1, <1>2, <1>7, <1>9, <1>10 DEF TokenStep
  <1> QED
    BY <1>1, <1>2, <1>4, <1>5, <1>6, <1>11

\* The registers are left as they are.
LEMMA RegistersKept ==
  ASSUME IInv, NEW t, t \notin Range(listening), t \notin waiting, UNCHANGED registers
  PROVE  RegisterStep(t, {}) /\ t \notin Range(listening') /\ t \notin waiting'
  <1>1. listening' = listening /\ waiting' = waiting
    BY DEF registers
  <1> QED
    BY <1>1 DEF RegisterStep, IInv, Typed, ListeningOK

\* Nothing happens to the environment.
LEMMA EnvironmentKept ==
  ASSUME IInv, UNCHANGED <<environment, aborted>>
  PROVE  EnvironmentStep
  BY DEF EnvironmentStep, environment, IInv, Typed

-----------------------------------------------------------------------------
\* A command enqueued fits its token and what is left of the queue.
NewFit(c, gone, shut) ==
  /\ CommandOK(c)' /\ AlternativeMoves(c)'
  /\ c.name \in Main =>
       /\ c.for \notin Range(listening') /\ c.for \notin waiting' /\ State(c.for)' # "DONE"
       /\ c.for \in Live => ~Rests(c.for)
  /\ \A d \in Left(gone, shut) : Compatible(c, d)' /\ Compatible(d, c)' /\ InOrder(d, c)'

LEMMA NewTogether ==
  ASSUME NEW gone, NEW shut, NEW new, QueueStep(gone, shut, new),
         \A c \in Range(new) : NewFit(c, gone, shut),
         \A c, d \in Range(new) : Compatible(c, d)',
         \A c, d : Before(new, c, d) => InOrder(c, d)'
  PROVE  NewFits(gone, shut, new)
  <1>1. Queued' = Left(gone, shut) \union Range(new)
    BY DEF QueueStep
  <1> QED
    BY <1>1 DEF NewFits, NewFit

\* What is left of the queue.
LEMMA LeftFacts ==
  ASSUME IInv, NEW t, NEW gone, NEW k, TokenStep(t, gone, k), NEW shut, NEW d \in Left(gone, shut)
  PROVE  /\ d \in Rest /\ d \in Queued /\ CommandOK(d) /\ ~Alone(d)'
         /\ InOrder(Head(commands), d) /\ Compatible(Head(commands), d)
         /\ Compatible(d, Head(commands))
         /\ d.name # "broadcastSignal" =>
              /\ d.for \in Live \ gone /\ d.for \in Live'
              /\ tokens'[d.for].owner = tokens[d.for].owner
              /\ d.name \in Main => Kind(d.for)' = Kind(d.for)
  <1>1. Typed /\ CommandsOK /\ NoneFails /\ OrderOK
    BY DEF IInv
  <1>2. /\ d \in Rest /\ d \in Queued /\ CommandOK(d)
        /\ InOrder(Head(commands), d) /\ Compatible(Head(commands), d)
        /\ Compatible(d, Head(commands))
    BY <1>1, HeadAndRest DEF Left
  <1>3. d.name # "broadcastSignal" =>
          /\ d.for \in Live \ gone /\ d.for \in Live'
          /\ tokens'[d.for].owner = tokens[d.for].owner
          /\ d.name \in Main => Kind(d.for)' = Kind(d.for)
    BY <1>1, LeftStays
  <1>4. ~Alone(d)'
    BY <1>2, <1>3 DEF InOrder, Alone, Main, Moving
  <1> QED
    BY <1>2, <1>3, <1>4

\* A token advanced goes on.
LEMMA GoesOn ==
  ASSUME IInv, NEW t \in Live, Free(t), ~Rests(t),
         NEW gone, NEW k, t \notin gone, NEW v, TokenStep(v, gone, k), NEW shut,
         t \notin Range(listening'), t \notin waiting', State(t)' # "DONE",
         NEW c, c.for = t, c.name \in Moving \ {"advanceToReady"},
         TokenFits(c.name, t)', ArgumentFits(c)', BoundaryFits(c)', AlternativeMoves(c)',
         c.name = "advanceToEntered" => Kind(t)' \notin ActivityKinds \union {"process"},
         c.name = "advanceToBusy" => Kind(t)' # "errorBoundary",
         c.name \in {"advanceToBusy", "run"} /\ Kind(t)' \in Scopes =>
           \A d \in Rest : d.for = t => d.name \notin Failing
  PROVE  NewFit(c, gone, shut)
  <1>1. t \in Live'
    BY DEF TokenStep
  <1>2. CommandOK(c)'
    BY <1>1 DEF CommandOK
  <1>3. ASSUME NEW d \in Left(gone, shut)
        PROVE  Compatible(c, d)' /\ Compatible(d, c)' /\ InOrder(d, c)'
    <2>1. d \in Rest /\ ~Alone(d)'
      BY LeftFacts
    <2>2. d.name \in Main => d.for # t
      BY <2>1 DEF Free
    <2>3. ~Alone(c)'
      BY DEF Alone
    <2>4. Compatible(c, d)'
      BY <2>1 DEF Compatible, Moving
    <2>5. Compatible(d, c)'
      BY DEF Compatible, Moving, Failing
    <2>6. InOrder(d, c)'
      BY <2>1, <2>2, <2>3 DEF InOrder, Moving
    <2> QED
      BY <2>4, <2>5, <2>6
  <1> QED
    BY <1>2, <1>3 DEF NewFit

\* A token advanced comes to fail instead.
LEMMA FailsNext ==
  ASSUME IInv, NEW t \in Live, \A d \in Rest : d.name \in Moving => d.for # t,
         NEW gone, NEW k, t \notin gone, NEW v, TokenStep(v, gone, k), NEW shut,
         t \notin Range(listening'), Kind(t)' \notin Gateways
  PROVE  NewFit(Command("advanceToFailed", t), gone, shut)
  <1> DEFINE c == Command("advanceToFailed", t)
  <1>1. c.name = "advanceToFailed" /\ c.for = t
    BY DEF Command
  <1> HIDE DEF c
  <1>2. CommandOK(c)'
    <2>1. t \in Live'
      BY DEF TokenStep
    <2> QED
      BY <1>1, <2>1 DEF CommandOK, TokenFits, ArgumentFits, BoundaryFits, Moving
  <1>3. AlternativeMoves(c)' /\ c.name \notin Main
    BY <1>1 DEF AlternativeMoves, Main, Moving
  <1>4. ASSUME NEW d \in Left(gone, shut)
        PROVE  Compatible(c, d)' /\ Compatible(d, c)' /\ InOrder(d, c)'
    <2>1. d \in Rest /\ ~Alone(d)'
      BY LeftFacts
    <2>2. d.name \in Moving => d.for # t
      BY <2>1
    <2>3. ~Alone(c)'
      BY <1>1 DEF Alone
    <2>4. Compatible(c, d)'
      BY <1>1 DEF Compatible
    <2>5. Compatible(d, c)'
      BY <1>1, <2>2 DEF Compatible, Moving, Failing
    <2>6. InOrder(d, c)'
      BY <1>1, <2>1, <2>2, <2>3 DEF InOrder, Main, Moving
    <2> QED
      BY <2>4, <2>5, <2>6
  <1> QED
    BY <1>2, <1>3, <1>4 DEF NewFit, c

\* The failure of a token goes on.
LEMMA FailureGoesOn ==
  ASSUME IInv, NEW t \in Live, commands # <<>>,
         Head(commands).for = t, Head(commands).name \in Failing,
         NEW gone, NEW k, t \notin gone, TokenStep(t, gone, k), NEW shut,
         NEW c, c.for = t, c.name \in {"terminate", "updateFailed", "handleFailure"},
         CommandOK(c)', Kind(t)' = Kind(t),
         c.name = "updateFailed" => \A d \in Rest : d.name = "advanceToArrived" => d.for # t
  PROVE  NewFit(c, gone, shut)
  <1>1. AlternativeMoves(c)' /\ c.name \notin Main
    BY DEF AlternativeMoves, Main, Moving
  <1>2. ASSUME NEW d \in Left(gone, shut)
        PROVE  Compatible(c, d)' /\ Compatible(d, c)' /\ InOrder(d, c)'
    <2>1. /\ d \in Rest /\ ~Alone(d)' /\ Compatible(d, Head(commands))
          /\ InOrder(Head(commands), d)
      BY LeftFacts
    <2>2. d.name = "initiateBoundaryEvents" => d.for # t
      BY <2>1 DEF InOrder
    <2>3. ~(d.for = t /\ d.name \in {"advanceToBusy", "run"} /\ Kind(t) \in Scopes)
      BY <2>1 DEF Compatible
    <2>4. ~Alone(c)'
      BY DEF Alone
    <2>5. Compatible(c, d)'
      BY DEF Compatible
    <2>6. Compatible(d, c)'
      BY <2>2, <2>3 DEF Compatible
    <2>7. InOrder(d, c)'
      BY <2>1, <2>4 DEF InOrder, Main, Moving
    <2> QED
      BY <2>5, <2>6, <2>7
  <1> QED
    BY <1>1, <1>2 DEF NewFit

\* Commands that neither advance a token nor make it fail.
LEMMA OthersFit ==
  ASSUME IInv, NEW t, NEW gone, NEW k, TokenStep(t, gone, k), NEW shut,
         NEW c, c.name \in {"interruptActivity", "initiateBoundaryEvent", "deleteBoundary",
                            "broadcastSignal", "deleteInstance", "createMergedToken"},
         CommandOK(c)'
  PROVE  NewFit(c, gone, shut)
  <1>1. AlternativeMoves(c)' /\ c.name \notin Main /\ ~Alone(c)'
    BY DEF AlternativeMoves, Main, Moving, Alone
  <1>2. ASSUME NEW d \in Left(gone, shut)
        PROVE  Compatible(c, d)' /\ Compatible(d, c)' /\ InOrder(d, c)'
    <2>1. ~Alone(d)'
      BY LeftFacts
    <2>2. Compatible(c, d)' /\ Compatible(d, c)'
      BY DEF Compatible, Failing
    <2>3. InOrder(d, c)'
      BY <1>1, <2>1 DEF InOrder
    <2> QED
      BY <2>2, <2>3
  <1> QED
    BY <1>1, <1>2 DEF NewFit

\* An event-based gateway is activated by a token that no command moves already.
LEMMA ActivationFits ==
  ASSUME IInv, NEW t \in Live, Free(t), NEW gone, NEW k, t \notin gone, TokenStep(t, gone, k),
         NEW shut, Kind(t)' \notin Boundaries
  PROVE  NewFit(Command("handleEventBasedGatewayActivation", t), gone, shut)
  <1> DEFINE c == Command("handleEventBasedGatewayActivation", t)
  <1>1. c.name = "handleEventBasedGatewayActivation" /\ c.for = t
    BY DEF Command
  <1> HIDE DEF c
  <1>2. CommandOK(c)'
    <2>1. t \in Live'
      BY DEF TokenStep
    <2> QED
      BY <1>1, <2>1 DEF CommandOK, TokenFits, ArgumentFits, BoundaryFits, Moving
  <1>3. AlternativeMoves(c)' /\ c.name \notin Main /\ ~Alone(c)'
    BY <1>1 DEF AlternativeMoves, Main, Moving, Alone
  <1>4. ASSUME NEW d \in Left(gone, shut)
        PROVE  Compatible(c, d)' /\ Compatible(d, c)' /\ InOrder(d, c)'
    <2>1. d \in Rest /\ ~Alone(d)'
      BY LeftFacts
    <2>2. d.name \in Main => d.for # t
      BY <2>1 DEF Free
    <2>3. Compatible(c, d)' /\ Compatible(d, c)'
      BY <1>1 DEF Compatible, Failing
    <2>4. InOrder(d, c)'
      BY <1>1, <1>3, <2>1, <2>2 DEF InOrder, Main
    <2> QED
      BY <2>3, <2>4
  <1> QED
    BY <1>2, <1>3, <1>4 DEF NewFit, c

-----------------------------------------------------------------------------
\* What is left of the queue fits a token that it does not advance.
LEMMA LeftFitsFree ==
  ASSUME IInv, NEW t \in Live, Free(t), NEW gone, NEW k, t \notin gone, TokenStep(t, gone, k),
         NEW shut, Kind(t)' = Kind(t), State(t)' # "READY",
         t \in Range(listening') => \A d \in Rest : d.for = t => d.name # "advanceToFailed"
  PROVE  LeftFits(t, gone, shut) /\ RestsAfter(t, gone, shut)
  <1>0. Typed /\ CommandsOK /\ NoneFails /\ OrderOK
    BY DEF IInv
  <1>1. ASSUME NEW c \in Left(gone, shut), c.for = t
        PROVE  CommandOK(c)' /\ AlternativeMoves(c)' /\ c.name \notin Main
    <2>1. c \in Rest /\ CommandOK(c)
      BY LeftFacts
    <2>2. c.name \notin Main /\ c.name \notin Moving
      BY <1>1, <2>1 DEF Free, Main
    <2> SUFFICES ASSUME c.name # "broadcastSignal" PROVE CommandOK(c)'
      BY <2>2 DEF CommandOK, AlternativeMoves
    <2>3. TokenFits(c.name, t) /\ ArgumentFits(c)
      BY <1>1, <2>1 DEF CommandOK
    <2>4. c.name = "updateFailed" => Members(t)' = {}
      BY <1>0, <1>1, <2>1, MembersStay
    <2>5. TokenFits(c.name, t)'
      BY <1>1, <2>1, <2>2, <2>3, <2>4 DEF TokenFits, Main, Moving
    <2>6. ArgumentFits(c)' /\ BoundaryFits(c)'
      BY <2>2, <2>3 DEF ArgumentFits, BoundaryFits, TokenStep, Nodes, Main, Moving
    <2>7. t \in Live'
      BY DEF TokenStep
    <2> QED
      BY <1>1, <2>5, <2>6, <2>7 DEF CommandOK
  <1> QED
    BY <1>1 DEF LeftFits, RestsAfter

\* What is left of the queue goes on to fit a token that fails where it is.
LEMMA LeftFitsFailing ==
  ASSUME IInv, NEW t \in Live, NEW gone, NEW k, t \notin gone, TokenStep(t, gone, k),
         NEW shut, NEW new, QueueStep(gone, shut, new), commands # <<>>,
         Head(commands).name # "handleEventBasedGatewayActivation",
         Kind(t)' = Kind(t), Node(t)' = Node(t), State(t)' # "READY",
         tokens'[t].link = tokens[t].link, tokens'[t].flow = tokens[t].flow,
         \A d \in Rest : d.for = t =>
           d.name \notin {"advanceToReady", "run", "advanceToDeparting", "handleDivergingGateway"},
         \/ tokens'[t].owned = tokens[t].owned
         \/ /\ tokens'[t].owned = FALSE
            /\ \A d \in Rest : d.for = t => d.name \notin {"advanceToEntered", "advanceToBusy"},
         t \in Range(listening') => t \in Range(listening)
  PROVE  LeftFits(t, gone, shut)
  <1>0. Typed /\ CommandsOK /\ NoneFails /\ OrderOK /\ AlternativesOK
    BY DEF IInv
  <1>1. ASSUME NEW c \in Left(gone, shut), c.for = t
        PROVE  CommandOK(c)' /\ AlternativeMoves(c)'
    <2>1. c \in Rest /\ c \in Queued /\ CommandOK(c)
      BY LeftFacts
    <2>2. AlternativeMoves(c)'
      <3> SUFFICES ASSUME c.name \in Moving, Alternative(t)'
          PROVE  AlternativeMoves(c)'
        BY <1>1 DEF AlternativeMoves
      <3>1. Alternative(t) /\ AlternativeMoves(c)
        BY <1>0, <2>1 DEF Alternative, AlternativesOK
      <3>2. ASSUME NEW d \in Queued, d.name = "handleEventBasedGatewayActivation", d.for = t
            PROVE  d \in Queued'
        <4>1. d = Head(commands) \/ d \in Rest
          BY <1>0, RestQueued DEF Typed
        <4>2. d \in Left(gone, shut)
          BY <3>2, <4>1 DEF Left, Stays, ByScope
        <4> QED
          BY <4>2 DEF QueueStep
      <3> QED
        BY <1>1, <3>1, <3>2 DEF AlternativeMoves
    <2> SUFFICES ASSUME c.name # "broadcastSignal" PROVE CommandOK(c)'
      BY <2>2 DEF CommandOK
    <2>3. TokenFits(c.name, t) /\ ArgumentFits(c) /\ BoundaryFits(c)
      BY <1>1, <2>1 DEF CommandOK
    <2>4. /\ c.name \in Moving \union {"updateFailed"} => Members(t)' = {}
          /\ c.name = "shutdown" => \A u \in Members(t)' : Members(u)' = {}
      BY <1>0, <1>1, <2>1, MembersStay
    <2>5. /\ c.name \notin {"advanceToReady", "run", "advanceToDeparting", "handleDivergingGateway"}
          /\ c.name \in {"advanceToEntered", "advanceToBusy", "run"} /\ Kind(t) = "process" => created' = 1
      BY <1>0, <1>1, <2>1, NoneCreated
    <2>6. model' = model /\ Nodes' = Nodes /\ t \in Live'
      BY DEF TokenStep, Nodes
    <2>7. TokenFits(c.name, t)'
      BY <1>1, <2>1, <2>3, <2>4, <2>5, <2>6 DEF TokenFits, IsFlow, FlowsFrom
    <2>8. ArgumentFits(c)' /\ BoundaryFits(c)'
      BY <1>1, <2>3, <2>6 DEF ArgumentFits, BoundaryFits, IsFlow, FlowsFrom
    <2> QED
      BY <1>1, <2>6, <2>7, <2>8 DEF CommandOK
  <1> QED
    BY <1>1 DEF LeftFits

\* A token that moves, or changes where it is.
LEMMA MovesAside ==
  ASSUME IInv, NEW t \in Live, TokenStep(t, {}, 0), ~Rests(t),
         Node(t)' = Node(t), Kind(t)' = Kind(t), commands # <<>>,
         Head(commands).name # "handleEventBasedGatewayActivation",
         State(t)' = "DEPARTED" /\ Alternative(t) => Node(t) = Node(tokens[t].link)
  PROVE  AlternativesStep(t, {}, 0)
  <1>1. (created + 1)..(created + 0) = {}
    <2>1. created \in Nat
      BY TokensAfter DEF IInv
    <2> QED
      BY <2>1
  <1>2. ASSUME Alternative(t)'
        PROVE  /\ Alternative(t)
               /\ Node(t) \in {Node(tokens[t].link)} \union FlowsFrom(model, Node(tokens[t].link))
    <2>1. tokens'[t].link \in {tokens[t].link, None}
      BY DEF TokenStep, Touched
    <2>2. Alternative(t)
      BY <1>2, <2>1 DEF Alternative
    <2>3. AlternativePlaced(t)
      BY <2>2 DEF IInv, AlternativesOK
    <2> QED
      BY <2>2, <2>3 DEF AlternativePlaced
  <1> QED
    BY <1>1, <1>2 DEF AlternativesStep, HeadIs

\* No token is changed, removed or created.
LEMMA NothingTouched ==
  ASSUME IInv, UNCHANGED <<model, created, tokens>>
  PROVE  /\ TokenStep(None, {}, 0) /\ None \notin Live /\ Live' = Live
         /\ (\A u \in Live : State(u)' = State(u) /\ Kind(u)' = Kind(u))
         /\ \A shut : LeftFits(None, {}, shut) /\ RestsAfter(None, {}, shut)
         /\ (commands # <<>> => Head(commands).name # "handleEventBasedGatewayActivation") =>
              AlternativesStep(None, {}, 0)
         /\ (commands # <<>> => Head(commands).name \notin Moving) => UnderwayStep(None, {}, 0)
  <1>1. created \in Nat /\ Live \subseteq 1..created /\ created <= MaxTokens
    BY FlowAssumption DEF IInv, Typed, Ids
  <1>2. None \notin Live /\ (created + 1)..(created + 0) = {}
    BY <1>1 DEF None
  <1>3. Live' = Live /\ tokens' = tokens
    BY DEF Live
  <1>4. TokenStep(None, {}, 0)
    BY <1>1, <1>2, <1>3 DEF TokenStep
  <1>5. \A u \in Live : State(u)' = State(u) /\ Kind(u)' = Kind(u)
    BY <1>3 DEF State, Kind, Node
  <1>6. \A shut : LeftFits(None, {}, shut) /\ RestsAfter(None, {}, shut)
    BY <1>2 DEF LeftFits, RestsAfter
  <1>7. (commands # <<>> => Head(commands).name # "handleEventBasedGatewayActivation") =>
          AlternativesStep(None, {}, 0)
    BY <1>2 DEF AlternativesStep, HeadIs
  <1>8. (commands # <<>> => Head(commands).name \notin Moving) => UnderwayStep(None, {}, 0)
    BY <1>2 DEF UnderwayStep
  <1> QED
    BY <1>2, <1>3, <1>4, <1>5, <1>6, <1>7, <1>8

-----------------------------------------------------------------------------
\* The model of the instance is one.
LEMMA ModelFits ==
  ASSUME IInv
  PROVE  /\ IsModel(model) /\ ScopesStart(model) /\ BoundariesFit(model) /\ GatewaysFit(model)
         /\ Acyclic(model)
  BY FlowAssumption DEF IInv, Typed

\* What a token is like.
LEMMA TokenFacts ==
  ASSUME IInv, NEW t \in Live
  PROVE  /\ TokenShaped(t) /\ InScope(t) /\ Node(t) \in Nodes /\ Kind(t) \in Kinds
         /\ tokens[t] \in Records /\ t # None /\ t \in Nat /\ created \in Nat
         /\ Members(t) # {} =>
              tokens[t].owned /\ Kind(t) \in Scopes /\ State(t) \in {"BUSY", "FAILING"}
  <1>1. TokenShaped(t) /\ t \in 1..created /\ created \in Nat
    BY FlowAssumption DEF IInv, Typed, Ids
  <1>2. tokens[t] \in Records /\ Node(t) \in Nodes /\ t # None /\ t \in Nat
    BY <1>1 DEF TokenShaped, Records, Node, None
  <1>3. Kind(t) \in Kinds
    BY <1>2, ModelFits DEF Kind, IsModel, Nodes
  <1>4. InScope(t)
    BY DEF IInv, ScopesKept, InScope
  <1>5. ASSUME NEW u \in Members(t)
        PROVE  tokens[t].owned /\ Kind(t) \in Scopes /\ State(t) \in {"BUSY", "FAILING"}
    <2>1. u \in Live /\ tokens[u].owner = t
      BY <1>5 DEF Members
    <2>2. TokenShaped(u)
      BY <2>1 DEF IInv, Typed
    <2>3. Kind(u) # "process"
      BY <1>2, <2>1, <2>2 DEF TokenShaped
    <2>4. tokens[t].owned /\ State(t) \in {"BUSY", "FAILING"}
      BY <2>1, <2>3 DEF IInv, ScopesKept
    <2> QED
      BY <1>1, <2>4 DEF TokenShaped
  <1> QED
    BY <1>1, <1>2, <1>3, <1>4, <1>5

\* A token whose state is set.
LEMMA StateSet ==
  ASSUME IInv, NEW t \in Live, NEW st \in States, Set(t, st),
         UNCHANGED <<environment, created, aborted>>,
         st = "READY" /\ Kind(t) \in Scopes => tokens[t].owned,
         Members(t) # {} => st \in {"BUSY", "FAILING"}
  PROVE  /\ TokenStep(t, {}, 0) /\ EnvironmentStep
         /\ Live' = Live /\ Nodes' = Nodes /\ model' = model /\ trigger' = trigger
         /\ State(t)' = st /\ Node(t)' = Node(t) /\ Kind(t)' = Kind(t)
         /\ tokens'[t].owned = tokens[t].owned /\ tokens'[t].owner = tokens[t].owner
         /\ tokens'[t].link = tokens[t].link /\ tokens'[t].flow = tokens[t].flow
         /\ \A u : Members(u)' = Members(u)
         /\ \A u \in Live : u # t => State(u)' = State(u)
  <1> DEFINE r == [tokens[t] EXCEPT !.state = st]
  <1>1. /\ tokens[t] \in Records /\ TokenShaped(t)
        /\ Members(t) # {} => tokens[t].owned
    BY TokenFacts
  <1>2. /\ r \in Records /\ r.node = tokens[t].node /\ r.owner = tokens[t].owner
        /\ r.link = tokens[t].link /\ r.owned = tokens[t].owned /\ r.flow = tokens[t].flow
        /\ r.state = st
    BY <1>1 DEF Records
  <1>3. tokens' = [tokens EXCEPT ![t] = r]
    BY DEF Set
  <1>4. tokens[t].owned => Kind(t) \in Scopes
    BY <1>1 DEF TokenShaped
  <1>5. UNCHANGED <<model, created>> /\ trigger' = trigger
    BY DEF environment
  <1> HIDE DEF r
  <1>6. /\ TokenStep(t, {}, 0)
        /\ Live' = Live /\ Nodes' = Nodes /\ model' = model
        /\ tokens'[t] = r /\ State(t)' = r.state
        /\ \A u \in Live : Node(u)' = Node(u) /\ Kind(u)' = Kind(u)
        /\ \A u \in Live : u # t => tokens'[u] = tokens[u] /\ State(u)' = State(u)
        /\ \A u : Members(u)' = Members(u)
    BY <1>1, <1>2, <1>3, <1>4, <1>5, TokenChanged
  <1>7. EnvironmentStep
    BY EnvironmentKept
  <1> QED
    BY <1>2, <1>5, <1>6, <1>7

\* A token put at an event-based gateway is there, or at an event behind it.
LEMMA AlternativeAt ==
  ASSUME IInv, NEW t \in Live, Alternative(t)
  PROVE  /\ Kind(t) \in {"eventBased", "timerCatch", "signalCatch"}
         /\ Kind(t) = "eventBased" => Node(t) = Node(tokens[t].link)
  <1>1. AlternativePlaced(t)
    BY DEF IInv, AlternativesOK
  <1>2. PICK g : g = tokens[t].link
    OBVIOUS
  <1>3. /\ g \in Live /\ Kind(g) = "eventBased"
        /\ Node(t) \in {Node(g)} \union FlowsFrom(model, Node(g))
    BY <1>1, <1>2 DEF AlternativePlaced, Rests
  <1>4. Node(g) \in DOMAIN model.kind /\ model.kind[Node(g)] = "eventBased"
    BY <1>3, TokenFacts DEF Nodes, Kind
  <1>5. \A n \in FlowsFrom(model, Node(g)) : model.kind[n] \in {"timerCatch", "signalCatch"}
    BY <1>4, ModelFits DEF GatewaysFit
  <1> QED
    BY <1>2, <1>3, <1>5 DEF Kind

\* By which commands such a token is advanced.
LEMMA AlternativeHead ==
  ASSUME IInv, NEW t, NEW name \in Moving, HeadIs(name, t), Alternative(t)
  PROVE  \/ name \in {"advanceToDeparted", "advanceToArrived"} /\ Kind(t) = "eventBased"
         \/ /\ name \in {"advanceToEntered", "advanceToBusy", "advanceToCompleted"}
            /\ Kind(t) # "eventBased"
  <1>1. /\ commands # <<>> /\ Head(commands).name = name /\ Head(commands).for = t
        /\ AlternativeMoves(Head(commands))
    BY HeadFits DEF HeadIs
  <1>2. ASSUME NEW d \in Queued, d.name = "handleEventBasedGatewayActivation", d.for = t
        PROVE  FALSE
    <2>1. d = Head(commands) \/ d \in Rest
      BY RestQueued DEF IInv, Typed
    <2>2. d \in Rest
      BY <1>1, <1>2, <2>1 DEF Moving
    <2> QED
      BY <1>2, <2>2, HeadMoves DEF Main
  <1> QED
    BY <1>1, <1>2 DEF AlternativeMoves

\* Nothing is left of the queue to be fitted.
LEMMA NoneLeft ==
  ASSUME Rest = {}, NEW t, NEW gone, NEW shut
  PROVE  LeftFits(t, gone, shut) /\ RestsAfter(t, gone, shut) /\ Left(gone, shut) = {}
  BY DEF LeftFits, RestsAfter, Left

\* Nothing is enqueued.
LEMMA NoneNew == ASSUME NEW gone, NEW shut PROVE NewFits(gone, shut, <<>>)
  BY NoneQueued DEF NewFits

\* A single command is enqueued.
LEMMA OneNew ==
  ASSUME NEW gone, NEW shut, NEW c, QueueStep(gone, shut, <<c>>), NewFit(c, gone, shut)
  PROVE  NewFits(gone, shut, <<c>>)
  <1>1. Range(<<c>>) = {c} /\ \A d, e : ~Before(<<c>>, d, e)
    BY OneQueued
  <1>2. Compatible(c, c)'
    BY DEF Compatible, Failing
  <1>3. \A d \in Range(<<c>>) : NewFit(d, gone, shut)
    BY <1>1
  <1>4. \A d, e \in Range(<<c>>) : Compatible(d, e)'
    BY <1>1, <1>2
  <1>5. \A d, e : Before(<<c>>, d, e) => InOrder(d, e)'
    BY <1>1
  <1> QED
    BY <1>3, <1>4, <1>5, NewTogether

\* Two commands are enqueued.
LEMMA TwoNew ==
  ASSUME NEW gone, NEW shut, NEW b, NEW c, QueueStep(gone, shut, <<b, c>>),
         NewFit(b, gone, shut), NewFit(c, gone, shut),
         Compatible(b, c)', Compatible(c, b)', InOrder(b, c)'
  PROVE  NewFits(gone, shut, <<b, c>>)
  <1>1. Range(<<b, c>>) = {b, c} /\ \A d, e : Before(<<b, c>>, d, e) => d = b /\ e = c
    BY TwoQueued
  <1>2. Compatible(c, c)' /\ Compatible(b, b)'
    BY DEF Compatible, Failing
  <1>3. \A d \in Range(<<b, c>>) : NewFit(d, gone, shut)
    BY <1>1
  <1>4. \A d, e \in Range(<<b, c>>) : Compatible(d, e)'
    BY <1>1, <1>2
  <1>5. \A d, e : Before(<<b, c>>, d, e) => InOrder(d, e)'
    BY <1>1
  <1> QED
    BY <1>3, <1>4, <1>5, NewTogether

-----------------------------------------------------------------------------
\* A token advanced where it is.
LEMMA InPlaceKeeps ==
  ASSUME IInv, NEW t \in Live, NEW name \in Moving, HeadIs(name, t),
         TokenStep(t, {}, 0), EnvironmentStep, RegisterStep(t, {}),
         Node(t)' = Node(t), Kind(t)' = Kind(t), State(t)' = "READY" => Rest = {},
         State(t)' = "DEPARTED" /\ Alternative(t) => Node(t) = Node(tokens[t].link),
         NEW shut, NEW new, QueueStep({}, shut, new), NewFits({}, shut, new),
         \A c \in Range(new) : c.name # "createMergedToken",
         Underway(t)'
  PROVE  IInv' /\ EmptiedStay
  <1>1. /\ Free(t) /\ ~Rests(t)
        /\ \A d \in Rest : d.for = t => d.name # "advanceToFailed"
    BY HeadMoves DEF Main
  <1>2. commands # <<>> /\ Head(commands).name = name /\ Head(commands).for = t
    BY DEF HeadIs
  <1>3. LeftFits(t, {}, shut) /\ RestsAfter(t, {}, shut)
    <2>1. CASE State(t)' = "READY"
      BY <2>1, NoneLeft
    <2>2. CASE State(t)' # "READY"
      BY <1>1, <2>2, LeftFitsFree
    <2> QED
      BY <2>1, <2>2
  <1>4. Head(commands).name # "handleEventBasedGatewayActivation"
    BY <1>2 DEF Moving
  <1>5. AlternativesStep(t, {}, 0)
    BY <1>1, <1>2, <1>4, MovesAside
  <1>6. UnderwayStep(t, {}, 0)
    <2>1. (created + 1)..(created + 0) = {}
      BY TokenFacts
    <2> QED
      BY <1>2, <2>1 DEF UnderwayStep
  <1>7. StepOK(t, {}, 0, shut, new)
    BY <1>3, <1>5, <1>6 DEF StepOK
  <1>8. ~InclusiveMerge(Head(commands))
    BY <1>2 DEF InclusiveMerge, Moving
  <1> QED
    BY <1>7, <1>8, PlainStepKeeps

\* Nothing is enqueued behind the others, or a single command.
LEMMA EnqueueNone ==
  ASSUME IInv, commands # <<>>, Enqueue(<<>>)
  PROVE  QueueStep({}, {}, <<>>) /\ NewFits({}, {}, <<>>) /\ Range(<<>>) = {}
  <1>1. commands' = Tail(commands) \o <<>> /\ IsQueue(commands)
    BY DEF Enqueue, IInv, Typed
  <1> QED
    BY <1>1, CommandsEnqueued, NoneQueued, NoneNew

LEMMA EnqueueOne ==
  ASSUME IInv, commands # <<>>, NEW c, Enqueue(<<c>>)
  PROVE  /\ QueueStep({}, {}, <<c>>) /\ Range(<<c>>) = {c} /\ c \in Queued'
         /\ NewFit(c, {}, {}) => NewFits({}, {}, <<c>>)
  <1>1. commands' = Tail(commands) \o <<c>> /\ IsQueue(commands)
    BY DEF Enqueue, IInv, Typed
  <1>2. QueueStep({}, {}, <<c>>) /\ Range(<<c>>) = {c}
    BY <1>1, CommandsEnqueued, OneQueued
  <1> QED
    BY <1>2, OneNew DEF QueueStep

LEMMA ReadyKeeps ==
  ASSUME IInv, NEW t, HeadIs("advanceToReady", t), AdvanceToReady(t)
  PROVE  IInv' /\ EmptiedStay
  <1>1. t \in Live /\ TokenFits("advanceToReady", t) /\ t \notin Range(listening) /\ t \notin waiting
    BY HeadMoves DEF Main, Moving
  <1>2. commands # <<>> /\ Alone(Head(commands)) /\ Rest = {}
    BY HeadFits DEF HeadIs, Alone
  <1>3. /\ Set(t, "READY") /\ Enqueue(<<>>)
        /\ UNCHANGED <<environment, created, aborted>> /\ UNCHANGED registers
    BY DEF AdvanceToReady
  <1>4. /\ Kind(t) \in ActivityKinds /\ Members(t) = {}
        /\ Kind(t) \in Scopes => tokens[t].owned
    BY <1>1 DEF TokenFits, Moving, ActivityKinds, Scopes
  <1>5. /\ TokenStep(t, {}, 0) /\ EnvironmentStep /\ State(t)' = "READY"
        /\ Node(t)' = Node(t) /\ Kind(t)' = Kind(t)
    BY <1>1, <1>3, <1>4, StateSet DEF States
  <1>6. RegisterStep(t, {})
    BY <1>1, <1>3, RegistersKept
  <1>7. QueueStep({}, {}, <<>>) /\ NewFits({}, {}, <<>>) /\ Range(<<>>) = {}
    BY <1>2, <1>3, EnqueueNone
  <1>8. Underway(t)'
    BY <1>4, <1>5 DEF Underway, ActivityKinds
  <1> QED
    BY <1>1, <1>2, <1>5, <1>6, <1>7, <1>8, InPlaceKeeps DEF Moving

LEMMA DepartedKeeps ==
  ASSUME IInv, NEW t, HeadIs("advanceToDeparted", t), AdvanceToDeparted(t, Head(commands).arg)
  PROVE  IInv' /\ EmptiedStay
  <1> DEFINE flow == Head(commands).arg
             r == [tokens[t] EXCEPT !.state = "DEPARTED", !.flow = flow]
             c == Command("advanceToArrived", t)
  <1>1. /\ t \in Live /\ TokenFits("advanceToDeparted", t) /\ Free(t) /\ ~Rests(t)
        /\ t \notin Range(listening) /\ t \notin waiting
    BY HeadMoves DEF Main, Moving
  <1>2. commands # <<>> /\ IsFlow(flow) /\ flow[1] = Node(t)
    BY HeadFits DEF HeadIs, CommandOK, ArgumentFits
  <1>3. flow \in Nodes \X Nodes
    <2>1. PICK n \in Nodes : \E k \in FlowsFrom(model, n) : flow = <<n, k>>
      BY <1>2 DEF IsFlow
    <2>2. PICK k \in FlowsFrom(model, n) : flow = <<n, k>>
      BY <2>1
    <2>3. k \in Nodes
      BY <2>2, ModelFits DEF IsModel, FlowsFrom, Range, Nodes
    <2> QED
      BY <2>2, <2>3
  <1>4. /\ tokens' = [tokens EXCEPT ![t] = r] /\ Enqueue(<<c>>)
        /\ UNCHANGED <<environment, created, aborted>> /\ UNCHANGED registers
    BY DEF AdvanceToDeparted
  <1>5. tokens[t] \in Records /\ (tokens[t].owned => Kind(t) \in Scopes)
    BY <1>1, TokenFacts DEF TokenShaped
  <1>6. /\ r \in Records /\ r.node = tokens[t].node /\ r.owner = tokens[t].owner
        /\ r.link = tokens[t].link /\ r.owned = tokens[t].owned /\ r.flow = flow
        /\ r.state = "DEPARTED"
    BY <1>3, <1>5 DEF Records, States
  <1>7. UNCHANGED <<model, created>>
    BY <1>4 DEF environment
  <1>8. Members(t) = {} /\ ~tokens[t].owned /\ Kind(t) # "process"
    BY <1>1 DEF TokenFits, Moving
  <1> HIDE DEF r, flow, c
  <1>9. /\ TokenStep(t, {}, 0) /\ Live' = Live /\ Nodes' = Nodes /\ model' = model
        /\ tokens'[t] = r /\ State(t)' = "DEPARTED"
        /\ Node(t)' = Node(t) /\ Kind(t)' = Kind(t) /\ Members(t)' = {}
    BY <1>1, <1>4, <1>5, <1>6, <1>7, <1>8, TokenChanged
  <1>10. EnvironmentStep
    BY <1>4, EnvironmentKept
  <1>11. RegisterStep(t, {}) /\ t \notin Range(listening') /\ t \notin waiting'
    BY <1>1, <1>4, RegistersKept
  <1>12. c.name = "advanceToArrived" /\ c.for = t
    BY DEF c, Command
  <1>13. Alternative(t) => Kind(t) = "eventBased" /\ Node(t) = Node(tokens[t].link)
    BY <1>1, AlternativeHead, AlternativeAt DEF Moving
  <1>14. QueueStep({}, {}, <<c>>) /\ Range(<<c>>) = {c} /\ c \in Queued'
    BY <1>2, <1>4, EnqueueOne
  <1>15. NewFit(c, {}, {})
    <2>1. TokenFits(c.name, t)'
      BY <1>2, <1>6, <1>8, <1>9, <1>12 DEF TokenFits, IsFlow, FlowsFrom
    <2>2. ArgumentFits(c)'
      BY <1>12 DEF ArgumentFits
    <2>3. BoundaryFits(c)'
      <3>1. BoundaryFits(Head(commands))
        BY <1>2, HeadFits DEF HeadIs, CommandOK
      <3>2. Kind(t) \in Boundaries => tokens[t].link = None
        BY <3>1 DEF BoundaryFits, HeadIs, Moving
      <3> QED
        BY <1>6, <1>9, <1>12, <3>2 DEF BoundaryFits
    <2>4. AlternativeMoves(c)'
      BY <1>6, <1>9, <1>12, <1>13 DEF AlternativeMoves, Alternative
    <2> QED
      BY <1>1, <1>9, <1>11, <1>12, <2>1, <2>2, <2>3, <2>4, GoesOn DEF Moving
  <1>16. NewFits({}, {}, <<c>>)
    BY <1>2, <1>4, <1>15, EnqueueOne
  <1>17. Underway(t)'
    BY <1>12, <1>14 DEF Underway, Moving
  <1> QED
    BY <1>1, <1>9, <1>10, <1>11, <1>12, <1>13, <1>14, <1>16, <1>17, InPlaceKeeps DEF Moving

\* A token comes to listen.
LEMMA ListensToo ==
  ASSUME IInv, NEW t \in Live, t \notin Range(listening), t \notin waiting,
         listening' = Append(listening, t), waiting' = waiting,
         State(t)' = "BUSY", Kind(t)' \in Signals
  PROVE  RegisterStep(t, {}) /\ t \notin waiting'
  <1>1. /\ IsQueue(listening) /\ waiting \subseteq Live
        /\ \A u : ~Before(listening, u, u)
    BY DEF IInv, Typed, ListeningOK
  <1>2. Append(listening, t) = listening \o <<t>>
    <2> DEFINE X == Range(listening) \union {t}
    <2>1. listening \in Seq(X)
      BY <1>1 DEF IsQueue
    <2>2. t \in X
      OBVIOUS
    <2> HIDE DEF X
    <2> QED
      BY <2>1, <2>2, AppendIsConcat
  <1>3. /\ IsQueue(<<t>>) /\ Range(<<t>>) = {t} /\ \A c, d : ~Before(<<t>>, c, d)
    BY OneQueued
  <1>4. /\ IsQueue(listening \o <<t>>)
        /\ Range(listening \o <<t>>) = Range(listening) \union {t}
        /\ \A c, d : Before(listening \o <<t>>, c, d) =>
             Before(listening, c, d) \/ (c \in Range(listening) /\ d \in {t})
    <2>1. /\ IsQueue(listening \o <<t>>)
          /\ Range(listening \o <<t>>) = Range(listening) \union Range(<<t>>)
          /\ \A c, d : Before(listening \o <<t>>, c, d) =>
               \/ Before(listening, c, d)
               \/ c \in Range(listening) /\ d \in Range(<<t>>)
               \/ Before(<<t>>, c, d)
      BY <1>1, <1>3, JoinedOrder
    <2> QED
      BY <1>3, <2>1
  <1> QED
    BY <1>1, <1>2, <1>4 DEF RegisterStep

LEMMA BusyKeeps ==
  ASSUME IInv, NEW t, HeadIs("advanceToBusy", t), AdvanceToBusy(t)
  PROVE  IInv' /\ EmptiedStay
  <1>1. /\ t \in Live /\ TokenFits("advanceToBusy", t) /\ Free(t) /\ ~Rests(t)
        /\ t \notin Range(listening) /\ t \notin waiting
    BY HeadMoves DEF Main, Moving
  <1>2. /\ commands # <<>> /\ BoundaryFits(Head(commands))
        /\ Head(commands).name = "advanceToBusy" /\ Head(commands).for = t
        /\ \A d \in Rest : Compatible(Head(commands), d)
    BY HeadFits DEF HeadIs, CommandOK
  <1>3. /\ Set(t, "BUSY") /\ UNCHANGED <<environment, created, aborted>>
        /\ listening' = (IF Kind(t) \in Signals THEN Append(listening, t) ELSE listening)
        /\ waiting' = waiting
    BY DEF AdvanceToBusy
  <1>4. /\ Members(t) = {} /\ Kind(t) \notin Throws \union (Gateways \ {"eventBased"})
        /\ Kind(t) \in Scopes => tokens[t].owned
        /\ tokens[t].owned => Kind(t) \in Scopes
    BY <1>1, TokenFacts DEF TokenFits, Moving, TokenShaped
  <1>5. /\ TokenStep(t, {}, 0) /\ EnvironmentStep /\ State(t)' = "BUSY"
        /\ Node(t)' = Node(t) /\ Kind(t)' = Kind(t) /\ Members(t)' = {}
        /\ tokens'[t].owned = tokens[t].owned /\ tokens'[t].link = tokens[t].link
    BY <1>1, <1>3, <1>4, StateSet DEF States
  <1>6. RegisterStep(t, {}) /\ t \notin waiting' /\ (Kind(t) \notin Signals => t \notin Range(listening'))
    <2>1. CASE Kind(t) \in Signals
      BY <1>1, <1>3, <1>5, <2>1, ListensToo
    <2>2. CASE Kind(t) \notin Signals
      <3>1. UNCHANGED registers
        BY <1>3, <2>2 DEF registers
      <3> QED
        BY <1>1, <3>1, RegistersKept
    <2> QED
      BY <2>1, <2>2
  <1>7. Underway(t)'
    BY <1>4, <1>5 DEF Underway, Gateways
  <1>8. Alternative(t)' => Kind(t) # "eventBased" /\ Alternative(t)
    BY <1>1, <1>5, AlternativeHead DEF Moving, Alternative
  <1>9. ASSUME NEW c, Enqueue(<<c>>), c.for = t, Kind(t) \notin Signals,
               c.name \in {"run", "advanceToDeparting", "advanceToCompleted"},
               TokenFits(c.name, t)', BoundaryFits(c)', AlternativeMoves(c)',
               Kind(t) \in Scopes => c.name = "run"
        PROVE  IInv' /\ EmptiedStay
    <2>1. ArgumentFits(c)'
      BY <1>9 DEF ArgumentFits
    <2>2. c.name \in {"advanceToBusy", "run"} /\ Kind(t)' \in Scopes =>
            \A d \in Rest : d.for = t => d.name \notin Failing
      BY <1>2, <1>5 DEF Compatible
    <2>3. NewFit(c, {}, {})
      BY <1>1, <1>5, <1>6, <1>9, <2>1, <2>2, GoesOn DEF Moving
    <2>4. QueueStep({}, {}, <<c>>) /\ Range(<<c>>) = {c} /\ NewFits({}, {}, <<c>>)
      BY <1>2, <1>9, <2>3, EnqueueOne
    <2> QED
      BY <1>1, <1>5, <1>6, <1>7, <1>9, <2>4, InPlaceKeeps DEF Moving
  <1>10. CASE Kind(t) \in Scopes
    <2> DEFINE c == With("run", t, None)
    <2>1. c.name = "run" /\ c.for = t
      BY DEF With
    <2>2. Enqueue(<<c>>)
      BY <1>10 DEF AdvanceToBusy, Scopes, Timers
    <2> HIDE DEF c
    <2>3. TokenFits(c.name, t)'
      BY <1>1, <1>3, <1>4, <1>5, <1>10, <2>1 DEF TokenFits
    <2>4. BoundaryFits(c)' /\ AlternativeMoves(c)'
      <3>1. Kind(t) \notin Boundaries /\ ~Alternative(t)
        BY <1>1, <1>10, AlternativeAt DEF Boundaries, Scopes
      <3> QED
        BY <1>5, <1>8, <2>1, <3>1 DEF BoundaryFits, AlternativeMoves
    <2> QED
      BY <1>9, <1>10, <2>1, <2>2, <2>3, <2>4 DEF Scopes, Signals
  <1>11. CASE Kind(t) = "eventBased"
    <2> DEFINE c == Command("advanceToDeparting", t)
    <2>1. c.name = "advanceToDeparting" /\ c.for = t
      BY DEF Command
    <2>2. Enqueue(<<c>>)
      BY <1>11 DEF AdvanceToBusy, Scopes, Timers
    <2> HIDE DEF c
    <2>3. TokenFits(c.name, t)'
      BY <1>4, <1>5, <1>11, <2>1 DEF TokenFits, Gateways, Scopes
    <2>4. BoundaryFits(c)' /\ AlternativeMoves(c)'
      BY <1>5, <1>8, <1>11, <2>1 DEF BoundaryFits, Boundaries, AlternativeMoves
    <2> QED
      BY <1>9, <1>11, <2>1, <2>2, <2>3, <2>4 DEF Scopes, Signals
  <1>12. CASE Kind(t) = "start" \/ (Kind(t) \in Timers /\ trigger[Node(t)] <= now)
    <2> DEFINE c == Command("advanceToCompleted", t)
    <2>1. c.name = "advanceToCompleted" /\ c.for = t
      BY DEF Command
    <2>2. Kind(t) \in {"start", "timerCatch", "timerBoundary"}
      BY <1>12 DEF Timers
    <2>3. Enqueue(<<c>>)
      BY <1>12 DEF AdvanceToBusy, Scopes, Timers
    <2> HIDE DEF c
    <2>4. TokenFits(c.name, t)'
      BY <1>4, <1>5, <2>1, <2>2 DEF TokenFits, CatchEvents, Boundaries
    <2>5. BoundaryFits(c)' /\ AlternativeMoves(c)'
      BY <1>5, <1>8, <2>1, <2>2 DEF BoundaryFits, AlternativeMoves
    <2> QED
      BY <1>9, <2>1, <2>2, <2>3, <2>4, <2>5 DEF Scopes, Signals
  <1>13. CASE /\ Kind(t) \notin Scopes /\ Kind(t) # "eventBased" /\ Kind(t) # "start"
              /\ ~(Kind(t) \in Timers /\ trigger[Node(t)] <= now)
    <2>1. Enqueue(<<>>)
      BY <1>13 DEF AdvanceToBusy
    <2>2. QueueStep({}, {}, <<>>) /\ NewFits({}, {}, <<>>) /\ Range(<<>>) = {}
      BY <1>2, <2>1, EnqueueNone
    <2> QED
      BY <1>1, <1>5, <1>6, <1>7, <2>2, InPlaceKeeps DEF Moving
  <1> QED
    BY <1>10, <1>11, <1>12, <1>13

LEMMA DoneKeeps ==
  ASSUME IInv, NEW t, HeadIs("advanceToDone", t), AdvanceToDone(t)
  PROVE  IInv' /\ EmptiedStay
  <1>1. /\ t \in Live /\ TokenFits("advanceToDone", t) /\ Free(t) /\ ~Rests(t)
        /\ t \notin Range(listening) /\ t \notin waiting
    BY HeadMoves DEF Main, Moving
  <1>2. /\ commands # <<>> /\ Head(commands).name = "advanceToDone" /\ Head(commands).for = t
        /\ \A d \in Rest : InOrder(Head(commands), d) /\ CommandOK(d) /\ d \in Queued
    BY HeadFits DEF HeadIs
  <1>3. /\ Set(t, "DONE") /\ UNCHANGED <<environment, created, aborted>> /\ UNCHANGED registers
    BY DEF AdvanceToDone
  <1>4. Members(t) = {}
    BY <1>1 DEF TokenFits, Moving
  <1>5. /\ TokenStep(t, {}, 0) /\ EnvironmentStep /\ State(t)' = "DONE" /\ Live' = Live
        /\ Node(t)' = Node(t) /\ Kind(t)' = Kind(t) /\ (\A u : Members(u)' = Members(u))
        /\ \A u \in Live : u # t => State(u)' = State(u)
    BY <1>1, <1>3, <1>4, StateSet DEF States
  <1>6. RegisterStep(t, {}) /\ t \notin Range(listening') /\ t \notin waiting'
    BY <1>1, <1>3, RegistersKept
  <1>7. Underway(t)'
    BY <1>5 DEF Underway
  <1>8. ASSUME NEW c, Enqueue(<<c>>), NewFit(c, {}, {}), c.name # "createMergedToken"
        PROVE  IInv' /\ EmptiedStay
    <2>1. QueueStep({}, {}, <<c>>) /\ Range(<<c>>) = {c} /\ NewFits({}, {}, <<c>>)
      BY <1>2, <1>8, EnqueueOne
    <2> QED
      BY <1>1, <1>5, <1>6, <1>7, <1>8, <2>1, InPlaceKeeps DEF Moving
  <1>9. CASE Enqueue(<<>>)
    <2>1. QueueStep({}, {}, <<>>) /\ NewFits({}, {}, <<>>) /\ Range(<<>>) = {}
      BY <1>2, <1>9, EnqueueNone
    <2> QED
      BY <1>1, <1>5, <1>6, <1>7, <2>1, InPlaceKeeps DEF Moving
  <1>10. CASE Kind(t) = "process"
    <2> DEFINE c == Command("deleteInstance", t)
    <2>1. c.name = "deleteInstance" /\ c.for = t
      BY DEF Command
    <2>2. Enqueue(<<c>>)
      BY <1>10 DEF AdvanceToDone
    <2> HIDE DEF c
    <2>3. CommandOK(c)'
      BY <1>1, <1>5, <1>10, <2>1 DEF CommandOK, TokenFits, ArgumentFits, BoundaryFits, Moving
    <2>4. NewFit(c, {}, {})
      BY <1>5, <2>1, <2>3, OthersFit
    <2> QED
      BY <1>8, <2>1, <2>2, <2>4
  <1>11. CASE Kind(t) # "process" /\ \A u \in Members(tokens[t].owner) \ {t} : State(u) = "DONE"
    <2>0. PICK s : s = tokens[t].owner
      OBVIOUS
    <2> DEFINE c == With("shutdown", s, None)
    <2>1. c.name = "shutdown" /\ c.for = s
      BY DEF With
    <2>2. Enqueue(<<c>>)
      BY <1>11, <2>0 DEF AdvanceToDone
    <2> HIDE DEF c
    <2>3. t \in Members(s) /\ s \in Live /\ s # t
      BY <1>1, <1>11, <2>0, TokenFacts DEF InScope, TokenShaped, Members
    <2>4. Kind(s) \in Scopes /\ State(s) \in {"BUSY", "FAILING"}
      BY <2>3, TokenFacts
    <2>5. ASSUME NEW u \in Members(s) PROVE Members(u) = {} /\ \A d \in Rest : d.name \in Main => d.for # u
      <3>1. CASE u = t
        BY <1>1, <1>4, <3>1 DEF Free
      <3>2. CASE u # t
        <4>1. State(u) = "DONE" /\ u \in Live
          BY <1>11, <2>0, <2>5, <3>2 DEF Members
        <4>2. Members(u) = {}
          BY <4>1, TokenFacts
        <4>3. Unmoved(u)
          BY <4>1 DEF IInv, DoneOK
        <4> QED
          BY <1>2, <4>2, <4>3 DEF Unmoved
      <3> QED
        BY <3>1, <3>2
    <2>6. Kind(s)' = Kind(s) /\ State(s)' = State(s) /\ s \in Live'
      BY <1>5, <2>3, TokensAfter DEF IInv
    <2>7. CommandOK(c)'
      <3>1. TokenFits("shutdown", s)'
        BY <1>5, <2>4, <2>5, <2>6 DEF TokenFits, Moving
      <3> QED
        BY <2>1, <2>6, <3>1 DEF CommandOK, ArgumentFits, BoundaryFits, Moving
    <2>8. s \notin Range(listening') /\ s \notin waiting' /\ State(s)' # "DONE" /\ ~Rests(s)
      <3>1. listening' = listening /\ waiting' = waiting
        BY <1>3 DEF registers
      <3>2. s \notin Range(listening) /\ s \notin waiting
        BY <2>4 DEF IInv, ListeningOK, WaitingOK, Scopes, Signals, Gateways
      <3> QED
        BY <2>4, <2>6, <3>1, <3>2 DEF Rests, Scopes
    <2>9. ASSUME NEW d \in Left({}, {})
          PROVE  Compatible(c, d)' /\ Compatible(d, c)' /\ InOrder(d, c)'
      <3>1. /\ d \in Rest /\ ~Alone(d)' /\ CommandOK(d)
            /\ d.name # "broadcastSignal" =>
                 d.for \in Live /\ tokens'[d.for].owner = tokens[d.for].owner
        BY <1>5, LeftFacts
      <3>2. d.name \in Main => d.name # "broadcastSignal"
        BY DEF Main, Moving
      <3>3. d.name \in Main => tokens'[d.for].owner # s
        BY <2>5, <3>1, <3>2 DEF Members
      <3>4. d.name \in Main => d.for # s
        <4>1. d.name \in Moving => d.for # s
          BY <2>3, <3>1, <3>2 DEF CommandOK, TokenFits, Main
        <4>2. d.name = "shutdown" => d.for # s
          BY <1>2, <2>0, <3>1 DEF InOrder, Main, Moving
        <4> QED
          BY <4>1, <4>2 DEF Main
      <3>5. ~Alone(c)'
        BY <2>1 DEF Alone
      <3>6. Compatible(c, d)' /\ Compatible(d, c)'
        BY <2>1 DEF Compatible, Failing
      <3>7. InOrder(d, c)'
        BY <2>1, <3>1, <3>3, <3>4, <3>5 DEF InOrder, Moving
      <3> QED
        BY <3>6, <3>7
    <2>10. AlternativeMoves(c)'
      BY <2>1 DEF AlternativeMoves, Moving
    <2>11. NewFit(c, {}, {})
      BY <2>1, <2>7, <2>8, <2>9, <2>10 DEF NewFit
    <2> QED
      BY <1>8, <2>1, <2>2, <2>11
  <1> QED
    BY <1>9, <1>10, <1>11 DEF AdvanceToDone

-----------------------------------------------------------------------------
\* A token that no command behind the head advances is changed where it is.
LEMMA FreeKeeps ==
  ASSUME IInv, NEW t \in Live, Free(t), ~Rests(t), commands # <<>>,
         Head(commands).name \notin {"handleEventBasedGatewayActivation", "createMergedToken"},
         Head(commands).name \in Moving => Head(commands).for = t,
         TokenStep(t, {}, 0), EnvironmentStep, RegisterStep(t, {}), t \notin Range(listening'),
         Node(t)' = Node(t), Kind(t)' = Kind(t), State(t)' # "READY",
         State(t)' = "DEPARTED" /\ Alternative(t) => Node(t) = Node(tokens[t].link),
         NEW shut, NEW new, QueueStep({}, shut, new), NewFits({}, shut, new),
         \A c \in Range(new) : c.name # "createMergedToken",
         ~aborted => Underway(t)'
  PROVE  IInv' /\ EmptiedStay
  <1>1. LeftFits(t, {}, shut) /\ RestsAfter(t, {}, shut)
    BY LeftFitsFree
  <1>2. AlternativesStep(t, {}, 0)
    BY MovesAside
  <1>3. UnderwayStep(t, {}, 0)
    <2>1. (created + 1)..(created + 0) = {}
      BY TokenFacts
    <2> QED
      BY <2>1 DEF UnderwayStep
  <1>4. StepOK(t, {}, 0, shut, new)
    BY <1>1, <1>2, <1>3 DEF StepOK
  <1>5. ~InclusiveMerge(Head(commands))
    BY DEF InclusiveMerge
  <1> QED
    BY <1>4, <1>5, PlainStepKeeps

\* A token that fails where it is.
LEMMA FailsInPlace ==
  ASSUME IInv, NEW t \in Live, NEW name \in {"advanceToFailed", "updateFailed"}, HeadIs(name, t),
         NEW st \in {"FAILED", "FAILING"}, Set(t, st), Members(t) # {} => st = "FAILING",
         UNCHANGED <<environment, created, aborted>>, UNCHANGED registers,
         NEW new, QueueStep({}, {}, new), NewFits({}, {}, new),
         \A c \in Range(new) : c.name # "createMergedToken"
  PROVE  IInv' /\ EmptiedStay
  <1>1. /\ commands # <<>> /\ Head(commands).name = name /\ Head(commands).for = t
        /\ CommandOK(Head(commands))
        /\ \A d \in Rest : /\ InOrder(Head(commands), d) /\ Compatible(d, Head(commands))
                           /\ CommandOK(d)
    BY HeadFits DEF HeadIs
  <1>2. TokenFits(name, t)
    BY <1>1 DEF CommandOK
  <1>3. Kind(t) \notin Gateways /\ t \notin Range(listening) /\ t \notin waiting
    BY <1>2 DEF TokenFits, IInv, ListeningOK, WaitingOK, Scopes, Signals, Gateways
  <1>4. ASSUME NEW d \in Rest, d.for = t
        PROVE  d.name \notin {"advanceToReady", "run", "advanceToDeparting",
                              "handleDivergingGateway"}
    <2>1. d.name # "advanceToReady"
      BY <1>1 DEF InOrder, Alone
    <2>2. d.name \in {"run", "advanceToDeparting", "handleDivergingGateway"} => TokenFits(d.name, t)
      BY <1>1, <1>4 DEF CommandOK
    <2>3. d.name # "run"
      BY <1>1, <1>4, <2>2 DEF TokenFits, Compatible, Failing
    <2>4. d.name \notin {"advanceToDeparting", "handleDivergingGateway"}
      BY <1>3, <2>2 DEF TokenFits, Gateways
    <2> QED
      BY <2>1, <2>3, <2>4
  <1>5. /\ TokenStep(t, {}, 0) /\ EnvironmentStep /\ State(t)' = st
        /\ Node(t)' = Node(t) /\ Kind(t)' = Kind(t)
        /\ tokens'[t].owned = tokens[t].owned
        /\ tokens'[t].link = tokens[t].link /\ tokens'[t].flow = tokens[t].flow
    BY StateSet DEF States
  <1>6. RegisterStep(t, {}) /\ t \notin Range(listening') /\ t \notin waiting'
    BY <1>3, RegistersKept
  <1>7. Head(commands).name \notin Moving \union
          {"handleEventBasedGatewayActivation", "createMergedToken"}
    BY <1>1 DEF Moving
  <1>8. LeftFits(t, {}, {})
    BY <1>1, <1>4, <1>5, <1>6, <1>7, LeftFitsFailing
  <1>9. RestsAfter(t, {}, {})
    BY <1>5, <1>6 DEF RestsAfter
  <1>10. AlternativesStep(t, {}, 0)
    BY <1>1, <1>3, <1>5, <1>7, MovesAside DEF Rests, Gateways
  <1>11. UnderwayStep(t, {}, 0)
    <2>1. (created + 1)..(created + 0) = {}
      BY TokenFacts
    <2>2. Underway(t)'
      BY <1>3, <1>5 DEF Underway, Gateways
    <2> QED
      BY <1>7, <2>1, <2>2 DEF UnderwayStep
  <1>12. StepOK(t, {}, 0, {}, new)
    BY <1>5, <1>6, <1>8, <1>9, <1>10, <1>11 DEF StepOK
  <1> QED
    BY <1>7, <1>12, PlainStepKeeps DEF InclusiveMerge

LEMMA UpdateFailedKeeps ==
  ASSUME IInv, NEW t, HeadIs("updateFailed", t), UpdateFailed(t)
  PROVE  IInv' /\ EmptiedStay
  <1>1. /\ commands # <<>> /\ t \in Live /\ TokenFits("updateFailed", t)
    BY HeadFits DEF HeadIs, CommandOK
  <1>2. Members(t) = {}
    BY <1>1 DEF TokenFits
  <1>3. /\ Set(t, "FAILED") /\ Enqueue(<<>>) /\ UNCHANGED <<environment, created, aborted>>
        /\ UNCHANGED registers
    BY DEF UpdateFailed
  <1>4. QueueStep({}, {}, <<>>) /\ NewFits({}, {}, <<>>) /\ Range(<<>>) = {}
    BY <1>1, <1>3, EnqueueNone
  <1> QED
    BY <1>1, <1>2, <1>3, <1>4, FailsInPlace

LEMMA FailedKeeps ==
  ASSUME IInv, NEW t, HeadIs("advanceToFailed", t), AdvanceToFailed(t)
  PROVE  IInv' /\ EmptiedStay
  <1>1. /\ commands # <<>> /\ t \in Live /\ TokenFits("advanceToFailed", t)
        /\ Head(commands).name = "advanceToFailed" /\ Head(commands).for = t
    BY HeadFits DEF HeadIs, CommandOK
  <1>2. UNCHANGED <<environment, created, aborted>> /\ UNCHANGED registers
    BY DEF AdvanceToFailed
  <1>3. ASSUME NEW st \in {"FAILED", "FAILING"}, Set(t, st), Members(t) # {} => st = "FAILING",
               NEW c, Enqueue(<<c>>), c.for = t, c.name \in {"terminate", "handleFailure"}
        PROVE  IInv' /\ EmptiedStay
    <2>1. /\ TokenStep(t, {}, 0) /\ State(t)' = st /\ Live' = Live /\ Kind(t)' = Kind(t)
      BY <1>1, <1>2, <1>3, StateSet DEF States
    <2>2. CommandOK(c)'
      BY <1>1, <1>3, <2>1 DEF CommandOK, TokenFits, ArgumentFits, BoundaryFits, Moving
    <2>3. NewFit(c, {}, {})
      BY <1>1, <1>3, <2>1, <2>2, FailureGoesOn DEF Failing
    <2>4. QueueStep({}, {}, <<c>>) /\ Range(<<c>>) = {c} /\ NewFits({}, {}, <<c>>)
      BY <1>1, <1>3, <2>3, EnqueueOne
    <2> QED
      BY <1>1, <1>2, <1>3, <2>4, FailsInPlace
  <1>4. CASE Kind(t) \in Scopes /\ tokens[t].owned /\ (Members(t) # {} \/ State(t) = "COMPLETED")
    <2>1. Set(t, "FAILING") /\ Enqueue(<<Command("terminate", t)>>)
      BY <1>4 DEF AdvanceToFailed
    <2> QED
      BY <1>3, <2>1 DEF Command
  <1>5. CASE ~(Kind(t) \in Scopes /\ tokens[t].owned /\ (Members(t) # {} \/ State(t) = "COMPLETED"))
    <2>1. Set(t, "FAILED") /\ Enqueue(<<Command("handleFailure", t)>>)
      BY <1>5 DEF AdvanceToFailed
    <2>2. Members(t) = {}
      BY <1>1, <1>5, TokenFacts
    <2> QED
      BY <1>3, <2>1, <2>2 DEF Command
  <1> QED
    BY <1>4, <1>5

\* The failure of a token that nothing catches.
LEMMA UncaughtKeeps ==
  ASSUME IInv, NEW t, HeadIs("handleFailure", t),
         Enqueue(IF Kind(t) = "process" THEN <<Command("deleteInstance", t)>>
                 ELSE <<Command("advanceToFailed", tokens[t].owner)>>),
         UNCHANGED <<environment, created, tokens, registers, aborted>>
  PROVE  IInv' /\ EmptiedStay
  <1>1. /\ commands # <<>> /\ t \in Live
        /\ Head(commands).name = "handleFailure" /\ Head(commands).for = t
        /\ \A d \in Rest : CommandOK(d)
    BY HeadFits DEF HeadIs, CommandOK
  <1>2. /\ UNCHANGED <<environment, aborted>> /\ UNCHANGED registers
        /\ UNCHANGED <<model, created, tokens>>
    BY DEF environment
  <1>3. Head(commands).name \notin Moving \union
          {"handleEventBasedGatewayActivation", "createMergedToken"}
    BY <1>1 DEF Moving
  <1>4. /\ TokenStep(None, {}, 0) /\ None \notin Live /\ Live' = Live
        /\ (\A u \in Live : State(u)' = State(u) /\ Kind(u)' = Kind(u))
        /\ LeftFits(None, {}, {}) /\ RestsAfter(None, {}, {})
        /\ AlternativesStep(None, {}, 0) /\ UnderwayStep(None, {}, 0)
    BY <1>2, <1>3, NothingTouched
  <1>5. RegisterStep(None, {}) /\ EnvironmentStep
    BY <1>2, <1>4, RegistersKept, EnvironmentKept DEF IInv, Typed
  <1>6. ASSUME NEW c, Enqueue(<<c>>), NewFit(c, {}, {}), c.name # "createMergedToken"
        PROVE  IInv' /\ EmptiedStay
    <2>1. QueueStep({}, {}, <<c>>) /\ Range(<<c>>) = {c} /\ NewFits({}, {}, <<c>>)
      BY <1>1, <1>6, EnqueueOne
    <2>2. StepOK(None, {}, 0, {}, <<c>>)
      BY <1>4, <1>5, <2>1 DEF StepOK
    <2> QED
      BY <1>3, <1>6, <2>1, <2>2, PlainStepKeeps DEF InclusiveMerge
  <1>7. CASE Kind(t) = "process"
    <2> DEFINE c == Command("deleteInstance", t)
    <2>1. c.name = "deleteInstance" /\ c.for = t
      BY DEF Command
    <2>2. Enqueue(<<c>>)
      BY <1>7
    <2> HIDE DEF c
    <2>3. CommandOK(c)'
      BY <1>1, <1>4, <1>7, <2>1 DEF CommandOK, TokenFits, ArgumentFits, BoundaryFits, Moving
    <2>4. NewFit(c, {}, {})
      BY <1>4, <2>1, <2>3, OthersFit
    <2> QED
      BY <1>6, <2>1, <2>2, <2>4
  <1>8. CASE Kind(t) # "process"
    <2>0. PICK s : s = tokens[t].owner
      OBVIOUS
    <2>1. Enqueue(<<Command("advanceToFailed", s)>>)
      BY <1>8, <2>0
    <2>2. s \in Live /\ t \in Members(s)
      BY <1>1, <1>8, <2>0, TokenFacts DEF InScope, Members
    <2>3. Kind(s) \in Scopes
      BY <2>2, TokenFacts
    <2>4. \A d \in Rest : d.name \in Moving => d.for # s
      BY <1>1, <2>2 DEF CommandOK, TokenFits, Moving
    <2>5. s \notin Range(listening') /\ Kind(s)' \notin Gateways
      <3>1. listening' = listening
        BY <1>2 DEF registers
      <3> QED
        BY <1>4, <2>2, <2>3, <3>1 DEF IInv, ListeningOK, Scopes, Signals, Gateways
    <2>6. NewFit(Command("advanceToFailed", s), {}, {})
      BY <1>4, <2>2, <2>4, <2>5, FailsNext
    <2> QED
      BY <1>6, <2>1, <2>6 DEF Command
  <1> QED
    BY <1>7, <1>8

-----------------------------------------------------------------------------
\* The commands by which a token departs.
LEMMA Departs ==
  ASSUME IInv, NEW t \in Live, NEW q \in Departure(t)
  PROVE  \E c : /\ q = <<c>> /\ c.for = t
                /\ c.name \in {"advanceToDone", "advanceToDeparted", "handleDivergingGateway"}
                /\ c.name = "advanceToDeparted" => IsFlow(c.arg) /\ c.arg[1] = Node(t)
                /\ c.name = "handleDivergingGateway" => Kind(t) \in Gateways
  <1> DEFINE n == Node(t)
             out == Outgoing(n)
  <1>1. n \in Nodes /\ out \in Seq(Nodes) /\ (Len(out) > 1 => Kind(t) \in Gateways)
    BY TokenFacts, ModelFits DEF IsModel, GatewaysFit, Nodes, Outgoing, Kind
  <1>2. CASE out = <<>>
    <2>1. q = <<Command("advanceToDone", t)>>
      BY <1>2 DEF Departure
    <2> QED
      BY <2>1 DEF Command
  <1>3. CASE out # <<>> /\ (Len(out) = 1 \/ Kind(t) = "exclusive")
    <2>1. PICK target \in Range(out) : q = <<With("advanceToDeparted", t, <<n, target>>)>>
      BY <1>3 DEF Departure
    <2>2. IsFlow(<<n, target>>)
      BY <1>1, <2>1 DEF IsFlow, FlowsFrom, Outgoing
    <2> DEFINE c == With("advanceToDeparted", t, <<n, target>>)
    <2>3. c.name = "advanceToDeparted" /\ c.for = t /\ c.arg = <<n, target>>
      BY DEF With
    <2> HIDE DEF c
    <2>4. c.arg[1] = Node(t)
      BY <2>3
    <2> QED
      BY <2>1, <2>2, <2>3, <2>4 DEF c
  <1>4. CASE out # <<>> /\ ~(Len(out) = 1 \/ Kind(t) = "exclusive")
    <2>1. q = <<Command("handleDivergingGateway", t)>>
      BY <1>4 DEF Departure
    <2>2. Len(out) > 1
      <3>1. PICK l : l = Len(out)
        OBVIOUS
      <3>2. l \in Nat /\ l # 0 /\ l # 1
        BY <1>1, <1>4, <3>1
      <3>3. l > 1
        BY <3>2
      <3> QED
        BY <3>1, <3>3
    <2> QED
      BY <1>1, <2>1, <2>2 DEF Command
  <1> QED
    BY <1>2, <1>3, <1>4

LEMMA QueueOver ==
  ASSUME NEW q, IsQueue(q), NEW X, Range(q) \subseteq X
  PROVE  q \in Seq(X)
  BY DEF IsQueue

LEMMA JoinedTwice ==
  ASSUME NEW q, IsQueue(q), NEW a, IsQueue(a), NEW b, IsQueue(b)
  PROVE  q \o a \o b = q \o (a \o b)
  <1>1. PICK X : Range(q) \subseteq X /\ Range(a) \subseteq X /\ Range(b) \subseteq X
    <2>1. PICK Y : Y = Range(q) \union Range(a) \union Range(b)
      OBVIOUS
    <2> QED
      BY <2>1
  <1>2. q \in Seq(X) /\ a \in Seq(X) /\ b \in Seq(X)
    BY <1>1, QueueOver
  <1>3. ASSUME NEW x \in Seq(X), NEW y \in Seq(X), NEW z \in Seq(X)
        PROVE  x \o y \o z = x \o (y \o z)
    BY <1>3, ConcatAssociative
  <1> QED
    BY <1>2, <1>3, Zenon

\* A queue with two others behind it, of which the first may be empty.
LEMMA EnqueueBoth ==
  ASSUME IInv, commands # <<>>, NEW a, IsQueue(a), NEW b, IsQueue(b),
         NEW gone, NEW shut,
         commands' = Purged(Tail(commands), gone, shut) \o a \o b \/
           (gone = {} /\ shut = {} /\ commands' = Tail(commands) \o a \o b)
  PROVE  QueueStep(gone, shut, a \o b)
  <1>1. IsQueue(commands) /\ IsQueue(Tail(commands)) /\ IsQueue(a \o b)
    BY TailOrder, JoinedOrder DEF IInv, Typed
  <1>2. ASSUME NEW q, IsQueue(q) PROVE q \o a \o b = q \o (a \o b)
    BY <1>2, JoinedTwice
  <1>3. CASE commands' = Purged(Tail(commands), gone, shut) \o a \o b
    <2> DEFINE q == Tail(commands)
               keep == {c \in Range(q) : Stays(c, gone, shut)}
               places == {i \in DOMAIN q : q[i] \in keep}
    <2>1. places =
            {i \in DOMAIN q : q[i].for \notin gone /\ ~(q[i].name \in ByScope /\ q[i].for \in shut)}
      BY DEF Stays, Range
    <2>2. Purged(q, gone, shut) = Kept(q, places)
      BY <2>1 DEF Purged
    <2>3. \A i : i \in places <=> i \in DOMAIN q /\ q[i] \in keep
      OBVIOUS
    <2>4. IsQueue(q)
      BY <1>1
    <2> HIDE DEF q, keep, places
    <2>5. IsQueue(Kept(q, places))
      BY <2>3, <2>4, KeptOrder
    <2>6. commands' = Purged(Tail(commands), gone, shut) \o (a \o b)
      BY <1>2, <1>3, <2>2, <2>5 DEF q
    <2> QED
      BY <1>1, <2>6, CommandsLapse
  <1>4. CASE gone = {} /\ shut = {} /\ commands' = Tail(commands) \o a \o b
    <2>1. commands' = Tail(commands) \o (a \o b)
      BY <1>1, <1>2, <1>4
    <2> QED
      BY <1>1, <1>4, <2>1, CommandsEnqueued
  <1> QED
    BY <1>3, <1>4

LEMMA DepartingKeeps ==
  ASSUME IInv, NEW t, HeadIs("advanceToDeparting", t), AdvanceToDeparting(t)
  PROVE  IInv' /\ EmptiedStay
  <1>1. /\ t \in Live /\ TokenFits("advanceToDeparting", t) /\ Free(t) /\ ~Rests(t)
        /\ t \notin Range(listening) /\ t \notin waiting
    BY HeadMoves DEF Main, Moving
  <1>2. commands # <<>> /\ AlternativeMoves(Head(commands))
    BY HeadFits DEF HeadIs
  <1>3. /\ tokens' = tokens /\ UNCHANGED <<environment, created, aborted>> /\ UNCHANGED registers
        /\ \E cmds \in IF Outgoing(Node(t)) = <<>> THEN {<<>>} ELSE Departure(t) : Enqueue(cmds)
    BY DEF AdvanceToDeparting
  <1>4. /\ Members(t) = {} /\ ~tokens[t].owned /\ Kind(t) = "eventBased" /\ State(t) = "BUSY"
    BY <1>1 DEF TokenFits, Moving
  <1>5. TokenShaped(t) /\ created \in Nat /\ created <= MaxTokens
    BY <1>1, TokenFacts, FlowAssumption DEF IInv, Typed, Ids
  <1>6. /\ tokens' = tokens /\ created' = created
        /\ Live' = Live /\ Nodes' = Nodes /\ model' = model
        /\ State(t)' = "BUSY" /\ Node(t)' = Node(t) /\ Kind(t)' = Kind(t) /\ Members(t)' = {}
    BY <1>3, <1>4 DEF environment, Live, Nodes, State, Node, Kind, Members
  <1>7. TokenStep(t, {}, 0)
    <2>1. TokenShaped(t)'
      BY <1>5, <1>6 DEF TokenShaped, State, Kind, Node
    <2>2. Touched(t, {})
      BY <1>4, <1>6, <2>1 DEF Touched
    <2>3. (created + 1)..(created + 0) = {}
      BY <1>5
    <2> QED
      BY <1>5, <1>6, <2>2, <2>3 DEF TokenStep
  <1>8. EnvironmentStep
    BY <1>3, EnvironmentKept
  <1>9. RegisterStep(t, {}) /\ t \notin Range(listening') /\ t \notin waiting'
    BY <1>1, <1>3, RegistersKept
  <1>10. Underway(t)'
    BY <1>4, <1>6 DEF Underway
  <1>11. ASSUME NEW new, QueueStep({}, {}, new), NewFits({}, {}, new),
                \A c \in Range(new) : c.name # "createMergedToken"
         PROVE  IInv' /\ EmptiedStay
    BY <1>1, <1>6, <1>7, <1>8, <1>9, <1>10, <1>11, InPlaceKeeps DEF Moving
  <1>12. CASE Enqueue(<<>>)
    <2>1. QueueStep({}, {}, <<>>) /\ NewFits({}, {}, <<>>) /\ Range(<<>>) = {}
      BY <1>2, <1>12, EnqueueNone
    <2> QED
      BY <1>11, <2>1
  <1>13. ASSUME NEW q \in Departure(t), Enqueue(q) PROVE IInv' /\ EmptiedStay
    <2>1. PICK c : /\ q = <<c>> /\ c.for = t
                   /\ c.name \in {"advanceToDone", "advanceToDeparted", "handleDivergingGateway"}
                   /\ c.name = "advanceToDeparted" => IsFlow(c.arg) /\ c.arg[1] = Node(t)
      BY <1>1, <1>13, Departs
    <2>2. QueueStep({}, {}, <<c>>) /\ Range(<<c>>) = {c}
      BY <1>2, <1>13, <2>1, EnqueueOne
    <2>3. NewFit(c, {}, {})
      <3>1. TokenFits(c.name, t)'
        BY <1>4, <1>6, <2>1 DEF TokenFits, Gateways, Scopes
      <3>2. ArgumentFits(c)'
        BY <1>6, <2>1 DEF ArgumentFits, IsFlow, FlowsFrom
      <3>3. BoundaryFits(c)'
        BY <1>4, <1>6, <2>1 DEF BoundaryFits, Boundaries
      <3>4. AlternativeMoves(c)'
        <4>1. ~Alternative(t)
          BY <1>1, <1>4, AlternativeHead DEF Moving
        <4> QED
          BY <1>6, <2>1, <4>1 DEF AlternativeMoves, Alternative
      <3> QED
        BY <1>1, <1>6, <1>7, <1>9, <2>1, <3>1, <3>2, <3>3, <3>4, GoesOn DEF Moving
    <2>4. NewFits({}, {}, <<c>>)
      BY <1>2, <1>13, <2>1, <2>3, EnqueueOne
    <2> QED
      BY <1>11, <2>1, <2>2, <2>4
  <1> QED
    BY <1>3, <1>12, <1>13

\* A command enqueued, with another one before it or not.
LEMMA PairFits ==
  ASSUME NEW gone, NEW shut, NEW a, NEW b, NEW c,
         a = <<>> \/ a = <<b>>, QueueStep(gone, shut, a \o <<c>>), NewFit(c, gone, shut),
         a = <<b>> =>
           NewFit(b, gone, shut) /\ Compatible(b, c)' /\ Compatible(c, b)' /\ InOrder(b, c)'
  PROVE  /\ NewFits(gone, shut, a \o <<c>>) /\ c \in Queued'
         /\ Range(a \o <<c>>) \subseteq {b, c}
         /\ a = <<>> => Range(a \o <<c>>) = {c}
  <1>1. CASE a = <<>>
    <2>1. <<>> \o <<c>> = <<c>>
      <3>1. <<c>> \in Seq({c})
        OBVIOUS
      <3> QED
        BY <3>1, ConcatEmptySeq
    <2>2. QueueStep(gone, shut, <<c>>) /\ Range(<<c>>) = {c}
      BY <1>1, <2>1, OneQueued
    <2>3. NewFits(gone, shut, <<c>>)
      BY <2>2, OneNew
    <2> QED
      BY <1>1, <2>1, <2>2, <2>3 DEF QueueStep
  <1>2. CASE a = <<b>>
    <2>1. a # <<>> /\ a \o <<c>> = <<b, c>>
      BY <1>2, TwoQueued
    <2>2. QueueStep(gone, shut, <<b, c>>) /\ Range(<<b, c>>) = {b, c}
      BY <2>1, TwoQueued
    <2>3. NewFits(gone, shut, <<b, c>>)
      BY <1>2, <2>2, TwoNew
    <2> QED
      BY <2>1, <2>2, <2>3 DEF QueueStep
  <1> QED
    BY <1>1, <1>2

LEMMA FitsBehind ==
  ASSUME NEW gone, NEW shut, NEW a, NEW b, NEW c,
         a = <<>> \/ a = <<b>>, QueueStep(gone, shut, a \o <<c>>),
         NewFit(c, gone, shut),
         a = <<b>> => NewFit(b, gone, shut) /\ b.name \notin Main \union Failing,
         c.name \in Moving \ {"advanceToReady", "advanceToEntered", "advanceToBusy", "run"}
  PROVE  /\ NewFits(gone, shut, a \o <<c>>) /\ c \in Queued'
         /\ Range(a \o <<c>>) \subseteq {b, c}
         /\ a = <<>> => Range(a \o <<c>>) = {c}
  <1>1. ASSUME b.name \notin Main \union Failing
        PROVE  Compatible(b, c)' /\ Compatible(c, b)' /\ InOrder(b, c)'
    <2>1. Compatible(b, c)' /\ Compatible(c, b)'
      BY <1>1 DEF Compatible, Main, Moving, Failing
    <2>2. InOrder(b, c)'
      BY <1>1 DEF InOrder, Alone, Main, Moving, Failing
    <2> QED
      BY <2>1, <2>2
  <1>2. a = <<b>> =>
          NewFit(b, gone, shut) /\ Compatible(b, c)' /\ Compatible(c, b)' /\ InOrder(b, c)'
    BY <1>1
  <1> QED
    BY <1>2, PairFits

-----------------------------------------------------------------------------
\* A token completed, by a command or by the failure it catches.
LEMMA CompletedKeeps ==
  ASSUME IInv, NEW t \in Live, Free(t), ~Rests(t), commands # <<>>,
         Head(commands).name \in {"advanceToCompleted", "handleFailure"},
         Head(commands).name = "advanceToCompleted" => Head(commands).for = t,
         t \notin Range(listening), t \notin waiting,
         TokenFits("advanceToCompleted", t),
         AdvanceToCompleted(t, Tail(commands))
  PROVE  IInv' /\ EmptiedStay
  <1>1. Members(t) = {} /\ Kind(t) \in CatchEvents \union ActivityKinds \union {"process"}
    BY DEF TokenFits, Moving
  <1>2. /\ tokens[t] \in Records /\ (tokens[t].owned => Kind(t) \in Scopes) /\ TokenShaped(t)
        /\ t # None /\ Node(t) \in Nodes
    BY TokenFacts DEF TokenShaped
  <1>3. Kind(t) \notin Gateways
    BY <1>1 DEF CatchEvents, Boundaries, ActivityKinds, Gateways
  <1>4. /\ Head(commands).name \notin {"handleEventBasedGatewayActivation", "createMergedToken"}
        /\ Head(commands).name \in Moving => Head(commands).for = t
    BY DEF Moving
  <1>5. ASSUME CompletedInfeasibly(t, Tail(commands)) PROVE IInv' /\ EmptiedStay
    <2> DEFINE c == Command("advanceToFailed", t)
    <2>1. /\ Set(t, "COMPLETED") /\ UNCHANGED <<environment, created, aborted>>
          /\ UNCHANGED registers /\ Enqueue(<<c>>)
      BY <1>5 DEF CompletedInfeasibly, Fails, Enqueue
    <2>2. c.name = "advanceToFailed"
      BY DEF Command
    <2>3. /\ TokenStep(t, {}, 0) /\ EnvironmentStep /\ State(t)' = "COMPLETED"
          /\ Node(t)' = Node(t) /\ Kind(t)' = Kind(t)
      BY <1>1, <2>1, StateSet DEF States
    <2>4. RegisterStep(t, {}) /\ t \notin Range(listening') /\ t \notin waiting'
      BY <2>1, RegistersKept
    <2>5. NewFit(c, {}, {})
      BY <1>3, <2>3, <2>4, FailsNext DEF Free, Main
    <2> HIDE DEF c
    <2>6. QueueStep({}, {}, <<c>>) /\ Range(<<c>>) = {c} /\ NewFits({}, {}, <<c>>)
      BY <2>1, <2>5, EnqueueOne
    <2>7. Underway(t)'
      BY <1>3, <2>3 DEF Underway, Gateways
    <2> QED
      BY <1>4, <2>2, <2>3, <2>4, <2>6, <2>7, FreeKeeps
  <1>6. ASSUME CompletedFeasibly(t, Tail(commands)), ~Dangling(t) PROVE IInv' /\ EmptiedStay
    <2> DEFINE r == [tokens[t] EXCEPT !.state = "COMPLETED",
                                      !.link = IF Kind(t) \in Boundaries THEN None ELSE tokens[t].link]
               onwards == CASE Kind(t) \in ActivityKinds -> {<<Command("advanceFromCompleted", t)>>}
                            [] Kind(t) = "process" -> {<<Command("advanceToDone", t)>>}
                            [] OTHER -> Departure(t)
    <2>1. /\ tokens' = [tokens EXCEPT ![t] = r]
          /\ UNCHANGED <<environment, created, aborted>> /\ UNCHANGED registers
          /\ \E onward \in onwards : commands' = Tail(commands) \o Consequence(t) \o onward
      BY <1>6 DEF CompletedFeasibly
    <2>2. PICK onward \in onwards : commands' = Tail(commands) \o Consequence(t) \o onward
      BY <2>1
    <2>3. PICK c : /\ onward = <<c>> /\ c.for = t
                   /\ c.name \in {"advanceToDone", "advanceToDeparted", "advanceFromCompleted"}
                   /\ c.name = "advanceFromCompleted" => Kind(t) \in ActivityKinds
                   /\ c.name = "advanceToDeparted" =>
                        Kind(t) \in CatchEvents /\ IsFlow(c.arg) /\ c.arg[1] = Node(t)
      <3>1. CASE Kind(t) \in ActivityKinds
        <4>1. onward = <<Command("advanceFromCompleted", t)>>
          BY <3>1 DEF ActivityKinds
        <4> QED
          BY <3>1, <4>1 DEF Command
      <3>2. CASE Kind(t) = "process"
        <4>1. onward = <<Command("advanceToDone", t)>>
          BY <3>2 DEF ActivityKinds
        <4> QED
          BY <4>1 DEF Command
      <3>3. CASE Kind(t) \notin ActivityKinds /\ Kind(t) # "process"
        <4>1. onward \in Departure(t)
          BY <3>3
        <4>2. Kind(t) \in CatchEvents
          BY <1>1, <3>3
        <4> HIDE DEF onwards, r
        <4> QED
          BY <1>3, <4>1, <4>2, Departs
      <3> QED
        BY <3>1, <3>2, <3>3
    <2>4. /\ r \in Records /\ r.node = tokens[t].node /\ r.owner = tokens[t].owner
          /\ r.link = (IF Kind(t) \in Boundaries THEN None ELSE tokens[t].link)
          /\ r.owned = tokens[t].owned /\ r.state = "COMPLETED"
      <3>1. tokens[t].link \in 0..created /\ None \in 0..created
        BY <1>2, TokenFacts DEF Records, None
      <3> QED
        BY <1>2, <3>1 DEF Records, States
    <2>5. UNCHANGED <<model, created>>
      BY <2>1 DEF environment
    <2> HIDE DEF r, onwards
    <2>6. /\ TokenStep(t, {}, 0) /\ Live' = Live /\ Nodes' = Nodes /\ model' = model
          /\ tokens'[t] = r /\ State(t)' = "COMPLETED" /\ Members(t)' = {}
          /\ \A u \in Live : Node(u)' = Node(u) /\ Kind(u)' = Kind(u)
      <3>1. t \in Live /\ Members(t) = {} /\ (r.owned => Kind(t) \in Scopes)
        BY <1>1, <1>2, <2>4, TokenFacts DEF TokenShaped
      <3>2. tokens' = [tokens EXCEPT ![t] = r]
        BY <2>1
      <3> QED
        BY <2>4, <2>5, <3>1, <3>2, TokenChanged
    <2>7. EnvironmentStep
      BY <2>1, EnvironmentKept
    <2>8. RegisterStep(t, {}) /\ t \notin Range(listening') /\ t \notin waiting'
      BY <2>1, RegistersKept
    <2>9. PICK b : /\ Consequence(t) = <<>> \/ Consequence(t) = <<b>>
                   /\ Consequence(t) = <<b>> =>
                        /\ NewFit(b, {}, {})
                        /\ b.name \in {"interruptActivity", "initiateBoundaryEvent",
                                       "handleEventBasedGatewayActivation"}
                   /\ tokens'[t].link # None =>
                        /\ Consequence(t) = <<b>>
                        /\ b.name = "handleEventBasedGatewayActivation" /\ b.for = t
      <3>0. PICK a : a = tokens[t].link
        OBVIOUS
      <3>1. CASE Kind(t) \in Boundaries /\ Node(t) \in model.interrupting
        <4> DEFINE b == Command("interruptActivity", a)
        <4>1. b.name = "interruptActivity" /\ b.for = a
          BY DEF Command
        <4>2. a \in Live
          BY <1>6, <3>0, <3>1 DEF Dangling
        <4>3. Consequence(t) = <<b>>
          BY <3>0, <3>1 DEF Consequence
        <4> HIDE DEF b
        <4>4. CommandOK(b)'
          BY <2>6, <4>1, <4>2 DEF CommandOK, TokenFits, ArgumentFits, BoundaryFits, Moving
        <4>5. NewFit(b, {}, {})
          BY <2>6, <4>1, <4>4, OthersFit
        <4>6. tokens'[t].link = None
          BY <2>4, <2>6, <3>1
        <4> QED
          BY <4>1, <4>3, <4>5, <4>6
      <3>2. CASE Kind(t) \in Boundaries /\ Node(t) \notin model.interrupting
        <4>0. PICK n : n = Node(t)
          OBVIOUS
        <4> DEFINE b == With("initiateBoundaryEvent", a, n)
        <4>1. b.name = "initiateBoundaryEvent" /\ b.for = a /\ b.arg = n
          BY DEF With
        <4>2. a \in Live /\ Kind(a) # "process"
          BY <1>2, <1>6, <3>0, <3>2 DEF Dangling, TokenShaped
        <4>3. Consequence(t) = <<b>>
          BY <3>0, <3>2, <4>0 DEF Consequence
        <4>4. n \in Nodes \ model.interrupting /\ model.kind[n] \in Boundaries
          BY <1>2, <3>2, <4>0 DEF Kind
        <4> HIDE DEF b
        <4>5. CommandOK(b)'
          <5>1. TokenFits(b.name, a)'
            BY <2>6, <4>1, <4>2 DEF TokenFits, Moving
          <5>2. ArgumentFits(b)' /\ BoundaryFits(b)'
            BY <2>6, <4>1, <4>4 DEF ArgumentFits, BoundaryFits, Moving
          <5> QED
            BY <2>6, <4>1, <4>2, <5>1, <5>2 DEF CommandOK
        <4>6. NewFit(b, {}, {})
          BY <2>6, <4>1, <4>5, OthersFit
        <4>7. tokens'[t].link = None
          BY <2>4, <2>6, <3>2
        <4> QED
          BY <4>1, <4>3, <4>6, <4>7
      <3>3. CASE Kind(t) \notin Boundaries /\ a # None
        <4> DEFINE b == Command("handleEventBasedGatewayActivation", t)
        <4>1. b.name = "handleEventBasedGatewayActivation" /\ b.for = t
          BY DEF Command
        <4>2. Consequence(t) = <<b>>
          BY <3>0, <3>3 DEF Consequence
        <4>3. NewFit(b, {}, {})
          BY <2>6, <3>3, ActivationFits
        <4> HIDE DEF b
        <4> QED
          BY <4>1, <4>2, <4>3
      <3>4. CASE Kind(t) \notin Boundaries /\ a = None
        <4>1. Consequence(t) = <<>> /\ tokens'[t].link = None
          BY <2>4, <2>6, <3>0, <3>4 DEF Consequence
        <4>2. \A b : <<>> # <<b>>
          OBVIOUS
        <4> QED
          BY <4>1, <4>2
      <3> QED
        BY <3>1, <3>2, <3>3, <3>4
    <2> DEFINE new == Consequence(t) \o <<c>>
    <2>10. QueueStep({}, {}, new)
      <3>1. IsQueue(Consequence(t)) /\ IsQueue(<<c>>)
        BY <2>9, NoneQueued, OneQueued
      <3> QED
        BY <2>2, <2>3, <3>1, EnqueueBoth
    <2>11. AlternativeMoves(c)'
      <3> SUFFICES ASSUME Alternative(t)' PROVE AlternativeMoves(c)'
        BY <2>3 DEF AlternativeMoves
      <3>1. tokens'[t].link # None
        BY DEF Alternative
      <3>2. Consequence(t) = <<b>> /\ b.name = "handleEventBasedGatewayActivation" /\ b.for = t
        BY <2>9, <3>1
      <3>3. b \in Range(new)
        <4>1. new = <<b, c>>
          BY <3>2, TwoQueued
        <4> QED
          BY <4>1, TwoQueued
      <3>4. b \in Queued'
        BY <2>10, <3>3 DEF QueueStep
      <3> QED
        BY <2>3, <3>2, <3>4 DEF AlternativeMoves
    <2>12. NewFit(c, {}, {})
      <3>1. TokenFits(c.name, t)'
        BY <1>2, <2>3, <2>4, <2>6
           DEF TokenFits, Moving, CatchEvents, Boundaries, Scopes
      <3>2. ArgumentFits(c)'
        BY <2>3, <2>6 DEF ArgumentFits, IsFlow, FlowsFrom
      <3>3. BoundaryFits(c)'
        BY <2>3, <2>4, <2>6 DEF BoundaryFits
      <3> QED
        BY <2>3, <2>6, <2>8, <2>11, <3>1, <3>2, <3>3, GoesOn DEF Moving
    <2>13. /\ NewFits({}, {}, new) /\ Range(new) \subseteq {b, c} /\ c \in Queued'
           /\ \A e \in Range(new) : e.name # "createMergedToken"
      <3>1. c.name \in Moving \ {"advanceToReady", "advanceToEntered", "advanceToBusy", "run"}
        BY <2>3 DEF Moving
      <3>2. Consequence(t) = <<b>> => NewFit(b, {}, {}) /\ b.name \notin Main \union Failing
        BY <2>9 DEF Main, Moving, Failing
      <3>3. /\ NewFits({}, {}, new) /\ c \in Queued'
            /\ Range(new) \subseteq {b, c}
            /\ Consequence(t) = <<>> => Range(new) = {c}
        BY <2>9, <2>10, <2>12, <3>1, <3>2, FitsBehind
      <3>4. \A e \in Range(new) : e.name # "createMergedToken"
        BY <2>3, <2>9, <3>3
      <3> QED
        BY <3>3, <3>4
    <2>14. Underway(t)'
      BY <1>3, <2>6 DEF Underway, Gateways
    <2> HIDE DEF new
    <2> QED
      BY <1>4, <2>6, <2>7, <2>8, <2>10, <2>13, <2>14, FreeKeeps
  <1>7. ASSUME CompletedFeasibly(t, Tail(commands)), Dangling(t) PROVE IInv' /\ EmptiedStay
    BY <1>7, AbortKeeps DEF CompletedFeasibly
  <1> QED
    BY <1>5, <1>6, <1>7 DEF AdvanceToCompleted

LEMMA CompleteKeeps ==
  ASSUME IInv, NEW t, HeadIs("advanceToCompleted", t), AdvanceToCompleted(t, Tail(commands))
  PROVE  IInv' /\ EmptiedStay
  <1>1. /\ t \in Live /\ TokenFits("advanceToCompleted", t) /\ Free(t) /\ ~Rests(t)
        /\ t \notin Range(listening) /\ t \notin waiting
    BY HeadMoves DEF Main, Moving
  <1> QED
    BY <1>1, CompletedKeeps DEF HeadIs

LEMMA HandleFailureKeeps ==
  ASSUME IInv, NEW t, HeadIs("handleFailure", t), HandleFailure(t)
  PROVE  IInv' /\ EmptiedStay
  <1>1. /\ commands # <<>> /\ t \in Live
        /\ Head(commands).name = "handleFailure" /\ Head(commands).for = t
        /\ \A d \in Rest : CommandOK(d) /\ InOrder(Head(commands), d)
    BY HeadFits DEF HeadIs, CommandOK
  <1>2. ASSUME NEW b \in Attached(t), Kind(b) = "errorBoundary",
               AdvanceToCompleted(b, Tail(commands))
        PROVE  IInv' /\ EmptiedStay
    <2>1. b \in Live /\ tokens[b].link = t /\ t # None
      BY <1>1, TokenFacts DEF Attached
    <2>2. ASSUME NEW d \in Rest, d.name \in Main, d.for = b PROVE FALSE
      <3>1. CommandOK(d) /\ InOrder(Head(commands), d)
        BY <1>1
      <3>2. d.name = "shutdown" => Kind(b) \in Scopes
        BY <2>2, <3>1 DEF CommandOK, TokenFits
      <3>3. d.name \in Moving
        BY <1>2, <2>2, <3>2 DEF Main, Scopes
      <3>4. d.name = "advanceToBusy"
        BY <1>2, <2>1, <2>2, <3>1, <3>3 DEF CommandOK, BoundaryFits, Boundaries, Moving
      <3> QED
        BY <1>1, <1>2, <2>1, <2>2, <3>1, <3>4 DEF InOrder
    <2>3. Members(b) = {}
      BY <1>2, <2>1, TokenFacts DEF Scopes
    <2>4. TokenFits("advanceToCompleted", b)
      BY <1>2, <2>3 DEF TokenFits, CatchEvents, Boundaries
    <2>5. b \notin Range(listening) /\ b \notin waiting /\ ~Rests(b)
      BY <1>2 DEF IInv, ListeningOK, WaitingOK, Rests, Signals, Gateways
    <2> QED
      BY <1>1, <1>2, <2>1, <2>2, <2>4, <2>5, CompletedKeeps DEF Free
  <1>3. ASSUME {b \in Attached(t) : Kind(b) = "errorBoundary"} = {},
               Enqueue(IF Kind(t) = "process" THEN <<Command("deleteInstance", t)>>
                       ELSE <<Command("advanceToFailed", tokens[t].owner)>>),
               UNCHANGED <<environment, created, tokens, registers, aborted>>
        PROVE  IInv' /\ EmptiedStay
    BY <1>3, UncaughtKeeps
  <1> QED
    BY <1>2, <1>3 DEF HandleFailure

LEMMA FromCompletedKeeps ==
  ASSUME IInv, NEW t, HeadIs("advanceFromCompleted", t), AdvanceFromCompleted(t)
  PROVE  IInv' /\ EmptiedStay
  <1> DEFINE r == [tokens[t] EXCEPT !.owned = FALSE]
  <1>1. /\ t \in Live /\ TokenFits("advanceFromCompleted", t) /\ Free(t) /\ ~Rests(t)
        /\ t \notin Range(listening) /\ t \notin waiting /\ State(t) # "DONE"
    BY HeadMoves DEF Main, Moving
  <1>2. /\ commands # <<>> /\ Head(commands).name = "advanceFromCompleted"
        /\ Head(commands).for = t /\ Head(commands) \in Queued
    BY HeadFits DEF HeadIs
  <1>3. /\ Kind(t) \in ActivityKinds /\ State(t) # "READY" /\ Members(t) = {}
    BY <1>1 DEF TokenFits, Moving
  <1>4. /\ tokens' = [tokens EXCEPT ![t] = r]
        /\ UNCHANGED <<environment, created, aborted>> /\ UNCHANGED registers
        /\ \E d \in Departure(t) :
             commands' = Purged(Tail(commands), {}, {t}) \o BoundaryRemoval(t) \o d
    BY DEF AdvanceFromCompleted
  <1>5. /\ tokens[t] \in Records /\ InScope(t)
    BY <1>1, TokenFacts
  <1>6. /\ r \in Records /\ r.node = tokens[t].node /\ r.owner = tokens[t].owner
        /\ r.link = tokens[t].link /\ ~r.owned /\ r.state = tokens[t].state
    BY <1>5 DEF Records
  <1>7. UNCHANGED <<model, created>>
    BY <1>4 DEF environment
  <1> HIDE DEF r
  <1>8. /\ TokenStep(t, {}, 0) /\ Live' = Live /\ Nodes' = Nodes /\ model' = model
        /\ tokens'[t] = r /\ State(t)' = State(t)
        /\ Node(t)' = Node(t) /\ Kind(t)' = Kind(t) /\ Members(t)' = {}
    <2>1. tokens[t].state = State(t)
      BY DEF State
    <2> QED
      BY <1>1, <1>3, <1>4, <1>6, <1>7, <2>1, TokenChanged
  <1>9. EnvironmentStep
    BY <1>4, EnvironmentKept
  <1>10. RegisterStep(t, {}) /\ t \notin Range(listening') /\ t \notin waiting'
    BY <1>1, <1>4, RegistersKept
  <1>11. ~Alternative(t) /\ ~Alternative(t)'
    <2>1. ~Alternative(t)
      BY AlternativeHead DEF Moving
    <2> QED
      BY <1>6, <1>8, <2>1 DEF Alternative
  <1>12. PICK q \in Departure(t) :
           commands' = Purged(Tail(commands), {}, {t}) \o BoundaryRemoval(t) \o q
    BY <1>4
  <1>13. PICK c : /\ q = <<c>> /\ c.for = t
                  /\ c.name \in {"advanceToDone", "advanceToDeparted"}
                  /\ c.name = "advanceToDeparted" => IsFlow(c.arg) /\ c.arg[1] = Node(t)
    <2>1. Kind(t) \notin Gateways
      BY <1>3 DEF ActivityKinds, Gateways
    <2> QED
      BY <1>1, <2>1, Departs
  <1>14. PICK s : s = tokens[t].owner
    OBVIOUS
  <1> DEFINE b == With("deleteBoundary", s, t)
             new == BoundaryRemoval(t) \o <<c>>
  <1>15. BoundaryRemoval(t) = <<>> \/ BoundaryRemoval(t) = <<b>>
    BY <1>14 DEF BoundaryRemoval
  <1>16. b.name = "deleteBoundary" /\ b.for = s
    BY DEF With
  <1> HIDE DEF b
  <1>17. NewFit(b, {}, {t})
    <2>1. s \in Live
      BY <1>3, <1>5, <1>14 DEF InScope, ActivityKinds
    <2>2. CommandOK(b)'
      BY <1>8, <1>16, <2>1 DEF CommandOK, TokenFits, ArgumentFits, BoundaryFits, Moving
    <2> QED
      BY <1>8, <1>16, <2>2, OthersFit
  <1>18. QueueStep({}, {t}, new)
    <2>1. IsQueue(BoundaryRemoval(t)) /\ IsQueue(<<c>>)
      BY <1>15, NoneQueued, OneQueued
    <2> QED
      BY <1>2, <1>12, <1>13, <2>1, EnqueueBoth
  <1>19. NewFit(c, {}, {t})
    <2>1. TokenFits(c.name, t)'
      BY <1>3, <1>6, <1>8, <1>13 DEF TokenFits, Moving, ActivityKinds
    <2>2. ArgumentFits(c)'
      BY <1>8, <1>13 DEF ArgumentFits, IsFlow, FlowsFrom
    <2>3. BoundaryFits(c)' /\ AlternativeMoves(c)'
      BY <1>3, <1>8, <1>11, <1>13 DEF BoundaryFits, AlternativeMoves, ActivityKinds, Boundaries
    <2> QED
      BY <1>1, <1>8, <1>10, <1>13, <2>1, <2>2, <2>3, GoesOn DEF Moving
  <1>20. /\ NewFits({}, {t}, new) /\ Range(new) \subseteq {b, c}
    BY <1>13, <1>15, <1>16, <1>17, <1>18, <1>19, FitsBehind DEF Main, Moving, Failing
  <1>21. ~aborted => Underway(t)'
    <2> SUFFICES ASSUME ~aborted PROVE Underway(t)'
      OBVIOUS
    <2>1. State(t) # "DEPARTED"
      <3> SUFFICES ASSUME NEW d \in Queued, d.name = "advanceToArrived", d.for = t PROVE FALSE
        BY <1>1 DEF IInv, OnTheMove, Underway
      <3>1. d = Head(commands) \/ d \in Rest
        BY RestQueued DEF IInv, Typed
      <3> QED
        BY <1>1, <1>2, <3>1 DEF Free, Main, Moving
    <2> QED
      BY <1>3, <1>8, <2>1 DEF Underway, ActivityKinds
  <1>22. \A e \in Range(new) : e.name # "createMergedToken"
    BY <1>13, <1>16, <1>20
  <1> HIDE DEF new
  <1> QED
    BY <1>1, <1>2, <1>3, <1>8, <1>9, <1>10, <1>11, <1>18, <1>20, <1>21, <1>22, FreeKeeps

-----------------------------------------------------------------------------
LEMMA EnteredKeeps ==
  ASSUME IInv, NEW t, HeadIs("advanceToEntered", t), AdvanceToEntered(t)
  PROVE  IInv' /\ EmptiedStay
  <1>1. /\ t \in Live /\ TokenFits("advanceToEntered", t) /\ Free(t) /\ ~Rests(t)
        /\ t \notin Range(listening) /\ t \notin waiting
    BY HeadMoves DEF Main, Moving
  <1>2. /\ commands # <<>> /\ Head(commands).name = "advanceToEntered"
        /\ Head(commands).for = t /\ (Alone(Head(commands)) => Rest = {})
    BY HeadFits DEF HeadIs
  <1>3. /\ Members(t) = {} /\ Kind(t) \notin Boundaries
        /\ (Kind(t) \in Scopes => tokens[t].owned) /\ (Kind(t) = "process" => created = 1)
        /\ tokens[t].owned => Kind(t) \in Scopes
        /\ Kind(t) \in Kinds
    BY <1>1, TokenFacts DEF TokenFits, TokenShaped, Moving
  <1>4. /\ Set(t, "ENTERED") /\ UNCHANGED <<environment, created, aborted>>
        /\ UNCHANGED registers /\ \E cmds \in EntryCommands(t) : Enqueue(cmds)
    BY DEF AdvanceToEntered
  <1>5. /\ TokenStep(t, {}, 0) /\ EnvironmentStep /\ State(t)' = "ENTERED"
        /\ Live' = Live /\ Nodes' = Nodes /\ model' = model
        /\ Node(t)' = Node(t) /\ Kind(t)' = Kind(t) /\ Members(t)' = {}
        /\ tokens'[t].owned = tokens[t].owned /\ tokens'[t].link = tokens[t].link
    BY <1>1, <1>3, <1>4, StateSet DEF States
  <1>6. RegisterStep(t, {}) /\ t \notin Range(listening') /\ t \notin waiting'
    BY <1>1, <1>4, RegistersKept
  <1>7. Alternative(t)' => Kind(t) \in {"timerCatch", "signalCatch"}
    BY <1>1, <1>5, AlternativeHead, AlternativeAt DEF Moving, Alternative
  <1>8. Kind(t) \in ActivityKinds \union {"process"} => Rest = {}
    BY <1>2 DEF Alone
  <1>9. ASSUME NEW a, NEW b, NEW c, a = <<>> \/ a = <<b>>,
               IsQueue(a \o <<c>>), Enqueue(a \o <<c>>),
               NewFit(c, {}, {}), c.name \in Moving \/ Kind(t) # "inclusive", c.for = t,
               a = <<b>> =>
                 NewFit(b, {}, {}) /\ Compatible(b, c)' /\ Compatible(c, b)' /\ InOrder(b, c)',
               c.name # "createMergedToken", b.name # "createMergedToken"
        PROVE  IInv' /\ EmptiedStay
    <2> DEFINE new == a \o <<c>>
    <2>1. QueueStep({}, {}, new)
      BY <1>2, <1>9, CommandsEnqueued DEF Enqueue, IInv, Typed
    <2>2. /\ NewFits({}, {}, new) /\ c \in Queued'
          /\ Range(new) \subseteq {b, c} /\ (a = <<>> => Range(new) = {c})
      BY <1>9, <2>1, PairFits
    <2>3. Underway(t)'
      BY <1>5, <1>9, <2>2 DEF Underway
    <2>4. \A e \in Range(new) : e.name # "createMergedToken"
      BY <1>9, <2>2
    <2> HIDE DEF new
    <2> QED
      BY <1>1, <1>2, <1>5, <1>6, <2>1, <2>2, <2>3, <2>4, FreeKeeps
  <1>10. PICK cmds \in EntryCommands(t) : Enqueue(cmds)
    BY <1>4
  <1>11. ASSUME NEW c, IsQueue(<<c>>), Enqueue(<<c>>), NewFit(c, {}, {}),
                c.name \in Moving \/ Kind(t) # "inclusive", c.for = t,
                c.name # "createMergedToken"
         PROVE  IInv' /\ EmptiedStay
    <2>1. <<>> \o <<c>> = <<c>>
      <3>1. <<c>> \in Seq({c})
        OBVIOUS
      <3> QED
        BY <3>1, ConcatEmptySeq
    <2>2. \A b : <<>> # <<b>>
      OBVIOUS
    <2> QED
      BY <1>9, <1>11, <2>1, <2>2
  <1> DEFINE busy == Command("advanceToBusy", t)
             fails == Command("advanceToFailed", t)
             begin == Command("initiateBoundaryEvents", t)
  <1>12. /\ busy.name = "advanceToBusy" /\ busy.for = t
         /\ fails.name = "advanceToFailed" /\ fails.for = t
         /\ begin.name = "initiateBoundaryEvents" /\ begin.for = t
    BY DEF Command
  <1>13. Kind(t) \notin Throws \union (Gateways \ {"eventBased"}) => NewFit(busy, {}, {})
    <2> SUFFICES ASSUME Kind(t) \notin Throws \union (Gateways \ {"eventBased"})
        PROVE  NewFit(busy, {}, {})
      OBVIOUS
    <2> HIDE DEF busy
    <2>1. TokenFits(busy.name, t)'
      BY <1>3, <1>4, <1>5, <1>12 DEF TokenFits
    <2>2. ArgumentFits(busy)' /\ BoundaryFits(busy)' /\ AlternativeMoves(busy)'
      BY <1>3, <1>5, <1>7, <1>12 DEF ArgumentFits, BoundaryFits, AlternativeMoves
    <2>3. Kind(t)' \in Scopes => \A d \in Rest : d.for = t => d.name \notin Failing
      BY <1>5, <1>8 DEF Scopes, ActivityKinds
    <2> QED
      BY <1>1, <1>3, <1>5, <1>6, <1>12, <2>1, <2>2, <2>3, GoesOn DEF Moving, Boundaries
  <1>14. Kind(t) \notin Gateways => NewFit(fails, {}, {})
    BY <1>1, <1>5, <1>6, FailsNext DEF Free, Main
  <1>15. CASE Kind(t) \in ActivityKinds
    <2> DEFINE boundary == IF BoundaryEvents(Node(t)) = <<>> THEN <<>> ELSE <<begin>>
    <2>1. cmds = boundary \o <<busy>> \/ cmds = boundary \o <<fails>>
      <3>1. cmds \in {boundary \o <<busy>>} \union
                      (IF Kind(t) = "task" /\ Node(t) \in model.restricted
                       THEN {boundary \o <<fails>>} ELSE {})
        BY <1>10, <1>15 DEF EntryCommands, Fails, ActivityKinds, CatchEvents, Boundaries
      <3> HIDE DEF boundary, busy, fails
      <3> QED
        BY <3>1
    <2>2. boundary = <<>> \/ boundary = <<begin>>
      OBVIOUS
    <2>3. Rest = {} /\ Left({}, {}) = {}
      BY <1>8, <1>15, NoneLeft
    <2> HIDE DEF boundary, busy, fails, begin
    <2>4. NewFit(begin, {}, {})
      <3>1. CommandOK(begin)'
        BY <1>1, <1>5, <1>12, <1>15
           DEF CommandOK, TokenFits, ArgumentFits, BoundaryFits, Moving
      <3> QED
        BY <1>12, <2>3, <3>1 DEF NewFit, AlternativeMoves, Main, Moving
    <2>5. ASSUME NEW c \in {busy, fails}
          PROVE  /\ NewFit(c, {}, {}) /\ IsQueue(boundary \o <<c>>)
                 /\ Compatible(begin, c)' /\ Compatible(c, begin)' /\ InOrder(begin, c)'
      <3>1. NewFit(c, {}, {})
        BY <1>13, <1>14, <1>15 DEF ActivityKinds, Throws, Gateways
      <3>2. IsQueue(boundary \o <<c>>)
        <4>1. IsQueue(boundary) /\ IsQueue(<<c>>)
          BY <2>2, NoneQueued, OneQueued
        <4> QED
          BY <4>1, JoinedOrder
      <3>3. Compatible(begin, c)' /\ Compatible(c, begin)'
        BY <1>12 DEF Compatible, Failing
      <3>4. InOrder(begin, c)'
        BY <1>12 DEF InOrder, Alone, Main, Moving
      <3> QED
        BY <3>1, <3>2, <3>3, <3>4
    <2> QED
      BY <1>9, <1>10, <1>12, <1>15, <2>1, <2>2, <2>4, <2>5 DEF ActivityKinds
  <1>16. CASE Kind(t) \in CatchEvents \union {"process", "eventBased"}
    <2>1. cmds = <<busy>> /\ IsQueue(<<busy>>)
      BY <1>10, <1>16, OneQueued DEF EntryCommands, ActivityKinds, CatchEvents, Boundaries
    <2>2. NewFit(busy, {}, {})
      BY <1>13, <1>16 DEF CatchEvents, Boundaries, Throws, Gateways
    <2> QED
      BY <1>10, <1>11, <1>12, <2>1, <2>2 DEF Moving
  <1>17. CASE Kind(t) = "errorEnd"
    <2>1. cmds = <<fails>> /\ IsQueue(<<fails>>)
      BY <1>10, <1>17, OneQueued DEF EntryCommands, Fails, ActivityKinds, CatchEvents, Boundaries
    <2>2. NewFit(fails, {}, {})
      BY <1>14, <1>17 DEF Gateways
    <2> QED
      BY <1>10, <1>11, <1>12, <1>17, <2>1, <2>2
  <1> HIDE DEF busy, fails, begin
  <1>18. ASSUME NEW q \in Departure(t),
                Kind(t) \in {"end", "signalThrow", "exclusive", "parallel", "inclusive"}
         PROVE  \E c : /\ q = <<c>> /\ c.for = t /\ NewFit(c, {}, {})
                       /\ c.name \in {"advanceToDone", "advanceToDeparted", "handleDivergingGateway"}
    <2>1. PICK c : /\ q = <<c>> /\ c.for = t
                   /\ c.name \in {"advanceToDone", "advanceToDeparted", "handleDivergingGateway"}
                   /\ c.name = "advanceToDeparted" => IsFlow(c.arg) /\ c.arg[1] = Node(t)
                   /\ c.name = "handleDivergingGateway" => Kind(t) \in Gateways
      BY <1>1, <1>18, Departs
    <2>2. TokenFits(c.name, t)'
      BY <1>3, <1>5, <1>18, <2>1 DEF TokenFits, Scopes
    <2>3. ArgumentFits(c)'
      BY <1>5, <2>1 DEF ArgumentFits, IsFlow, FlowsFrom
    <2>4. BoundaryFits(c)' /\ AlternativeMoves(c)'
      BY <1>3, <1>5, <1>7, <1>18, <2>1 DEF BoundaryFits, AlternativeMoves
    <2>5. NewFit(c, {}, {})
      BY <1>1, <1>5, <1>6, <2>1, <2>2, <2>3, <2>4, GoesOn DEF Moving
    <2> QED
      BY <2>1, <2>5
  <1>19. CASE Kind(t) = "signalThrow"
    <2>1. PICK q \in Departure(t) : cmds = <<Broadcast>> \o q
      BY <1>10, <1>19 DEF EntryCommands, ActivityKinds, CatchEvents, Boundaries
    <2>2. PICK c : /\ q = <<c>> /\ c.for = t /\ NewFit(c, {}, {})
                   /\ c.name \in {"advanceToDone", "advanceToDeparted", "handleDivergingGateway"}
      BY <1>18, <1>19
    <2>3. Broadcast.name = "broadcastSignal"
      BY DEF Broadcast, Command
    <2>4. NewFit(Broadcast, {}, {})
      BY <1>5, <2>3, OthersFit DEF CommandOK, Broadcast, Command
    <2>5. IsQueue(<<Broadcast>> \o <<c>>)
      BY OneQueued, JoinedOrder
    <2>6. Compatible(Broadcast, c)' /\ Compatible(c, Broadcast)'
      BY <2>2, <2>3 DEF Compatible, Failing
    <2>7. InOrder(Broadcast, c)'
      BY <2>2, <2>3 DEF InOrder, Alone, Main, Moving
    <2> QED
      BY <1>9, <1>10, <1>19, <2>1, <2>2, <2>3, <2>4, <2>5, <2>6, <2>7
  <1>20. CASE Kind(t) \in {"end", "exclusive", "parallel", "inclusive"}
    <2>1. cmds \in Departure(t)
      BY <1>10, <1>20 DEF EntryCommands, ActivityKinds, CatchEvents, Boundaries
    <2>2. PICK c : /\ cmds = <<c>> /\ c.for = t /\ NewFit(c, {}, {})
                   /\ c.name \in {"advanceToDone", "advanceToDeparted", "handleDivergingGateway"}
      BY <1>18, <1>20, <2>1
    <2>3. IsQueue(<<c>>)
      BY OneQueued
    <2> QED
      BY <1>10, <1>11, <2>2, <2>3 DEF Moving
  <1>21. Kind(t) \in ActivityKinds \union CatchEvents \union
           {"process", "eventBased", "errorEnd", "signalThrow", "end", "exclusive", "parallel",
            "inclusive"}
    BY <1>3 DEF Kinds, Scopes, ActivityKinds, Throws, Gateways
  <1> QED
    BY <1>15, <1>16, <1>17, <1>19, <1>20, <1>21

-----------------------------------------------------------------------------
\* A token comes to a node.
LEMMA Arrives ==
  ASSUME IInv, NEW t, HeadIs("advanceToArrived", t),
         NEW n, n = tokens[t].flow[2], NEW st \in {"WAITING", "ARRIVED"},
         NEW fl \in {tokens[t].flow, <<>>},
         tokens' = [tokens EXCEPT ![t].node = n, ![t].state = st, ![t].flow = fl],
         UNCHANGED <<model, created>>
  PROVE  /\ TokenStep(t, {}, 0) /\ LeftFits(t, {}, {}) /\ RestsAfter(t, {}, {})
         /\ AlternativesStep(t, {}, 0)
         /\ Live' = Live /\ Nodes' = Nodes /\ model' = model
         /\ Kind(t)' = model.kind[n] /\ State(t)' = st
         /\ tokens'[t].owner = tokens[t].owner /\ Members(t)' = {}
         /\ n \in Nodes /\ model.kind[n] \notin Boundaries \union {"process"}
         /\ Alternative(t)' => model.kind[n] # "eventBased"
  <1> DEFINE r == [tokens[t] EXCEPT !.node = n, !.state = st, !.flow = fl]
  <1>1. /\ t \in Live /\ TokenFits("advanceToArrived", t) /\ Free(t) /\ ~Rests(t)
        /\ \A d \in Rest : d.for = t =>
             d.name \notin {"initiateBoundaryEvents", "advanceToFailed",
                            "handleEventBasedGatewayActivation"}
    BY HeadMoves DEF Main, Moving
  <1>2. /\ commands # <<>> /\ Head(commands).name = "advanceToArrived" /\ Head(commands).for = t
        /\ BoundaryFits(Head(commands))
        /\ \A d \in Rest : InOrder(Head(commands), d) /\ CommandOK(d)
    BY HeadFits DEF HeadIs, CommandOK
  <1>3. /\ Members(t) = {} /\ ~tokens[t].owned /\ Kind(t) # "process"
        /\ IsFlow(tokens[t].flow) /\ tokens[t].flow[1] = Node(t)
    BY <1>1 DEF TokenFits, Moving
  <1>4. n \in FlowsFrom(model, Node(t)) /\ Node(t) \in Nodes
    BY <1>1, <1>3, TokenFacts DEF IsFlow
  <1>5. n \in Nodes
    BY <1>4, ModelFits DEF IsModel, FlowsFrom, Range, Nodes
  <1>6. model.kind[n] \notin Boundaries \union {"process"}
    BY <1>4, ModelFits DEF BoundariesFit, Nodes
  <1>7. tokens[t] \in Records /\ TokenShaped(t)
    BY <1>1, TokenFacts
  <1>8. /\ r \in Records /\ r.node = n /\ r.state = st /\ r.owner = tokens[t].owner
        /\ r.link = tokens[t].link /\ r.owned = FALSE
    BY <1>3, <1>5, <1>7 DEF Records, States
  <1>9. tokens' = [tokens EXCEPT ![t] = r]
    OBVIOUS
  <1> HIDE DEF r
  <1>10. /\ Live' = Live /\ tokens'[t] = r /\ \A u \in Live : u # t => tokens'[u] = tokens[u]
    BY <1>1, <1>9 DEF Live
  <1>11. model' = model /\ created' = created /\ Nodes' = Nodes
    BY DEF Nodes
  <1>12. Node(t)' = n /\ Kind(t)' = model.kind[n] /\ State(t)' = st
    BY <1>8, <1>10, <1>11 DEF Node, Kind, State
  <1>13. /\ \A u \in Live : tokens'[u].owner = tokens[u].owner
         /\ \A u \in Live : u # t => Node(u)' = Node(u) /\ Kind(u)' = Kind(u)
    BY <1>8, <1>10, <1>11 DEF Node, Kind
  <1>14. \A u : Members(u)' = Members(u)
    BY <1>10, <1>13 DEF Members
  <1>15. created \in Nat /\ created \in Ids /\ Live \subseteq 1..created
    BY FlowAssumption DEF IInv, Typed, Ids
  <1>16. TokenShaped(t)'
    <2>1. PICK l : l = tokens[t].link
      OBVIOUS
    <2>5. tokens'[t].link = l /\ l < t /\ (l \in Live' => Kind(l)' # "process")
      <3>1. l # t /\ l < t /\ (l \in Live => Kind(l) # "process")
        BY <1>1, <1>7, <1>15, <2>1 DEF TokenShaped
      <3> QED
        BY <1>8, <1>10, <1>13, <2>1, <3>1
    <2>2. tokens'[t] \in [node : Nodes', state : States, owner : 0..created', link : 0..created',
                          flow : {<<>>} \union (Nodes' \X Nodes'), owned : BOOLEAN]
      BY <1>8, <1>10, <1>11 DEF Records
    <2>4. tokens'[t].owner < t /\ ~tokens'[t].owned
      BY <1>7, <1>8, <1>10 DEF TokenShaped
    <2>6. Kind(t)' # "process" /\ State(t)' # "READY"
      BY <1>6, <1>12
    <2> QED
      BY <2>2, <2>4, <2>5, <2>6 DEF TokenShaped
  <1>17. TokenStep(t, {}, 0)
    <2>1. Touched(t, {})
      BY <1>3, <1>6, <1>8, <1>10, <1>12, <1>16 DEF Touched
    <2>2. created' <= MaxTokens
      BY <1>11, <1>15, FlowAssumption DEF Ids
    <2>3. created + 0 = created /\ (created + 1)..(created + 0) = {}
      BY <1>15
    <2> QED
      BY <1>10, <1>11, <2>1, <2>2, <2>3 DEF TokenStep
  <1>18. LeftFits(t, {}, {}) /\ RestsAfter(t, {}, {})
    <2>1. ASSUME NEW c \in Left({}, {}), c.for = t
          PROVE  CommandOK(c)' /\ AlternativeMoves(c)' /\ c.name \notin Main
      <3>1. /\ c \in Rest /\ CommandOK(c) /\ c.name \notin Main \union {"updateFailed"}
            /\ c.name \notin {"initiateBoundaryEvents", "advanceToFailed",
                              "handleEventBasedGatewayActivation"}
        BY <1>1, <1>2, <2>1 DEF Left, Free, InOrder
      <3>2. CommandOK(c)'
        <4>1. TokenFits(c.name, t)'
          <5>1. c.name # "deleteInstance"
            BY <1>1, <1>3, <2>1, <3>1 DEF CommandOK, TokenFits
          <5> QED
            BY <1>6, <1>12, <3>1, <5>1 DEF TokenFits, Main, Moving
        <4>2. ArgumentFits(c)'
          BY <1>11, <2>1, <3>1 DEF CommandOK, ArgumentFits, Main, Moving
        <4>3. BoundaryFits(c)'
          BY <3>1 DEF BoundaryFits, Main
        <4> QED
          BY <1>1, <1>10, <2>1, <4>1, <4>2, <4>3 DEF CommandOK
      <3> QED
        BY <3>1, <3>2 DEF AlternativeMoves, Main
    <2> QED
      BY <2>1 DEF LeftFits, RestsAfter
  <1>19. Alternative(t)' =>
           Alternative(t) /\ n \in FlowsFrom(model, Node(tokens[t].link)) /\ model.kind[n] # "eventBased"
    <2> SUFFICES ASSUME Alternative(t)'
        PROVE  Alternative(t) /\ n \in FlowsFrom(model, Node(tokens[t].link)) /\ model.kind[n] # "eventBased"
      OBVIOUS
    <2>1. tokens[t].link # None
      BY <1>8, <1>10 DEF Alternative
    <2>2. Alternative(t)
      BY <1>2, <2>1 DEF Alternative, BoundaryFits, Moving
    <2>3. Kind(t) = "eventBased" /\ Node(t) = Node(tokens[t].link)
      BY <1>1, <2>2, AlternativeHead, AlternativeAt DEF Moving
    <2>4. model.kind[n] \in {"timerCatch", "signalCatch"}
      BY <1>4, <2>3, ModelFits DEF GatewaysFit, Kind, Nodes
    <2> QED
      BY <1>4, <2>2, <2>3, <2>4
  <1>20. AlternativesStep(t, {}, 0)
    <2>1. (created + 1)..(created + 0) = {}
      BY <1>15
    <2>2. PICK g : g = tokens[t].link
      OBVIOUS
    <2>3. Alternative(t)' => g \in Live /\ Node(g)' = Node(g) /\ tokens'[t].link = g
      <3>1. Alternative(t)' => g \in Live /\ g # t
        <4>1. g < t /\ t \in 1..created
          BY <1>1, <1>7, <1>15, <2>2 DEF TokenShaped
        <4>2. Alternative(t) => AlternativePlaced(t)
          BY <1>1 DEF IInv, AlternativesOK
        <4>3. Alternative(t) => g \in Live
          BY <2>2, <4>2 DEF AlternativePlaced
        <4> QED
          BY <1>15, <1>19, <4>1, <4>3
      <3> QED
        BY <1>8, <1>10, <1>13, <2>2, <3>1
    <2>4. Alternative(t)' => n \in FlowsFrom(model, Node(g))
      BY <1>19, <2>2
    <2>5. \A u : ~HeadIs("handleEventBasedGatewayActivation", u)
      BY <1>2 DEF HeadIs
    <2> QED
      BY <1>1, <1>12, <1>19, <2>1, <2>2, <2>4, <2>5 DEF AlternativesStep
  <1> QED
    BY <1>3, <1>5, <1>6, <1>8, <1>10, <1>11, <1>12, <1>14, <1>17, <1>18, <1>19, <1>20

LEMMA ArrivedKeeps ==
  ASSUME IInv, NEW t, HeadIs("advanceToArrived", t), AdvanceToArrived(t)
  PROVE  IInv' /\ EmptiedStay
  <1>1. /\ t \in Live /\ TokenFits("advanceToArrived", t) /\ Free(t) /\ ~Rests(t)
        /\ t \notin Range(listening) /\ t \notin waiting
    BY HeadMoves DEF Main, Moving
  <1>2. commands # <<>> /\ Head(commands).name = "advanceToArrived" /\ Head(commands).for = t
    BY DEF HeadIs
  <1>3. PICK n : n = tokens[t].flow[2]
    OBVIOUS
  <1>4. PICK s : s = tokens[t].owner
    OBVIOUS
  <1>5. UNCHANGED <<model, created>> /\ EnvironmentStep /\ listening' = listening
    BY EnvironmentKept DEF AdvanceToArrived, environment
  <1>6. Kind(t) # "process"
    BY <1>1 DEF TokenFits
  <1>7. ASSUME NEW new, QueueStep({}, {}, new), NewFits({}, {}, new), RegisterStep(t, {}),
               TokenStep(t, {}, 0), LeftFits(t, {}, {}), RestsAfter(t, {}, {}),
               AlternativesStep(t, {}, 0), Underway(t)',
               \A c \in Range(new) : c.name # "createMergedToken" \/ model.kind[c.arg] # "inclusive"
        PROVE  IInv' /\ EmptiedStay
    <2>1. UnderwayStep(t, {}, 0)
      <3>1. (created + 1)..(created + 0) = {}
        BY <1>1, TokenFacts
      <3> QED
        BY <1>2, <1>7, <3>1 DEF UnderwayStep
    <2>2. StepOK(t, {}, 0, {}, new)
      BY <1>5, <1>7, <2>1 DEF StepOK
    <2> QED
      BY <1>2, <1>7, <2>2, PlainStepKeeps DEF InclusiveMerge
  <1>8. CASE /\ Cardinality(Sources(n)) > 1
             /\ tokens' = [tokens EXCEPT ![t].node = n, ![t].state = "WAITING",
                                         ![t].flow = tokens[t].flow]
             /\ waiting' = waiting \union {t}
             /\ \/ Enqueue(<<>>)
                \/ model.kind[n] = "parallel" /\ Enqueue(<<With("createMergedToken", s, n)>>)
    <2>1. /\ TokenStep(t, {}, 0) /\ LeftFits(t, {}, {}) /\ RestsAfter(t, {}, {})
          /\ AlternativesStep(t, {}, 0) /\ Live' = Live /\ Nodes' = Nodes /\ model' = model
          /\ Kind(t)' = model.kind[n] /\ State(t)' = "WAITING" /\ n \in Nodes
      BY <1>3, <1>5, <1>8, Arrives
    <2>2. model.kind[n] \in Gateways \ {"eventBased"}
      BY <1>8, <2>1, ModelFits DEF GatewaysFit, Sources, Nodes
    <2>3. RegisterStep(t, {})
      <3>1. IsQueue(listening) /\ \A u : ~Before(listening, u, u)
        BY DEF IInv, Typed, ListeningOK
      <3> QED
        BY <1>1, <1>5, <1>8, <2>1, <2>2, <3>1 DEF RegisterStep
    <2>4. Underway(t)'
      BY <1>8, <2>1 DEF Underway
    <2>5. CASE Enqueue(<<>>)
      <3>1. QueueStep({}, {}, <<>>) /\ NewFits({}, {}, <<>>) /\ Range(<<>>) = {}
        BY <1>2, <2>5, EnqueueNone
      <3> QED
        BY <1>7, <2>1, <2>3, <2>4, <3>1
    <2>6. CASE model.kind[n] = "parallel" /\ Enqueue(<<With("createMergedToken", s, n)>>)
      <3> DEFINE c == With("createMergedToken", s, n)
      <3>1. c.name = "createMergedToken" /\ c.for = s /\ c.arg = n
        BY DEF With
      <3>2. Enqueue(<<c>>)
        BY <2>6
      <3> HIDE DEF c
      <3>3. s \in Live'
        BY <1>1, <1>4, <1>6, <2>1, TokenFacts DEF InScope
      <3>4. CommandOK(c)'
        BY <2>1, <2>6, <3>1, <3>3 DEF CommandOK, TokenFits, ArgumentFits, BoundaryFits, Moving
      <3>5. NewFit(c, {}, {})
        BY <2>1, <3>1, <3>4, OthersFit
      <3>6. QueueStep({}, {}, <<c>>) /\ NewFits({}, {}, <<c>>) /\ Range(<<c>>) = {c}
        BY <1>2, <3>2, <3>5, EnqueueOne
      <3>7. \A d \in Range(<<c>>) : model.kind[d.arg] # "inclusive"
        BY <2>6, <3>1, <3>6
      <3> QED
        BY <1>7, <2>1, <2>3, <2>4, <3>6, <3>7
    <2> QED
      BY <1>8, <2>5, <2>6
  <1>9. CASE /\ model.kind[n] \in ActivityKinds
             /\ tokens' = [tokens EXCEPT ![t].node = n, ![t].state = "ARRIVED",
                                         ![t].flow = tokens[t].flow]
             /\ Enqueue(<<>>) /\ waiting' = waiting
    <2>1. /\ TokenStep(t, {}, 0) /\ LeftFits(t, {}, {}) /\ RestsAfter(t, {}, {})
          /\ AlternativesStep(t, {}, 0)
          /\ Kind(t)' = model.kind[n] /\ State(t)' = "ARRIVED"
      BY <1>3, <1>5, <1>9, Arrives
    <2>2. RegisterStep(t, {})
      BY <1>1, <1>5, <1>9, RegistersKept DEF registers
    <2>3. Underway(t)'
      BY <1>9, <2>1 DEF Underway, ActivityKinds
    <2>4. QueueStep({}, {}, <<>>) /\ NewFits({}, {}, <<>>) /\ Range(<<>>) = {}
      BY <1>2, <1>9, EnqueueNone
    <2> QED
      BY <1>7, <2>1, <2>2, <2>3, <2>4
  <1>10. CASE /\ model.kind[n] \notin ActivityKinds
              /\ tokens' = [tokens EXCEPT ![t].node = n, ![t].state = "ARRIVED", ![t].flow = <<>>]
              /\ Enqueue(<<Command("advanceToEntered", t)>>) /\ waiting' = waiting
    <2> DEFINE c == Command("advanceToEntered", t)
    <2>1. /\ TokenStep(t, {}, 0) /\ LeftFits(t, {}, {}) /\ RestsAfter(t, {}, {})
          /\ AlternativesStep(t, {}, 0) /\ Live' = Live
          /\ Kind(t)' = model.kind[n] /\ State(t)' = "ARRIVED" /\ Members(t)' = {}
          /\ model.kind[n] \notin Boundaries \union {"process"}
          /\ Alternative(t)' => model.kind[n] # "eventBased"
      BY <1>3, <1>5, <1>10, Arrives
    <2>2. RegisterStep(t, {}) /\ t \notin Range(listening') /\ t \notin waiting'
      BY <1>1, <1>5, <1>10, RegistersKept DEF registers
    <2>3. c.name = "advanceToEntered" /\ c.for = t /\ Enqueue(<<c>>)
      BY <1>10 DEF Command
    <2> HIDE DEF c
    <2>4. QueueStep({}, {}, <<c>>) /\ Range(<<c>>) = {c} /\ c \in Queued'
      BY <1>2, <2>3, EnqueueOne
    <2>5. NewFit(c, {}, {})
      <3>1. TokenFits(c.name, t)'
        BY <1>10, <2>1, <2>3 DEF TokenFits, Scopes, ActivityKinds
      <3>2. ArgumentFits(c)' /\ BoundaryFits(c)' /\ AlternativeMoves(c)'
        BY <2>1, <2>3 DEF ArgumentFits, BoundaryFits, AlternativeMoves
      <3> QED
        BY <1>1, <1>10, <2>1, <2>2, <2>3, <3>1, <3>2, GoesOn DEF Moving
    <2>6. NewFits({}, {}, <<c>>)
      BY <1>2, <2>3, <2>5, EnqueueOne
    <2>7. Underway(t)'
      BY <2>1, <2>3, <2>4 DEF Underway, Moving
    <2> QED
      BY <1>7, <2>1, <2>2, <2>3, <2>4, <2>6, <2>7
  <1> QED
    <2>1. \/ /\ Cardinality(Sources(n)) > 1 /\ model.kind[n] # "exclusive"
             /\ tokens' = [tokens EXCEPT ![t].node = n, ![t].state = "WAITING",
                                         ![t].flow = tokens[t].flow]
             /\ waiting' = waiting \union {t}
             /\ \/ Enqueue(<<>>)
                \/ model.kind[n] = "parallel" /\ Enqueue(<<With("createMergedToken", s, n)>>)
          \/ /\ model.kind[n] \in ActivityKinds
             /\ tokens' = [tokens EXCEPT ![t].node = n, ![t].state = "ARRIVED",
                                         ![t].flow = tokens[t].flow]
             /\ Enqueue(<<>>) /\ waiting' = waiting
          \/ /\ model.kind[n] \notin ActivityKinds
             /\ tokens' = [tokens EXCEPT ![t].node = n, ![t].state = "ARRIVED", ![t].flow = <<>>]
             /\ Enqueue(<<Command("advanceToEntered", t)>>) /\ waiting' = waiting
      BY <1>3, <1>4 DEF AdvanceToArrived
    <2> QED
      BY <1>8, <1>9, <1>10, <2>1

-----------------------------------------------------------------------------
\* The lineage of a token is that of the token owning its scope, with itself.
LEMMA LineageGrows ==
  ASSUME NEW t \in Live
  PROVE  /\ t \in Lineage(t)
         /\ tokens[t].owner \in Live =>
              Lineage(t) = {t} \union Lineage(tokens[t].owner)
         /\ tokens[t].owner \notin Live => Lineage(t) = {t}
  <1> DEFINE G(f) == [u \in Live |->
                        {u} \union (IF tokens[u].owner \in Live THEN f[tokens[u].owner] ELSE {})]
             next == [u \in Live |-> {tokens[u].owner} \intersect Live]
             up == CHOOSE f : f = G(f)
  <1>1. \E f : f = G(f)
    <2>1. next \in [Live -> SUBSET Live]
      OBVIOUS
    <2> HIDE DEF next
    <2>2. PICK f : Reaches(Live, next, f)
      BY <2>1, Reaching
    <2>3. ASSUME NEW u \in Live
          PROVE  f[u] = {u} \union (IF tokens[u].owner \in Live THEN f[tokens[u].owner] ELSE {})
      <3>1. CASE tokens[u].owner \in Live
        <4>1. next[u] = {tokens[u].owner}
          BY <3>1 DEF next
        <4>2. UNION {f[k] : k \in next[u]} = f[tokens[u].owner]
          BY <4>1
        <4> QED
          BY <2>2, <3>1, <4>2 DEF Reaches
      <3>2. CASE tokens[u].owner \notin Live
        <4>1. next[u] = {}
          BY <3>2 DEF next
        <4>2. UNION {f[k] : k \in next[u]} = {}
          BY <4>1
        <4> QED
          BY <2>2, <3>2, <4>2 DEF Reaches
      <3> QED
        BY <3>1, <3>2
    <2>4. f = G(f)
      BY <2>2, <2>3 DEF Reaches
    <2> QED
      BY <2>4
  <1>2. up = G(up)
    BY <1>1
  <1>3. \A u : Lineage(u) = up[u]
    BY DEF Lineage
  <1> HIDE DEF up
  <1>4. up[t] = {t} \union (IF tokens[t].owner \in Live THEN up[tokens[t].owner] ELSE {})
    BY <1>2
  <1> QED
    BY <1>3, <1>4

\* What is within some scopes is closed under ownership.
LEMMA WithinScopes ==
  ASSUME NEW S
  PROVE  /\ Within(S) \subseteq Live
         /\ \A u \in Live : tokens[u].owner \in Within(S) => u \in Within(S)
         /\ \A u \in Live : u \in S => u \in Within(S)
         /\ \A u \in Within(S) : u \in S \/ tokens[u].owner \in Within(S)
  <1>1. ASSUME NEW u \in Live, tokens[u].owner \in Within(S) PROVE u \in Within(S)
    <2>1. tokens[u].owner \in Live /\ Lineage(tokens[u].owner) \intersect S # {}
      BY <1>1 DEF Within
    <2>2. Lineage(tokens[u].owner) \subseteq Lineage(u)
      BY <2>1, LineageGrows
    <2> QED
      BY <2>1, <2>2 DEF Within
  <1>2. ASSUME NEW u \in Live, u \in S PROVE u \in Within(S)
    BY <1>2, LineageGrows DEF Within
  <1>3. ASSUME NEW u \in Within(S), u \notin S PROVE tokens[u].owner \in Within(S)
    <2>1. u \in Live /\ Lineage(u) \intersect S # {}
      BY DEF Within
    <2>2. tokens[u].owner \in Live
      BY <1>3, <2>1, LineageGrows
    <2>3. Lineage(tokens[u].owner) \intersect S # {}
      BY <1>3, <2>1, <2>2, LineageGrows
    <2> QED
      BY <2>2, <2>3 DEF Within
  <1> QED
    BY <1>1, <1>2, <1>3 DEF Within

\* A token is no older than those in its lineage, and not within the scope it owns.
LEMMA NotWithinItself ==
  ASSUME IInv, NEW t \in Live
  PROVE  t \notin Within(Members(t))
  <1>0. Live \subseteq Nat /\ \A u \in Live : tokens[u].owner \in Nat /\ tokens[u].owner < u
    <2>1. ASSUME NEW u \in Live PROVE u \in Nat /\ tokens[u].owner \in Nat /\ tokens[u].owner < u
      BY TokenFacts DEF TokenShaped
    <2> QED
      BY <2>1
  <1> DEFINE Bad == {u \in Live : \E v \in Lineage(u) : ~(v \in Live /\ v <= u)}
  <1>1. Bad = {}
    <2> SUFFICES ASSUME Bad # {} PROVE FALSE
      OBVIOUS
    <2>1. PICK u \in Bad : \A w \in Bad : u <= w
      BY <1>0, Least
    <2>2. PICK v \in Lineage(u) : ~(v \in Live /\ v <= u)
      BY <2>1
    <2>3. u \in Live /\ u \in Nat
      BY <1>0, <2>1
    <2>4. v # u
      BY <2>2, <2>3
    <2>5. PICK w : w = tokens[u].owner
      OBVIOUS
    <2>6. w \in Live /\ v \in Lineage(w)
      BY <2>2, <2>3, <2>4, <2>5, LineageGrows
    <2>7. w \in Nat /\ w < u
      BY <1>0, <2>3, <2>5
    <2>8. w \notin Bad
      BY <2>1, <2>3, <2>7
    <2>9. v \in Live /\ v <= w
      BY <2>6, <2>8
    <2>10. v \in Nat
      BY <1>0, <2>9
    <2> QED
      BY <2>2, <2>3, <2>7, <2>9, <2>10
  <1> SUFFICES ASSUME t \in Within(Members(t)) PROVE FALSE
    OBVIOUS
  <1>2. PICK v \in Lineage(t) : v \in Members(t)
    BY DEF Within
  <1>3. v \in Live /\ v <= t
    BY <1>1, <1>2
  <1>4. tokens[v].owner = t
    BY <1>2 DEF Members
  <1>5. t < v /\ v \in Nat /\ t \in Nat
    BY <1>0, <1>3, <1>4
  <1> QED
    BY <1>3, <1>5

-----------------------------------------------------------------------------
\* Tokens removed leave the registers, and another one may change where it rests.
LEMMA RegistersTrimmed ==
  ASSUME IInv, NEW t, NEW gone, listening' = StillListening(gone), waiting' = waiting \ gone,
         t \in Live \ gone => State(t)' = State(t) /\ Kind(t)' = Kind(t)
  PROVE  RegisterStep(t, gone) /\ Range(listening') = Range(listening) \ gone
  <1> DEFINE q == listening
             keep == Range(listening) \ gone
             places == {i \in DOMAIN listening : listening[i] \notin gone}
             r == Kept(q, places)
  <1>1. listening' = r
    BY DEF StillListening
  <1>2. IsQueue(q) /\ (\A u : ~Before(q, u, u)) /\ Range(q) \subseteq Live
    BY DEF IInv, Typed, ListeningOK
  <1>3. r = Kept(q, places) /\ \A i : i \in places <=> i \in DOMAIN q /\ q[i] \in keep
    BY DEF Range
  <1>4. keep \subseteq Range(q) /\ keep = Range(listening) \ gone
    OBVIOUS
  <1> HIDE DEF q, keep, places, r
  <1>5. /\ IsQueue(r)
        /\ Range(r) = Range(q) \intersect keep
        /\ \A c, d : Before(r, c, d) => Before(q, c, d) /\ c \in Range(r) /\ d \in Range(r)
    BY <1>2, <1>3, KeptOrder
  <1>6. IsQueue(listening)' /\ (\A u : ~Before(listening', u, u)) /\ Range(listening') = keep
    BY <1>1, <1>2, <1>4, <1>5
  <1>7. /\ t \in Range(listening') => t \in Live \ gone /\ State(t)' = "BUSY" /\ Kind(t)' \in Signals
        /\ t \in waiting' => /\ t \in Live \ gone /\ State(t)' = "WAITING"
                             /\ Kind(t)' \in Gateways \ {"eventBased"}
    BY <1>2, <1>4, <1>6 DEF q, IInv, Typed, ListeningOK, WaitingOK
  <1> QED
    BY <1>4, <1>6, <1>7 DEF RegisterStep

\* The tokens removed with those in their scopes, the others staying as they are.
LEMMA Withdrawal ==
  ASSUME IInv, NEW gone, gone \subseteq Live,
         \A u \in Live : tokens[u].owner \in gone => u \in gone,
         tokens' = Without(gone), UNCHANGED <<model, created>>
  PROVE  /\ TokenStep(None, gone, 0) /\ model' = model /\ Nodes' = Nodes
         /\ Live' = Live \ gone
         /\ \A u \in Live \ gone : /\ tokens'[u] = tokens[u] /\ State(u)' = State(u)
                                   /\ Node(u)' = Node(u) /\ Kind(u)' = Kind(u)
                                   /\ Members(u)' = Members(u) \ gone
  <1>1. Live' = Live \ gone /\ \A u \in Live \ gone : tokens'[u] = tokens[u]
    BY DEF Live, Without
  <1>2. created \in Nat /\ created \in Ids /\ None \notin Live
    BY FlowAssumption DEF IInv, Typed, Ids, None
  <1>3. (created + 1)..(created + 0) = {} /\ created + 0 = created
    BY <1>2
  <1>4. created <= MaxTokens
    BY <1>2, FlowAssumption DEF Ids
  <1>5. TokenStep(None, gone, 0)
    BY <1>1, <1>2, <1>3, <1>4 DEF TokenStep
  <1> QED
    BY <1>1, <1>5 DEF State, Node, Kind, Members, Nodes

LEMMA WithdrawalKeeps ==
  ASSUME IInv, commands # <<>>,
         Head(commands).name \notin
           Moving \union {"handleEventBasedGatewayActivation", "createMergedToken"},
         NEW gone, gone \subseteq Live,
         \A u \in Live : tokens[u].owner \in gone => u \in gone,
         \A u \in Live \ gone : Alternative(u) => tokens[u].link \notin gone,
         tokens' = Without(gone), listening' = StillListening(gone), waiting' = waiting \ gone,
         UNCHANGED <<environment, created, aborted>>,
         NEW shut, NEW new, QueueStep(gone, shut, new), NewFits(gone, shut, new),
         \A c \in Range(new) : c.name # "createMergedToken"
  PROVE  IInv' /\ EmptiedStay
  <1>1. UNCHANGED <<model, created>> /\ EnvironmentStep
    BY EnvironmentKept DEF environment
  <1>2. TokenStep(None, gone, 0)
    BY <1>1, Withdrawal
  <1>3. None \notin Live /\ created \in Nat
    BY FlowAssumption DEF IInv, Typed, Ids, None
  <1>4. RegisterStep(None, gone)
    BY <1>3, RegistersTrimmed
  <1>5. (created + 1)..(created + 0) = {}
    BY <1>3
  <1>6. AlternativesStep(None, gone, 0)
    BY <1>3, <1>5 DEF AlternativesStep, HeadIs
  <1>7. UnderwayStep(None, gone, 0)
    BY <1>3, <1>5 DEF UnderwayStep
  <1>8. LeftFits(None, gone, shut) /\ RestsAfter(None, gone, shut)
    BY <1>3 DEF LeftFits, RestsAfter
  <1>9. StepOK(None, gone, 0, shut, new)
    BY <1>1, <1>2, <1>4, <1>6, <1>7, <1>8 DEF StepOK
  <1> QED
    BY <1>9, PlainStepKeeps DEF InclusiveMerge

\* The commands left when tokens are removed with their state machines.
LEMMA RemovalQueued ==
  ASSUME IInv, commands # <<>>, NEW gone, NEW shut, NEW new, IsQueue(new),
         commands' = Purged(Tail(commands), gone, shut) \o new
  PROVE  QueueStep(gone, shut, new)
  BY CommandsLapse DEF IInv, Typed

\* An alternative is withdrawn with the gateway token it is linked to.
LEMMA AlternativesWithin ==
  ASSUME IInv, NEW S, NEW u \in Live, Alternative(u), u \notin Within(S),
         tokens[u].link \in Within(S)
  PROVE  /\ tokens[u].link \in S /\ Kind(tokens[u].link) = "eventBased"
         /\ tokens[tokens[u].link].owner = tokens[u].owner
  <1>1. PICK g : g = tokens[u].link
    OBVIOUS
  <1>2. g \in Live /\ Kind(g) = "eventBased" /\ tokens[g].owner = tokens[u].owner
    BY <1>1 DEF IInv, AlternativesOK, AlternativePlaced, Rests
  <1>3. tokens[u].owner \notin Within(S)
    BY WithinScopes
  <1>4. g \in S
    BY <1>1, <1>2, <1>3, WithinScopes
  <1> QED
    BY <1>1, <1>2, <1>4

LEMMA InstanceDeletedKeeps ==
  ASSUME IInv, NEW t, HeadIs("deleteInstance", t), DeleteInstance(t)
  PROVE  IInv' /\ EmptiedStay
  <1>1. commands # <<>> /\ Head(commands).name = "deleteInstance" /\ t \in Live /\ Kind(t) = "process"
    BY HeadFits DEF HeadIs, CommandOK, TokenFits
  <1>2. PICK gone : gone = Within({t})
    OBVIOUS
  <1>3. /\ gone \subseteq Live /\ \A u \in Live : tokens[u].owner \in gone => u \in gone
    BY <1>2, WithinScopes
  <1>4. \A u \in Live \ gone : Alternative(u) => tokens[u].link \notin gone
    BY <1>1, <1>2, AlternativesWithin
  <1>5. /\ tokens' = Without(gone) /\ listening' = StillListening(gone)
        /\ waiting' = waiting \ gone /\ UNCHANGED <<environment, created, aborted>>
        /\ commands' = Purged(Tail(commands), gone, gone) \o <<>>
    BY <1>2 DEF DeleteInstance, Removing
  <1>6. QueueStep(gone, gone, <<>>) /\ NewFits(gone, gone, <<>>) /\ Range(<<>>) = {}
    BY <1>1, <1>5, NoneQueued, NoneNew, RemovalQueued
  <1> QED
    BY <1>1, <1>3, <1>4, <1>5, <1>6, WithdrawalKeeps DEF Moving

\* Tokens at boundary events own no scope.
LEMMA AttachedLeaves ==
  ASSUME IInv, NEW a
  PROVE  /\ Attached(a) \subseteq Live
         /\ \A u \in Live : tokens[u].owner \notin Attached(a)
         /\ \A u \in Live : Alternative(u) => tokens[u].link \notin Attached(a)
  <1>1. ASSUME NEW b \in Attached(a) PROVE b \in Live /\ Members(b) = {} /\ Kind(b) # "eventBased"
    <2>1. b \in Live /\ Kind(b) \in Boundaries
      BY DEF Attached
    <2> QED
      BY <2>1, TokenFacts DEF Boundaries, Scopes
  <1>2. ASSUME NEW u \in Live, Alternative(u) PROVE Kind(tokens[u].link) = "eventBased"
    BY <1>2 DEF IInv, AlternativesOK, AlternativePlaced, Rests
  <1> QED
    BY <1>1, <1>2 DEF Members

LEMMA BoundaryDeletedKeeps ==
  ASSUME IInv, NEW s, HeadIs("deleteBoundary", s), NEW a, DeleteBoundary(s, a)
  PROVE  IInv' /\ EmptiedStay
  <1>1. commands # <<>> /\ Head(commands).name = "deleteBoundary"
    BY DEF HeadIs
  <1>2. PICK gone : gone = Attached(a)
    OBVIOUS
  <1>3. /\ gone \subseteq Live /\ \A u \in Live : tokens[u].owner \in gone => u \in gone
        /\ \A u \in Live \ gone : Alternative(u) => tokens[u].link \notin gone
    BY <1>2, AttachedLeaves
  <1>4. CASE Abort
    BY <1>4, AbortKeeps
  <1>5. CASE ~Abort
    <2>1. /\ tokens' = Without(gone) /\ listening' = StillListening(gone)
          /\ waiting' = waiting \ gone /\ UNCHANGED <<environment, created, aborted>>
          /\ commands' = Purged(Tail(commands), gone, gone) \o <<>>
      BY <1>2, <1>5 DEF DeleteBoundary, Removing
    <2>2. QueueStep(gone, gone, <<>>) /\ NewFits(gone, gone, <<>>) /\ Range(<<>>) = {}
      BY <1>1, <2>1, NoneQueued, NoneNew, RemovalQueued
    <2> QED
      BY <1>1, <1>3, <2>1, <2>2, WithdrawalKeeps DEF Moving
  <1> QED
    BY <1>4, <1>5

LEMMA InterruptedKeeps ==
  ASSUME IInv, NEW a, HeadIs("interruptActivity", a), InterruptActivity(a)
  PROVE  IInv' /\ EmptiedStay
  <1>1. commands # <<>> /\ Head(commands).name = "interruptActivity"
    BY DEF HeadIs
  <1>2. CASE Kind(a) \notin ActivityKinds
    BY <1>2, AbortKeeps DEF InterruptActivity
  <1>3. CASE Kind(a) \in ActivityKinds
    <2>1. PICK gone : gone = Within({a}) \union Attached(a)
      OBVIOUS
    <2>2. /\ gone \subseteq Live /\ \A u \in Live : tokens[u].owner \in gone => u \in gone
      BY <2>1, WithinScopes, AttachedLeaves
    <2>3. \A u \in Live \ gone : Alternative(u) => tokens[u].link \notin gone
      BY <1>3, <2>1, AlternativesWithin, AttachedLeaves DEF ActivityKinds
    <2>4. /\ tokens' = Without(gone) /\ listening' = StillListening(gone)
          /\ waiting' = waiting \ gone /\ UNCHANGED <<environment, created, aborted>>
          /\ commands' = Purged(Tail(commands), gone, gone) \o <<>>
      BY <1>3, <2>1 DEF InterruptActivity, Removing
    <2>5. QueueStep(gone, gone, <<>>) /\ NewFits(gone, gone, <<>>) /\ Range(<<>>) = {}
      BY <1>1, <2>4, NoneQueued, NoneNew, RemovalQueued
    <2> QED
      BY <1>1, <2>2, <2>3, <2>4, <2>5, WithdrawalKeeps DEF Moving
  <1> QED
    BY <1>2, <1>3

LEMMA ShutdownKeeps ==
  ASSUME IInv, NEW s, HeadIs("shutdown", s), Shutdown(s)
  PROVE  IInv' /\ EmptiedStay
  <1> DEFINE c == Command("advanceToCompleted", s)
  <1>1. /\ s \in Live /\ TokenFits("shutdown", s) /\ Free(s) /\ ~Rests(s)
        /\ s \notin Range(listening) /\ s \notin waiting /\ State(s) # "DONE"
    BY HeadMoves DEF Main
  <1>2. commands # <<>> /\ Head(commands).name = "shutdown"
    BY DEF HeadIs
  <1>3. CASE Members(s) = {}
    BY <1>3, AbortKeeps DEF Shutdown
  <1>4. CASE Members(s) # {}
    <2>1. PICK gone : gone = Members(s)
      OBVIOUS
    <2>2. Kind(s) \in Scopes /\ \A u \in gone : Members(u) = {}
      BY <1>1, <2>1 DEF TokenFits
    <2>3. /\ gone \subseteq Live /\ \A u \in Live : tokens[u].owner \in gone => u \in gone
      BY <2>1, <2>2 DEF Members
    <2>4. ASSUME NEW u \in Live \ gone, Alternative(u) PROVE tokens[u].link \notin gone
      <3>1. tokens[tokens[u].link].owner = tokens[u].owner
        BY <2>4 DEF IInv, AlternativesOK, AlternativePlaced
      <3> QED
        BY <2>1, <3>1 DEF Members
    <2>5. /\ tokens' = Without(gone) /\ listening' = StillListening(gone)
          /\ waiting' = waiting \ gone /\ UNCHANGED <<environment, created, aborted>>
          /\ commands' = Purged(Tail(commands), gone, gone) \o <<c>>
      BY <1>4, <2>1 DEF Shutdown, Removing
    <2>6. c.name = "advanceToCompleted" /\ c.for = s
      BY DEF Command
    <2> HIDE DEF c
    <2>7. UNCHANGED <<model, created>>
      BY <2>5 DEF environment
    <2>8. s \notin gone
      BY <1>1, <2>1, TokenFacts DEF Members, TokenShaped
    <2>9. /\ TokenStep(None, gone, 0) /\ s \in Live' /\ State(s)' = State(s) /\ Kind(s)' = Kind(s)
          /\ Members(s)' = {}
      BY <1>1, <2>1, <2>3, <2>5, <2>7, <2>8, Withdrawal
    <2>10. s \notin Range(listening') /\ s \notin waiting'
      <3>1. None \notin Live
        BY DEF IInv, Typed, None
      <3>2. Range(listening') = Range(listening) \ gone
        BY <2>5, <3>1, RegistersTrimmed
      <3> QED
        BY <1>1, <2>5, <3>2
    <2>11. NewFit(c, gone, gone)
      <3>1. TokenFits(c.name, s)'
        BY <2>2, <2>6, <2>9 DEF TokenFits, Scopes, ActivityKinds
      <3>2. ArgumentFits(c)' /\ BoundaryFits(c)' /\ AlternativeMoves(c)'
        BY <2>2, <2>6, <2>9 DEF ArgumentFits, BoundaryFits, AlternativeMoves, Boundaries, Scopes
      <3> QED
        BY <1>1, <2>6, <2>8, <2>9, <2>10, <3>1, <3>2, GoesOn DEF Moving
    <2>12. QueueStep(gone, gone, <<c>>) /\ Range(<<c>>) = {c}
      BY <1>2, <2>5, OneQueued, RemovalQueued
    <2>13. NewFits(gone, gone, <<c>>)
      BY <2>11, <2>12, OneNew
    <2>14. \A d \in Range(<<c>>) : d.name # "createMergedToken"
      BY <2>6, <2>12
    <2> QED
      BY <1>2, <2>3, <2>4, <2>5, <2>12, <2>13, <2>14, WithdrawalKeeps DEF Moving
  <1> QED
    BY <1>3, <1>4

-----------------------------------------------------------------------------
\* A token that stays as it is, another one being advanced, is still on its way.
LEMMA StillUnderway ==
  ASSUME IInv, NEW t \in Live, NEW gone, t \notin gone, NEW shut, NEW new,
         QueueStep(gone, shut, new), State(t)' = State(t), Kind(t)' = Kind(t),
         t \in waiting => t \in waiting',
         commands # <<>> => Head(commands).name \notin Moving
  PROVE  ~aborted => Underway(t)'
  <1> SUFFICES ASSUME ~aborted PROVE Underway(t)'
    OBVIOUS
  <1>1. Underway(t)
    BY DEF IInv, OnTheMove
  <1>2. ASSUME NEW c \in Queued, c.name \in Moving \ {"run"}, c.for = t PROVE c \in Queued'
    <2>1. commands # <<>>
      BY DEF Queued, Range
    <2>2. c \in Rest
      BY <1>2, <2>1, RestQueued DEF IInv, Typed
    <2>3. c \in Left(gone, shut)
      BY <1>2, <2>2 DEF Left, Stays, Moving, ByScope
    <2> QED
      BY <2>3 DEF QueueStep
  <1>3. ASSUME NEW c \in Queued, c.name = "run", c.for = t PROVE Kind(t) # "inclusive"
    BY <1>3 DEF IInv, CommandsOK, CommandOK, TokenFits, Scopes
  <1> QED
    BY <1>1, <1>2, <1>3 DEF Underway, Moving

\* A token resting as it did is not about to be advanced.
LEMMA StillAtRest ==
  ASSUME IInv, NEW t, NEW gone, NEW shut,
         t \in Live \ gone => State(t)' = State(t),
         t \in Range(listening') => t \in Range(listening), t \in waiting' => t \in waiting
  PROVE  RestsAfter(t, gone, shut)
  <1> SUFFICES ASSUME t \in Live \ gone,
                      State(t)' = "DONE" \/ t \in Range(listening') \/ t \in waiting',
                      NEW c \in Left(gone, shut), c.name \in Main
               PROVE  c.for # t
    BY DEF RestsAfter
  <1>1. Unmoved(t)
    BY DEF IInv, ListeningOK, WaitingOK, DoneOK
  <1>2. c \in Queued
    BY RestQueued DEF IInv, Typed, Left
  <1> QED
    BY <1>1, <1>2 DEF Unmoved

LEMMA TerminatedKeeps ==
  ASSUME IInv, NEW t, HeadIs("terminate", t), Terminate(t)
  PROVE  IInv' /\ EmptiedStay
  <1> DEFINE b == Command("updateFailed", t)
             c == Command("handleFailure", t)
             r == [tokens[t] EXCEPT !.owned = Kind(t) = "process"]
  <1>1. /\ commands # <<>> /\ Head(commands).name = "terminate" /\ Head(commands).for = t
        /\ t \in Live /\ State(t) # "READY"
        /\ \A d \in Rest : /\ CommandOK(d) /\ InOrder(Head(commands), d)
                           /\ Compatible(d, Head(commands))
    BY HeadFits DEF HeadIs, CommandOK, TokenFits
  <1>2. CASE ~tokens[t].owned
    BY <1>2, AbortKeeps DEF Terminate
  <1>3. CASE tokens[t].owned
    <2>1. PICK gone, shut : /\ gone = Within(Members(t))
                            /\ shut = IF Kind(t) = "process" THEN gone ELSE {t} \union gone
      OBVIOUS
    <2>2. /\ tokens' = [Without(gone) EXCEPT ![t].owned = Kind(t) = "process"]
          /\ listening' = StillListening(gone) /\ waiting' = waiting \ gone
          /\ UNCHANGED <<environment, created, aborted>>
          /\ commands' = Purged(Tail(commands), gone, shut) \o <<b, c>>
      BY <1>3, <2>1 DEF Terminate
    <2>3. b.name = "updateFailed" /\ b.for = t /\ c.name = "handleFailure" /\ c.for = t
      BY DEF Command
    <2> HIDE DEF b, c
    <2>4. /\ tokens[t] \in Records /\ TokenShaped(t) /\ Kind(t) \in Scopes
          /\ created \in Nat /\ created \in Ids /\ None \notin Live
      BY <1>1, <1>3, TokenFacts, FlowAssumption DEF TokenShaped, IInv, Typed, Ids, None
    <2>5. /\ gone \subseteq Live /\ \A u \in Live : tokens[u].owner \in gone => u \in gone
          /\ Members(t) \subseteq gone /\ t \notin gone
      BY <1>1, <2>1, WithinScopes, NotWithinItself DEF Members
    <2>6. /\ Live' = Live \ gone /\ tokens'[t] = r
          /\ \A u \in Live \ gone : u # t => tokens'[u] = tokens[u]
      BY <1>1, <2>2, <2>5 DEF Live, Without
    <2>7. /\ r \in Records /\ r.node = tokens[t].node /\ r.owner = tokens[t].owner
          /\ r.link = tokens[t].link /\ r.flow = tokens[t].flow /\ r.state = tokens[t].state
          /\ r.owned = (Kind(t) = "process")
      BY <2>4 DEF Records
    <2> HIDE DEF r
    <2>8. model' = model /\ created' = created /\ Nodes' = Nodes
      BY <2>2 DEF environment, Nodes
    <2>9. /\ \A u \in Live \ gone : Node(u)' = Node(u) /\ Kind(u)' = Kind(u) /\ State(u)' = State(u)
          /\ \A u \in Live \ gone : tokens'[u].owner = tokens[u].owner
      <3>1. \A u \in Live \ gone : /\ tokens'[u].node = tokens[u].node
                                   /\ tokens'[u].state = tokens[u].state
                                   /\ tokens'[u].owner = tokens[u].owner
        BY <2>6, <2>7
      <3> QED
        BY <2>8, <3>1 DEF Node, Kind, State
    <2>10. Members(t)' = {}
      BY <2>5, <2>6, <2>9 DEF Members
    <2>11. /\ tokens'[t].owner = tokens[t].owner /\ tokens'[t].link = tokens[t].link
           /\ tokens'[t].flow = tokens[t].flow /\ tokens'[t].owned = (Kind(t) = "process")
           /\ tokens'[t] \in Records
      BY <2>6, <2>7
    <2>12. TokenShaped(t)'
      <3>1. PICK l : l = tokens[t].link
        OBVIOUS
      <3>2. tokens'[t].link = l /\ l < t /\ (l \in Live' => Kind(l)' # "process")
        BY <2>4, <2>6, <2>9, <2>11, <3>1 DEF TokenShaped
      <3>3. tokens'[t].owner < t /\ (Kind(t)' = "process" => tokens'[t].owner = None)
        BY <1>1, <2>4, <2>5, <2>9, <2>11 DEF TokenShaped
      <3>4. Kind(t)' \in Scopes /\ State(t)' # "READY"
        BY <1>1, <2>4, <2>5, <2>9
      <3>5. tokens'[t] \in [node : Nodes', state : States, owner : 0..created', link : 0..created',
                            flow : {<<>>} \union (Nodes' \X Nodes'), owned : BOOLEAN]
        BY <2>8, <2>11 DEF Records
      <3> QED
        BY <3>2, <3>3, <3>4, <3>5 DEF TokenShaped
    <2>13. TokenStep(t, gone, 0)
      <3>1. Touched(t, gone)
        <4>1. Members(t) \ gone = {}
          BY <2>5
        <4> QED
          BY <1>1, <2>5, <2>9, <2>11, <2>12, <4>1 DEF Touched
      <3>2. created' <= MaxTokens
        BY <2>4, <2>8, FlowAssumption DEF Ids
      <3>3. created + 0 = created /\ (created + 1)..(created + 0) = {}
        BY <2>4
      <3> QED
        BY <2>5, <2>6, <2>8, <3>1, <3>2, <3>3 DEF TokenStep
    <2>14. EnvironmentStep
      BY <2>2, EnvironmentKept
    <2>15. /\ RegisterStep(t, gone) /\ Range(listening') = Range(listening) \ gone
           /\ waiting' \subseteq waiting
      BY <2>2, <2>9, RegistersTrimmed
    <2>16. QueueStep(gone, shut, <<b, c>>) /\ Range(<<b, c>>) = {b, c}
      BY <1>1, <2>2, TwoQueued, RemovalQueued
    <2>17. \A d \in Rest : d.for = t =>
             d.name \notin {"advanceToReady", "advanceToEntered", "advanceToBusy", "run",
                            "advanceToDeparting", "handleDivergingGateway", "advanceToArrived"}
      <3> SUFFICES ASSUME NEW d \in Rest, d.for = t
          PROVE d.name \notin {"advanceToReady", "advanceToEntered", "advanceToBusy", "run",
                               "advanceToDeparting", "handleDivergingGateway", "advanceToArrived"}
        OBVIOUS
      <3>1. d.name \notin {"advanceToReady", "advanceToEntered"}
        BY <1>1, <2>4 DEF InOrder, Alone, Scopes, ActivityKinds
      <3>2. d.name \notin {"advanceToBusy", "run"}
        BY <1>1, <2>4 DEF Compatible, Failing
      <3>3. d.name \notin {"advanceToDeparting", "handleDivergingGateway", "advanceToArrived"}
        BY <1>1, <1>3 DEF CommandOK, TokenFits
      <3> QED
        BY <3>1, <3>2, <3>3
    <2>18. LeftFits(t, gone, shut)
      <3>1. tokens'[t].owned = tokens[t].owned \/ tokens'[t].owned = FALSE
        BY <1>3, <2>4, <2>11 DEF Records
      <3> QED
        BY <1>1, <2>5, <2>9, <2>11, <2>13, <2>15, <2>16, <2>17, <3>1, LeftFitsFailing
    <2>19. RestsAfter(t, gone, shut)
      BY <2>9, <2>15, StillAtRest
    <2>20. AlternativesStep(t, gone, 0)
      <3>1. ASSUME NEW u \in Live \ gone, Alternative(u) PROVE tokens[u].link \notin gone
        <4>1. SUFFICES ASSUME tokens[u].link \in gone PROVE FALSE
          OBVIOUS
        <4>2. PICK g : g = tokens[u].link
          OBVIOUS
        <4>3. g \in Members(t) /\ tokens[g].owner = tokens[u].owner
          BY <2>1, <3>1, <4>1, <4>2, AlternativesWithin
        <4> QED
          BY <2>5, <4>3 DEF Members
      <3>2. ~Rests(t) /\ ~Alternative(t)
        BY <1>1, <2>4, AlternativeAt DEF Rests, Scopes
      <3>3. ~Alternative(t)'
        BY <1>1, <2>5, <2>9, <2>11, <3>2 DEF Alternative
      <3>4. \A u : ~HeadIs("handleEventBasedGatewayActivation", u)
        BY <1>1 DEF HeadIs
      <3>5. (created + 1)..(created + 0) = {}
        BY <2>4
      <3> QED
        BY <3>1, <3>2, <3>3, <3>4, <3>5 DEF AlternativesStep
    <2>21. UnderwayStep(t, gone, 0)
      <3>1. ~aborted => Underway(t)'
        <4>1. t \notin waiting
          BY <2>4 DEF IInv, WaitingOK, Scopes, Gateways
        <4> QED
          BY <1>1, <2>5, <2>9, <2>16, <4>1, StillUnderway DEF Moving
      <3>2. (created + 1)..(created + 0) = {}
        BY <2>4
      <3> QED
        BY <1>1, <3>1, <3>2 DEF UnderwayStep, Moving
    <2>22. NewFit(b, gone, shut) /\ NewFit(c, gone, shut)
      <3>1. t \in Live' /\ Kind(t)' = Kind(t)
        BY <1>1, <2>5, <2>6, <2>9
      <3>2. CommandOK(b)'
        BY <2>3, <2>4, <2>10, <3>1 DEF CommandOK, TokenFits, ArgumentFits, BoundaryFits, Moving
      <3>3. CommandOK(c)'
        BY <2>3, <3>1 DEF CommandOK, TokenFits, ArgumentFits, BoundaryFits, Moving
      <3> QED
        BY <1>1, <2>3, <2>5, <2>13, <2>17, <3>1, <3>2, <3>3, FailureGoesOn DEF Failing
    <2>23. NewFits(gone, shut, <<b, c>>)
      <3>1. Compatible(b, c)' /\ Compatible(c, b)'
        BY <2>3 DEF Compatible
      <3>2. InOrder(b, c)'
        BY <2>3 DEF InOrder, Alone, Main, Moving
      <3> QED
        BY <2>16, <2>22, <3>1, <3>2, TwoNew
    <2>24. StepOK(t, gone, 0, shut, <<b, c>>)
      BY <2>13, <2>14, <2>15, <2>16, <2>18, <2>19, <2>20, <2>21, <2>23 DEF StepOK
    <2>25. \A d \in Range(<<b, c>>) : d.name # "createMergedToken"
      BY <2>3, <2>16
    <2> QED
      BY <1>1, <2>24, <2>25, PlainStepKeeps DEF InclusiveMerge
  <1> QED
    BY <1>2, <1>3

LEMMA GatewayActivatedKeeps ==
  ASSUME IInv, NEW t, HeadIs("handleEventBasedGatewayActivation", t),
         HandleEventBasedGatewayActivation(t)
  PROVE  IInv' /\ EmptiedStay
  <1> DEFINE r == [tokens[t] EXCEPT !.link = None]
  <1>1. /\ commands # <<>> /\ Head(commands).name = "handleEventBasedGatewayActivation"
        /\ Head(commands).for = t
        /\ t \in Live /\ Kind(t) \notin Boundaries
        /\ \A d \in Rest : CommandOK(d)
    BY HeadFits DEF HeadIs, CommandOK, TokenFits
  <1>2. CASE tokens[t].link \notin Live
    BY <1>2, AbortKeeps DEF HandleEventBasedGatewayActivation
  <1>3. CASE tokens[t].link \in Live
    <2>1. PICK g : g = tokens[t].link
      OBVIOUS
    <2>2. PICK gone : gone = (Alternatives(g) \ {t}) \union {g}
      OBVIOUS
    <2>3. /\ tokens' = [Without(gone) EXCEPT ![t].link = None]
          /\ listening' = StillListening(gone) /\ waiting' = waiting \ gone
          /\ UNCHANGED <<environment, created, aborted>>
          /\ commands' = Purged(Tail(commands), gone, gone) \o <<>>
      BY <1>3, <2>1, <2>2 DEF HandleEventBasedGatewayActivation, Losers, Removing
    <2>4. /\ tokens[t] \in Records /\ TokenShaped(t)
          /\ created \in Nat /\ created \in Ids /\ None \notin Live /\ t \in Nat
      BY <1>1, TokenFacts, FlowAssumption DEF IInv, Typed, Ids, None
    <2>5. Alternative(t)
      BY <1>1, <1>3, <2>4 DEF Alternative
    <2>6. /\ g \in Live /\ g # t /\ Kind(g) = "eventBased" /\ tokens[g].link = None
      <3>1. AlternativePlaced(t)
        BY <1>1, <2>5 DEF IInv, AlternativesOK
      <3>2. g < t
        BY <2>1, <2>4 DEF TokenShaped
      <3> QED
        BY <2>1, <2>4, <3>1, <3>2 DEF AlternativePlaced, Rests
    <2>7. /\ gone \subseteq Live /\ t \notin gone
          /\ \A u \in Live : tokens[u].link = g /\ Alternative(u) /\ u # t => u \in gone
          /\ \A v \in gone : v = g \/ (Alternative(v) /\ tokens[v].link = g)
      <3>1. g # None
        BY <2>4, <2>6
      <3> QED
        BY <2>2, <2>6, <3>1 DEF Alternatives, Alternative
    <2>8. ASSUME NEW u \in Live PROVE tokens[u].owner \notin gone
      <3> SUFFICES ASSUME tokens[u].owner \in gone PROVE FALSE
        OBVIOUS
      <3>1. PICK v \in gone : v = tokens[u].owner
        OBVIOUS
      <3>2. v \in Live /\ Kind(v) \notin Scopes
        BY <2>6, <2>7, AlternativeAt DEF Scopes
      <3> QED
        BY <3>1, <3>2, TokenFacts DEF Members
    <2>9. /\ Live' = Live \ gone /\ tokens'[t] = r
          /\ \A u \in Live \ gone : u # t => tokens'[u] = tokens[u]
      BY <1>1, <2>3, <2>7 DEF Live, Without
    <2>10. /\ r \in Records /\ r.node = tokens[t].node /\ r.owner = tokens[t].owner
           /\ r.link = None /\ r.flow = tokens[t].flow /\ r.state = tokens[t].state
           /\ r.owned = tokens[t].owned
      BY <2>4 DEF Records, None
    <2> HIDE DEF r
    <2>11. model' = model /\ created' = created /\ Nodes' = Nodes
      BY <2>3 DEF environment, Nodes
    <2>12. /\ \A u \in Live \ gone : Node(u)' = Node(u) /\ Kind(u)' = Kind(u) /\ State(u)' = State(u)
           /\ \A u \in Live \ gone : tokens'[u].owner = tokens[u].owner
      <3>1. \A u \in Live \ gone : /\ tokens'[u].node = tokens[u].node
                                   /\ tokens'[u].state = tokens[u].state
                                   /\ tokens'[u].owner = tokens[u].owner
        BY <2>9, <2>10
      <3> QED
        BY <2>11, <3>1 DEF Node, Kind, State
    <2>13. Members(t) = {} /\ Members(t)' = {} /\ Kind(t) \in {"eventBased", "timerCatch", "signalCatch"}
      <3>1. Kind(t) \in {"eventBased", "timerCatch", "signalCatch"}
        BY <1>1, <2>5, AlternativeAt
      <3>2. Members(t) = {}
        BY <1>1, <3>1, TokenFacts DEF Scopes
      <3> QED
        BY <2>9, <2>12, <3>1, <3>2 DEF Members
    <2>14. /\ tokens'[t].owner = tokens[t].owner /\ tokens'[t].link = None
           /\ tokens'[t].flow = tokens[t].flow /\ tokens'[t].owned = tokens[t].owned
           /\ tokens'[t] \in Records
      BY <2>9, <2>10
    <2>15. TokenShaped(t)'
      <3>1. None < t /\ None \notin Live'
        BY <2>4, <2>6, <2>9, <1>1 DEF IInv, Typed, None
      <3>2. /\ tokens'[t].owner < t /\ (Kind(t)' = "process" => tokens'[t].owner = None)
            /\ (tokens'[t].owned => Kind(t)' \in Scopes)
            /\ (State(t)' = "READY" /\ Kind(t)' \in Scopes => tokens'[t].owned)
        BY <1>1, <2>4, <2>7, <2>12, <2>14 DEF TokenShaped
      <3>3. tokens'[t] \in [node : Nodes', state : States, owner : 0..created', link : 0..created',
                            flow : {<<>>} \union (Nodes' \X Nodes'), owned : BOOLEAN]
        BY <2>11, <2>14 DEF Records
      <3> QED
        BY <2>14, <3>1, <3>2, <3>3 DEF TokenShaped
    <2>16. TokenStep(t, gone, 0)
      <3>1. Touched(t, gone)
        BY <1>1, <2>7, <2>12, <2>13, <2>14, <2>15 DEF Touched
      <3>2. created' <= MaxTokens
        BY <2>4, <2>11, FlowAssumption DEF Ids
      <3>3. created + 0 = created /\ (created + 1)..(created + 0) = {}
        BY <2>4
      <3> QED
        BY <2>7, <2>8, <2>9, <2>11, <3>1, <3>2, <3>3 DEF TokenStep
    <2>17. EnvironmentStep
      BY <2>3, EnvironmentKept
    <2>18. /\ RegisterStep(t, gone) /\ Range(listening') = Range(listening) \ gone
           /\ waiting' \subseteq waiting
      BY <2>3, <2>12, RegistersTrimmed
    <2>19. QueueStep(gone, gone, <<>>) /\ NewFits(gone, gone, <<>>) /\ Range(<<>>) = {}
      BY <1>1, <2>3, NoneQueued, NoneNew, RemovalQueued
    <2>20. LeftFits(t, gone, gone)
      <3>1. ASSUME NEW c \in Left(gone, gone), c.for = t
            PROVE  CommandOK(c)' /\ AlternativeMoves(c)'
        <4>1. AlternativeMoves(c)'
          BY <2>14, <3>1 DEF AlternativeMoves, Alternative
        <4> SUFFICES ASSUME c.name # "broadcastSignal" PROVE CommandOK(c)'
          BY <4>1 DEF CommandOK
        <4>2. TokenFits(c.name, t) /\ ArgumentFits(c)
          BY <1>1, <3>1 DEF CommandOK, Left
        <4>3. Kind(t)' = Kind(t) /\ State(t)' = State(t) /\ Node(t)' = Node(t) /\ t \in Live'
          BY <1>1, <2>7, <2>9, <2>12
        <4>4. TokenFits(c.name, t)'
          BY <2>11, <2>13, <2>14, <2>18, <4>2, <4>3 DEF TokenFits, IsFlow, FlowsFrom
        <4>5. ArgumentFits(c)' /\ BoundaryFits(c)'
          BY <1>1, <2>11, <3>1, <4>2, <4>3 DEF ArgumentFits, BoundaryFits, IsFlow, FlowsFrom
        <4> QED
          BY <3>1, <4>3, <4>4, <4>5 DEF CommandOK
      <3> QED
        BY <3>1 DEF LeftFits
    <2>21. RestsAfter(t, gone, gone)
      BY <2>12, <2>18, StillAtRest
    <2>22. AlternativesStep(t, gone, 0)
      <3>1. ASSUME NEW u \in Live \ gone, Alternative(u), tokens[u].link \in gone PROVE u = t
        <4>1. PICK v : v = tokens[u].link
          OBVIOUS
        <4>2. tokens[v].link = None
          BY <3>1, <4>1 DEF IInv, AlternativesOK, AlternativePlaced
        <4>3. v = g
          BY <2>7, <3>1, <4>1, <4>2 DEF Alternative
        <4> QED
          BY <2>7, <3>1, <4>1, <4>3
      <3>2. Rests(t) => Kind(t)' = "eventBased" /\ State(t)' = "BUSY"
        BY <1>1, <2>7, <2>12 DEF Rests
      <3>3. ~Alternative(t)'
        BY <2>14 DEF Alternative
      <3>4. \A u : HeadIs("handleEventBasedGatewayActivation", u) => u = t
        BY <1>1 DEF HeadIs
      <3>5. (created + 1)..(created + 0) = {}
        BY <2>4
      <3> QED
        BY <2>14, <3>1, <3>2, <3>3, <3>4, <3>5 DEF AlternativesStep
    <2>23. UnderwayStep(t, gone, 0)
      <3>1. ~aborted => Underway(t)'
        <4>1. t \in waiting => t \in waiting'
          BY <2>3, <2>7
        <4> QED
          BY <1>1, <2>7, <2>12, <2>19, <4>1, StillUnderway DEF Moving
      <3>2. (created + 1)..(created + 0) = {}
        BY <2>4
      <3> QED
        BY <1>1, <3>1, <3>2 DEF UnderwayStep, Moving
    <2>24. StepOK(t, gone, 0, gone, <<>>)
      BY <2>16, <2>17, <2>18, <2>19, <2>20, <2>21, <2>22, <2>23 DEF StepOK
    <2> QED
      BY <1>1, <2>19, <2>24, PlainStepKeeps DEF InclusiveMerge
  <1> QED
    BY <1>2, <1>3

-----------------------------------------------------------------------------
\* Tokens are added to those that remain.
MadeFrom(gone, k, new) ==
  /\ gone \subseteq Live /\ k \in Nat /\ Len(new) = k
  /\ (gone = {} /\ tokens' = Added(tokens, new)) \/ tokens' = Added(Without(gone), new)

LEMMA AddedTokens ==
  ASSUME IInv, NEW gone, NEW k, NEW new, MadeFrom(gone, k, new)
  PROVE  /\ Live' = (Live \ gone) \union (created + 1)..(created + k)
         /\ \A u \in Live \ gone : tokens'[u] = tokens[u]
         /\ \A i \in 1..k : tokens'[created + i] = new[i]
  <1> USE DEF MadeFrom
  <1>1. created \in Nat /\ \A u \in Live : u \in 1..created
    BY FlowAssumption DEF IInv, Typed, Ids
  <1>2. PICK have : /\ tokens' = Added(have, new) /\ DOMAIN have = Live \ gone
                    /\ \A u \in Live \ gone : have[u] = tokens[u]
    <2>1. CASE gone = {} /\ tokens' = Added(tokens, new)
      BY <2>1 DEF Live
    <2>2. CASE tokens' = Added(Without(gone), new)
      <3>1. DOMAIN Without(gone) = Live \ gone /\ \A u \in Live \ gone : Without(gone)[u] = tokens[u]
        BY DEF Without
      <3> QED
        BY <2>2, <3>1
    <2> QED
      BY <2>1, <2>2
  <1>3. tokens' = [u \in (Live \ gone) \union (created + 1)..(created + k) |->
                     IF u \in Live \ gone THEN have[u] ELSE new[u - created]]
    BY <1>2 DEF Added
  <1>4. Live' = (Live \ gone) \union (created + 1)..(created + k)
    BY <1>3 DEF Live
  <1>5. \A u \in Live \ gone : tokens'[u] = tokens[u]
    BY <1>2, <1>3
  <1>6. ASSUME NEW i \in 1..k PROVE tokens'[created + i] = new[i]
    <2>1. created + i \in (created + 1)..(created + k) /\ created + i \notin Live
      BY <1>1
    <2>2. (created + i) - created = i
      BY <1>1
    <2> QED
      BY <1>3, <2>1, <2>2
  <1> QED
    BY <1>4, <1>5, <1>6

\* A token is created where others are, for the scope of another.
Births(n, st, s, l) ==
  [node : {n}, state : {st}, owner : {s}, link : {l}, flow : {<<>>}, owned : {FALSE}]

Creates(gone, k, s, st, l, node) ==
  /\ gone \subseteq Live /\ \A u \in Live : tokens[u].owner \in gone => u \in gone
  /\ k \in Nat /\ created' = created + k /\ created + k <= MaxTokens /\ model' = model
  /\ Live' = (Live \ gone) \union (created + 1)..(created + k)
  /\ \A u \in Live \ gone : tokens'[u] = tokens[u]
  /\ s \in Live \ gone /\ tokens[s].owned /\ State(s) \in {"BUSY", "FAILING"}
  /\ Members(s) # {} \/ HeadIs("run", s)
  /\ st \in States \ {"DONE", "READY"}
  /\ l \in {None} \union Live /\ (l \in Live => Kind(l) # "process")
  /\ \A i \in 1..k : node[i] \in Nodes /\ model.kind[node[i]] # "process"
  /\ \A i \in 1..k : tokens'[created + i] \in Births(node[i], st, s, l)

BornSo(gone, k, s, st, l, node) ==
  /\ \A x \in (created + 1)..(created + k) :
       /\ x \notin Live /\ x \in Live' /\ Members(x)' = {}
       /\ State(x)' = st /\ ~tokens'[x].owned
       /\ tokens'[x].link = l /\ tokens'[x].owner = s
  /\ \A i \in 1..k : \A x : x = created + i =>
       /\ x \in (created + 1)..(created + k)
       /\ Node(x)' = node[i] /\ Kind(x)' = model.kind[node[i]]
  /\ \A u \in Live \ gone :
       State(u)' = State(u) /\ Node(u)' = Node(u) /\ Kind(u)' = Kind(u)
  /\ Nodes' = Nodes

LEMMA Creation ==
  ASSUME IInv, NEW t, NEW gone, NEW k, NEW s, NEW st, NEW l, NEW node,
         Creates(gone, k, s, st, l, node)
  PROVE  TokenStep(t, gone, k) /\ BornSo(gone, k, s, st, l, node)
  <1> USE DEF Creates
  <1>1. /\ created \in Nat /\ Live \subseteq 1..created /\ None \notin Live
        /\ s \in Nat /\ s <= created /\ l \in Nat /\ l <= created
    <2>1. created \in Nat /\ Live \subseteq 1..created
      BY FlowAssumption DEF IInv, Typed, Ids
    <2> QED
      BY <2>1 DEF None
  <1>2. Nodes' = Nodes
    BY DEF Nodes
  <1>3. \A u \in Live \ gone : State(u)' = State(u) /\ Node(u)' = Node(u) /\ Kind(u)' = Kind(u)
    BY DEF State, Node, Kind
  <1>4. ASSUME NEW x \in (created + 1)..(created + k)
        PROVE  /\ Fresh(x) /\ x \notin Live /\ x \in Live'
               /\ Node(x)' = node[x - created] /\ Kind(x)' = model.kind[node[x - created]]
               /\ State(x)' = st /\ ~tokens'[x].owned /\ tokens'[x].link = l
               /\ tokens'[x].owner = s
    <2>1. PICK i : i = x - created
      OBVIOUS
    <2>2. i \in 1..k /\ created + i = x
      BY <1>1, <2>1
    <2>3. tokens'[x] \in Births(node[i], st, s, l)
      BY <2>2
    <2>4. PICK n : n = node[i]
      OBVIOUS
    <2>5. n \in Nodes /\ model.kind[n] # "process"
      BY <2>2, <2>4
    <2>6. /\ tokens'[x].node = n /\ tokens'[x].state = st /\ tokens'[x].owner = s
          /\ tokens'[x].link = l /\ tokens'[x].flow = <<>> /\ tokens'[x].owned = FALSE
          /\ tokens'[x] \in [node : Nodes, state : States, owner : 0..(created + k),
                             link : 0..(created + k), flow : {<<>>} \union (Nodes \X Nodes),
                             owned : BOOLEAN]
      <3>1. s \in 0..(created + k) /\ l \in 0..(created + k)
        BY <1>1
      <3> QED
        BY <2>3, <2>4, <2>5, <3>1 DEF Births
    <2>7. x \notin Live /\ x \in Live' /\ s < x /\ l < x /\ x \in Nat
      BY <1>1
    <2>8. Node(x)' = n /\ Kind(x)' = model.kind[n] /\ State(x)' = st
      BY <2>6 DEF Node, Kind, State
    <2>9. l \in Live' => Kind(l)' # "process"
      <3>1. l \in Live' => l \in Live \ gone
        BY <1>1
      <3> QED
        BY <1>3, <3>1
    <2>10. TokenShaped(x)'
      BY <1>2, <2>5, <2>6, <2>7, <2>8, <2>9 DEF TokenShaped
    <2>11. InScope(x)'
      <3>1. s \in Live' /\ tokens'[s].owned /\ State(s)' \in {"BUSY", "FAILING"}
        BY <1>3
      <3> QED
        BY <2>6, <3>1 DEF InScope
    <2>12. Fresh(x)
      BY <2>5, <2>6, <2>8, <2>10, <2>11 DEF Fresh
    <2> QED
      BY <2>1, <2>4, <2>6, <2>7, <2>8, <2>12
  <1>5. ASSUME t \in Live \ gone PROVE Touched(t, gone)
    <2>1. /\ TokenShaped(t) /\ tokens'[t] = tokens[t] /\ Kind(t)' = Kind(t) /\ State(t)' = State(t)
          /\ Node(t)' = Node(t) /\ (Members(t) # {} => tokens[t].owned /\ State(t) \in {"BUSY", "FAILING"})
      BY <1>3, <1>5, TokenFacts
    <2>2. PICK m : m = tokens[t].link
      OBVIOUS
    <2>3. m \in Live' => Kind(m)' # "process"
      <3>1. m \in 0..created
        BY <2>1, <2>2 DEF TokenShaped
      <3>2. m \in Live' => m \in Live \ gone
        BY <1>1, <3>1
      <3> QED
        BY <1>3, <2>1, <2>2, <3>2 DEF TokenShaped
    <2>4. tokens[t] \in [node : Nodes, state : States, owner : 0..(created + k),
                         link : 0..(created + k), flow : {<<>>} \union (Nodes \X Nodes),
                         owned : BOOLEAN]
      <3>1. 0..created \subseteq 0..(created + k)
        BY <1>1
      <3> QED
        BY <2>1, <3>1 DEF TokenShaped
    <2>5. TokenShaped(t)'
      BY <1>2, <2>1, <2>2, <2>3, <2>4 DEF TokenShaped
    <2> QED
      BY <2>1, <2>5 DEF Touched
  <1>6. TokenStep(t, gone, k)
    BY <1>4, <1>5 DEF TokenStep
  <1>7. ASSUME NEW x \in (created + 1)..(created + k) PROVE Members(x)' = {}
    <2>2. x \in Nat /\ x > created
      BY <1>1
    <2>3. \A u \in Live \ gone : tokens'[u].owner # x
      <3>1. ASSUME NEW u \in Live \ gone PROVE tokens'[u].owner # x
        <4>1. tokens'[u] = tokens[u] /\ tokens[u].owner \in 0..created
          BY TokenFacts DEF TokenShaped
        <4> QED
          BY <1>1, <2>2, <4>1
      <3> QED
        BY <3>1
    <2>4. \A y \in (created + 1)..(created + k) : tokens'[y].owner # x
      BY <1>1, <1>4, <2>2
    <2> QED
      BY <2>3, <2>4 DEF Members
  <1>8. ASSUME NEW i \in 1..k, NEW x, x = created + i
         PROVE  /\ x \in (created + 1)..(created + k)
                /\ Node(x)' = node[i] /\ Kind(x)' = model.kind[node[i]]
    <2>1. x \in (created + 1)..(created + k) /\ x - created = i
      BY <1>1, <1>8
    <2> QED
      BY <1>4, <2>1
  <1> QED
    BY <1>2, <1>3, <1>4, <1>6, <1>7, <1>8 DEF BornSo

\* The registers are left as they are, and none of the tokens removed is in them.
LEMMA RegistersStay ==
  ASSUME IInv, NEW t, NEW gone, gone \intersect (Range(listening) \union waiting) = {},
         t \notin Range(listening), t \notin waiting, UNCHANGED registers
  PROVE  /\ RegisterStep(t, gone)
         /\ Range(listening') \subseteq Live /\ waiting' \subseteq Live
         /\ t \notin Range(listening') /\ t \notin waiting'
  <1>1. listening' = listening /\ waiting' = waiting
    BY DEF registers
  <1>2. /\ IsQueue(listening) /\ (\A u : ~Before(listening, u, u))
        /\ Range(listening) \subseteq Live /\ waiting \subseteq Live
    BY DEF IInv, Typed, ListeningOK
  <1> QED
    BY <1>1, <1>2 DEF RegisterStep

\* A command advances a token just created.
LEMMA CreatedFits ==
  ASSUME IInv, NEW t, NEW gone, NEW k, TokenStep(t, gone, k), NEW shut,
         NEW x \in (created + 1)..(created + k), NEW c, c.for = x,
         c.name \in {"advanceToEntered", "advanceToBusy", "advanceToDeparted"},
         Range(listening') \subseteq Live, waiting' \subseteq Live,
         TokenFits(c.name, x)', ArgumentFits(c)', BoundaryFits(c)', AlternativeMoves(c)',
         c.name = "advanceToEntered" => Kind(x)' \notin ActivityKinds \union {"process"},
         c.name = "advanceToBusy" /\ Kind(x)' = "errorBoundary" =>
           \A d \in Rest : d.name = "handleFailure" => d.for # tokens'[x].link
  PROVE  NewFit(c, gone, shut)
  <1>1. x \notin Live /\ x # None
    <2>1. created \in Nat /\ Live \subseteq 1..created
      BY FlowAssumption DEF IInv, Typed, Ids
    <2> QED
      BY <2>1 DEF None
  <1>2. x \in Live' /\ State(x)' # "DONE"
    BY DEF TokenStep, Fresh
  <1>3. CommandOK(c)'
    BY <1>2 DEF CommandOK
  <1>4. ASSUME NEW d \in Left(gone, shut)
        PROVE  Compatible(c, d)' /\ Compatible(d, c)' /\ InOrder(d, c)'
    <2>1. d \in Rest /\ ~Alone(d)' /\ (d.name # "broadcastSignal" => d.for # x)
      BY <1>1, LeftFacts
    <2>2. d.name \in Main \union Failing => d.for # x
      BY <2>1 DEF Main, Moving, Failing
    <2>3. ~Alone(c)'
      BY DEF Alone
    <2>4. Compatible(c, d)'
      BY <2>2 DEF Compatible
    <2>5. Compatible(d, c)'
      BY DEF Compatible, Failing
    <2>6. InOrder(d, c)'
      BY <2>1, <2>2, <2>3 DEF InOrder
    <2> QED
      BY <2>4, <2>5, <2>6
  <1> QED
    BY <1>1, <1>2, <1>3, <1>4 DEF NewFit

\* No token is changed, while some are removed and created.
LEMMA NoneChanged ==
  ASSUME IInv, NEW gone, NEW shut
  PROVE  /\ LeftFits(None, gone, shut) /\ RestsAfter(None, gone, shut)
         /\ None \notin Live /\ None \notin Range(listening) /\ None \notin waiting
  <1>1. Live \subseteq 1..created /\ Range(listening) \subseteq Live /\ waiting \subseteq Live
    BY DEF IInv, Typed
  <1>2. None \notin Live
    BY <1>1 DEF None
  <1> QED
    BY <1>1, <1>2 DEF LeftFits, RestsAfter
LEMMA RunKeeps ==
  ASSUME IInv, NEW s, HeadIs("run", s), Run(s)
  PROVE  IInv' /\ EmptiedStay
  <1> DEFINE start == CHOOSE n \in Nodes : model.kind[n] = "start" /\ model.scope[n] = Node(s)
  <1>1. /\ s \in Live /\ TokenFits("run", s) /\ Free(s) /\ ~Rests(s)
        /\ s \notin Range(listening) /\ s \notin waiting
    BY HeadMoves DEF Main, Moving
  <1>2. /\ commands # <<>> /\ Head(commands).name = "run" /\ Head(commands).for = s
        /\ \A d \in Rest : Compatible(Head(commands), d)
    BY HeadFits DEF HeadIs
  <1>3. /\ Members(s) = {} /\ Kind(s) \in Scopes /\ tokens[s].owned /\ State(s) = "BUSY"
        /\ Node(s) \in Nodes
    BY <1>1, TokenFacts DEF TokenFits, Moving
  <1>4. PICK n : n = start
    OBVIOUS
  <1>5. n \in Nodes /\ model.kind[n] = "start"
    <2>1. \E m \in Nodes : model.kind[m] = "start" /\ model.scope[m] = Node(s)
      BY <1>3, ModelFits DEF ScopesStart, Nodes, Kind
    <2> QED
      BY <1>4, <2>1
  <1> HIDE DEF start
  <1>6. PICK x : x = created + 1
    OBVIOUS
  <1> DEFINE new == <<Token(n, "ENTERED", s, None)>>
             c == Command("advanceToBusy", x)
  <1>7. /\ created + 1 <= MaxTokens /\ created' = created + 1
        /\ tokens' = Added(tokens, new) /\ Enqueue(<<c>>)
        /\ UNCHANGED <<environment, aborted>> /\ UNCHANGED registers
    BY <1>4, <1>6 DEF Run, NewId, start
  <1>8. /\ Len(new) = 1 /\ new[1] = Token(n, "ENTERED", s, None)
    OBVIOUS
  <1>9. c.name = "advanceToBusy" /\ c.for = x
    BY DEF Command
  <1> HIDE DEF new, c
  <1>10. /\ Live' = (Live \ {}) \union (created + 1)..(created + 1)
         /\ \A u \in Live \ {} : tokens'[u] = tokens[u]
         /\ \A i \in 1..1 : tokens'[created + i] = new[i]
    <2>1. PICK gone, k : gone = {} /\ k = 1
      OBVIOUS
    <2>2. MadeFrom(gone, k, new)
      BY <1>7, <1>8, <2>1 DEF MadeFrom
    <2>3. /\ Live' = (Live \ gone) \union (created + 1)..(created + k)
          /\ \A u \in Live \ gone : tokens'[u] = tokens[u]
          /\ \A i \in 1..k : tokens'[created + i] = new[i]
      BY <2>2, AddedTokens
    <2> QED
      BY <2>1, <2>3
  <1>11. model' = model /\ EnvironmentStep
    BY <1>7, EnvironmentKept DEF environment
  <1>12. PICK node : node = [i \in 1..1 |-> n]
    OBVIOUS
  <1>13. \A i \in 1..1 : tokens'[created + i] \in Births(node[i], "ENTERED", s, None)
    <2>1. ASSUME NEW i \in 1..1 PROVE tokens'[created + i] \in Births(node[i], "ENTERED", s, None)
      <3>1. i = 1 /\ node[i] = n
        BY <1>12
      <3>2. tokens'[created + i] = Token(n, "ENTERED", s, None)
        BY <1>8, <1>10, <3>1
      <3>3. Token(n, "ENTERED", s, None) \in Births(n, "ENTERED", s, None)
        BY DEF Births, Token
      <3> QED
        BY <3>1, <3>2, <3>3
    <2> QED
      BY <2>1
  <1>14. /\ TokenStep(s, {}, 1)
         /\ x \notin Live /\ x \in Live' /\ Members(x)' = {} /\ State(x)' = "ENTERED"
         /\ ~tokens'[x].owned /\ tokens'[x].link = None /\ Kind(x)' = "start"
         /\ x \in (created + 1)..(created + 1) /\ (created + 1)..(created + 1) = {x}
         /\ \A u \in Live : State(u)' = State(u) /\ Node(u)' = Node(u) /\ Kind(u)' = Kind(u)
    <2>1. /\ TokenStep(s, {}, 1)
          /\ \A y \in (created + 1)..(created + 1) :
               /\ y \notin Live /\ y \in Live' /\ Members(y)' = {}
               /\ State(y)' = "ENTERED" /\ ~tokens'[y].owned
               /\ tokens'[y].link = None /\ tokens'[y].owner = s
          /\ \A i \in 1..1 : \A y : y = created + i =>
               /\ y \in (created + 1)..(created + 1)
               /\ Node(y)' = node[i] /\ Kind(y)' = model.kind[node[i]]
          /\ \A u \in Live \ {} :
               State(u)' = State(u) /\ Node(u)' = Node(u) /\ Kind(u)' = Kind(u)
      <3>1. \A i \in 1..1 : node[i] \in Nodes /\ model.kind[node[i]] # "process"
        BY <1>5, <1>12
      <3>2. "ENTERED" \in States \ {"DONE", "READY"} /\ None \notin Live /\ HeadIs("run", s)
        BY <1>2, NoneChanged DEF States, HeadIs
      <3>3. Creates({}, 1, s, "ENTERED", None, node)
        BY <1>1, <1>3, <1>7, <1>10, <1>11, <1>13, <3>1, <3>2 DEF Creates
      <3>4. TokenStep(s, {}, 1) /\ BornSo({}, 1, s, "ENTERED", None, node)
        BY <3>3, Creation
      <3> QED
        BY <3>4 DEF BornSo
    <2>2. 1 \in 1..1 /\ node[1] = n
      BY <1>12
    <2>3. created \in Nat
      BY <1>1, TokenFacts
    <2> QED
      BY <1>5, <1>6, <2>1, <2>2, <2>3
  <1>15. /\ RegisterStep(s, {}) /\ Range(listening') \subseteq Live /\ waiting' \subseteq Live
    BY <1>1, <1>7, RegistersStay
  <1>16. QueueStep({}, {}, <<c>>) /\ Range(<<c>>) = {c}
    BY <1>2, <1>7, EnqueueOne
  <1>17. NewFits({}, {}, <<c>>)
    <2>1. TokenFits(c.name, x)'
      BY <1>9, <1>14 DEF TokenFits, Throws, Gateways, Scopes
    <2>2. ArgumentFits(c)' /\ BoundaryFits(c)' /\ AlternativeMoves(c)'
      BY <1>9, <1>14 DEF ArgumentFits, BoundaryFits, AlternativeMoves, Alternative
    <2>3. NewFit(c, {}, {})
      BY <1>9, <1>14, <1>15, <2>1, <2>2, CreatedFits
    <2> QED
      BY <1>2, <1>7, <2>3, EnqueueOne
  <1>18. LeftFits(s, {}, {}) /\ RestsAfter(s, {}, {})
    <2>1. ASSUME NEW d \in Left({}, {}), d.for = s
          PROVE  CommandOK(d)' /\ AlternativeMoves(d)'
      <3>1. d \in Rest /\ CommandOK(d) /\ d.name \notin Main
        BY <1>1, <1>14, <2>1, LeftFacts DEF Free
      <3>2. d.name # "updateFailed"
        BY <1>2, <1>3, <2>1, <3>1 DEF Compatible, Failing
      <3>3. /\ tokens'[s] = tokens[s] /\ State(s)' = State(s) /\ Kind(s)' = Kind(s)
            /\ s \in Live' /\ listening' = listening
        BY <1>1, <1>7, <1>10, <1>14 DEF registers
      <3>4. TokenFits(d.name, s)'
        <4>1. d.name # "broadcastSignal" => TokenFits(d.name, s)
          BY <2>1, <3>1 DEF CommandOK
        <4> QED
          BY <3>1, <3>2, <3>3, <4>1 DEF TokenFits, Main, Moving
      <3>5. ArgumentFits(d)'
        BY <1>11, <2>1, <3>1 DEF CommandOK, ArgumentFits, Main, Moving, Nodes
      <3>6. BoundaryFits(d)' /\ AlternativeMoves(d)'
        BY <3>1 DEF BoundaryFits, AlternativeMoves, Main
      <3> QED
        BY <2>1, <3>3, <3>4, <3>5, <3>6 DEF CommandOK
    <2>2. RestsAfter(s, {}, {})
      BY <1>1, <1>14 DEF RestsAfter, Free, Left
    <2> QED
      BY <2>1, <2>2 DEF LeftFits
  <1>19. AlternativesStep(s, {}, 1)
    <2>1. ~Alternative(s)
      BY <1>1, <1>3, AlternativeAt DEF Scopes
    <2>2. ~Alternative(s)' /\ ~Alternative(x)'
      BY <1>1, <1>10, <1>14, <2>1 DEF Alternative
    <2>3. \A u : ~HeadIs("handleEventBasedGatewayActivation", u)
      BY <1>2 DEF HeadIs
    <2> QED
      BY <1>1, <1>14, <2>2, <2>3 DEF AlternativesStep
  <1>20. UnderwayStep(s, {}, 1)
    <2>1. Underway(s)' /\ Underway(x)'
      BY <1>1, <1>3, <1>14 DEF Underway, Scopes
    <2> QED
      BY <1>2, <1>14, <2>1 DEF UnderwayStep
  <1>21. StepOK(s, {}, 1, {}, <<c>>)
    BY <1>11, <1>14, <1>15, <1>16, <1>17, <1>18, <1>19, <1>20 DEF StepOK
  <1>22. \A d \in Range(<<c>>) : d.name # "createMergedToken"
    BY <1>9, <1>16
  <1> QED
    BY <1>2, <1>21, <1>22, PlainStepKeeps DEF InclusiveMerge

\* Commands given in a function on places.
LEMMA FunctionQueued ==
  ASSUME NEW k \in Nat, NEW q, DOMAIN q = 1..k, q = [i \in 1..k |-> q[i]]
  PROVE  IsQueue(q) /\ Len(q) = k /\ (\A c \in Range(q) : \E i \in 1..k : c = q[i])
  <1>1. q \in [1..k -> Range(q)]
    BY DEF Range
  <1>2. q \in Seq(Range(q))
    BY <1>1
  <1> QED
    BY <1>2 DEF IsQueue, Range

\* Each token created is advanced by a command of its own.
LEMMA OnePerToken ==
  ASSUME IInv, NEW gone, NEW shut, NEW k \in Nat, NEW q, DOMAIN q = 1..k,
         QueueStep(gone, shut, q),
         \A i \in 1..k : /\ q[i].for = created + i
                         /\ q[i].name \in {"advanceToBusy", "advanceToDeparted"}
                         /\ NewFit(q[i], gone, shut)
  PROVE  NewFits(gone, shut, q)
  <1>1. \A c \in Range(q) : /\ c.name \in {"advanceToBusy", "advanceToDeparted"}
                            /\ NewFit(c, gone, shut)
    BY DEF Range
  <1>2. \A c, d \in Range(q) : Compatible(c, d)'
    BY <1>1 DEF Compatible, Failing
  <1>3. ASSUME NEW c, NEW d, Before(q, c, d) PROVE InOrder(c, d)'
    <2>1. PICK i, j \in 1..k : i < j /\ q[i] = c /\ q[j] = d
      BY <1>3 DEF Before
    <2>2. created \in Nat
      BY FlowAssumption DEF IInv, Typed, Ids
    <2>3. c.for # d.for
      BY <2>1, <2>2
    <2>4. /\ c.name \in {"advanceToBusy", "advanceToDeparted"}
          /\ d.name \in {"advanceToBusy", "advanceToDeparted"}
      BY <2>1
    <2> QED
      BY <2>3, <2>4 DEF InOrder, Alone
  <1> QED
    BY <1>1, <1>2, <1>3, NewTogether

\* Tokens are created at boundary events of an activity.
Initiates(a, k, node, new, q) ==
  /\ k \in Nat /\ Len(new) = k /\ DOMAIN q = 1..k /\ q = [i \in 1..k |-> q[i]]
  /\ \A i \in 1..k :
       /\ node[i] \in Nodes /\ model.kind[node[i]] \in Boundaries
       /\ model.kind[node[i]] = "errorBoundary" =>
            \A d \in Rest : d.name = "handleFailure" => d.for # a
       /\ new[i] = Token(node[i], "ENTERED", tokens[a].owner, a)
       /\ q[i] = Command("advanceToBusy", created + i)
  /\ tokens' = Added(tokens, new) /\ created' = created + k /\ created + k <= MaxTokens
  /\ Enqueue(q) /\ UNCHANGED <<environment, registers, aborted>>

LEMMA BoundariesInitiated ==
  ASSUME IInv, NEW a, NEW name \in {"initiateBoundaryEvent", "initiateBoundaryEvents"},
         HeadIs(name, a), NEW k, NEW node, NEW new, NEW q, Initiates(a, k, node, new, q)
  PROVE  IInv' /\ EmptiedStay
  <1> USE DEF Initiates
  <1>1. /\ commands # <<>> /\ Head(commands).name = name /\ Head(commands).for = a
        /\ CommandOK(Head(commands))
    BY HeadFits DEF HeadIs
  <1>2. a \in Live /\ Kind(a) # "process"
    BY <1>1 DEF CommandOK, TokenFits, ActivityKinds
  <1>3. PICK s : s = tokens[a].owner
    OBVIOUS
  <1>4. s \in Live /\ tokens[s].owned /\ State(s) \in {"BUSY", "FAILING"} /\ Members(s) # {}
    BY <1>2, <1>3, TokenFacts DEF InScope, Members
  <1>5. model' = model /\ EnvironmentStep /\ UNCHANGED registers
    BY EnvironmentKept DEF environment
  <1>6. /\ Live' = (Live \ {}) \union (created + 1)..(created + k)
        /\ \A u \in Live \ {} : tokens'[u] = tokens[u]
        /\ \A i \in 1..k : tokens'[created + i] = new[i]
    <2>1. PICK gone : gone = {}
      OBVIOUS
    <2>2. MadeFrom(gone, k, new)
      BY <2>1 DEF MadeFrom
    <2>3. /\ Live' = (Live \ gone) \union (created + 1)..(created + k)
          /\ \A u \in Live \ gone : tokens'[u] = tokens[u]
          /\ \A i \in 1..k : tokens'[created + i] = new[i]
      BY <2>2, AddedTokens
    <2> QED
      BY <2>1, <2>3
  <1>7. TokenStep(None, {}, k) /\ BornSo({}, k, s, "ENTERED", a, node)
    <2>1. ASSUME NEW i \in 1..k
          PROVE  /\ tokens'[created + i] \in Births(node[i], "ENTERED", s, a)
                 /\ node[i] \in Nodes /\ model.kind[node[i]] # "process"
      <3>1. PICK n : n = node[i]
        OBVIOUS
      <3>2. tokens'[created + i] = Token(n, "ENTERED", s, a)
        BY <1>3, <1>6, <3>1
      <3>3. Token(n, "ENTERED", s, a) \in Births(n, "ENTERED", s, a)
        BY DEF Births, Token
      <3> QED
        BY <3>1, <3>2, <3>3 DEF Boundaries
    <2>2. Creates({}, k, s, "ENTERED", a, node)
      BY <1>2, <1>4, <1>5, <1>6, <2>1 DEF Creates, States
    <2> QED
      BY <2>2, Creation
  <1>8. ASSUME NEW x \in (created + 1)..(created + k)
        PROVE  /\ State(x)' = "ENTERED" /\ Members(x)' = {} /\ ~tokens'[x].owned
               /\ tokens'[x].link = a /\ Kind(x)' \in Boundaries
               /\ Kind(x)' = "errorBoundary" =>
                    \A d \in Rest : d.name = "handleFailure" => d.for # a
    <2>1. PICK i \in 1..k : x = created + i
      <3>1. created \in Nat
        BY FlowAssumption DEF IInv, Typed, Ids
      <3>2. x - created \in 1..k /\ x = created + (x - created)
        BY <3>1
      <3> QED
        BY <3>2
    <2> QED
      BY <1>7, <2>1 DEF BornSo
  <1>9. /\ RegisterStep(None, {}) /\ Range(listening') \subseteq Live /\ waiting' \subseteq Live
        /\ LeftFits(None, {}, {}) /\ RestsAfter(None, {}, {}) /\ None \notin Live
    <2>1. /\ LeftFits(None, {}, {}) /\ RestsAfter(None, {}, {})
          /\ None \notin Live /\ None \notin Range(listening) /\ None \notin waiting
      BY NoneChanged
    <2>2. PICK gone : gone = {}
      OBVIOUS
    <2>3. /\ RegisterStep(None, gone)
          /\ Range(listening') \subseteq Live /\ waiting' \subseteq Live
      BY <1>5, <2>1, <2>2, RegistersStay
    <2> QED
      BY <2>1, <2>2, <2>3
  <1>10. IsQueue(q) /\ \A c \in Range(q) : \E i \in 1..k : c = q[i]
    BY FunctionQueued
  <1>11. QueueStep({}, {}, q)
    BY <1>1, <1>10, CommandsEnqueued DEF Enqueue, IInv, Typed
  <1>12. NewFits({}, {}, q)
    <2>1. ASSUME NEW i \in 1..k
          PROVE  /\ q[i].for = created + i /\ q[i].name = "advanceToBusy"
                 /\ NewFit(q[i], {}, {})
      <3>1. PICK x, c : x = created + i /\ c = q[i]
        OBVIOUS
      <3>2. x \in (created + 1)..(created + k)
        BY <1>7, <3>1 DEF BornSo
      <3>3. c.name = "advanceToBusy" /\ c.for = x
        BY <3>1 DEF Command
      <3>4. TokenFits(c.name, x)'
        BY <1>8, <3>2, <3>3 DEF TokenFits, Throws, Gateways, Boundaries, Scopes
      <3>5. ArgumentFits(c)' /\ BoundaryFits(c)' /\ AlternativeMoves(c)'
        BY <1>8, <3>2, <3>3 DEF ArgumentFits, BoundaryFits, AlternativeMoves, Alternative
      <3>6. NewFit(c, {}, {})
        BY <1>7, <1>8, <1>9, <3>2, <3>3, <3>4, <3>5, CreatedFits
      <3> QED
        BY <3>1, <3>3, <3>6
    <2> QED
      BY <1>11, <2>1, OnePerToken
  <1>13. AlternativesStep(None, {}, k)
    BY <1>1, <1>8, <1>9 DEF AlternativesStep, Alternative, HeadIs
  <1>14. UnderwayStep(None, {}, k)
    <2>1. \A x \in (created + 1)..(created + k) : Underway(x)'
      BY <1>8 DEF Underway, Boundaries
    <2> QED
      BY <1>1, <1>9, <2>1 DEF UnderwayStep, Moving
  <1>15. StepOK(None, {}, k, {}, q)
    BY <1>5, <1>7, <1>9, <1>11, <1>12, <1>13, <1>14 DEF StepOK
  <1>16. \A d \in Range(q) : d.name # "createMergedToken"
    BY <1>10 DEF Command
  <1> QED
    BY <1>1, <1>15, <1>16, PlainStepKeeps DEF InclusiveMerge

LEMMA InitiateBoundaryEventKeeps ==
  ASSUME IInv, NEW a, HeadIs("initiateBoundaryEvent", a),
         InitiateBoundaryEvent(a, Head(commands).arg)
  PROVE  IInv' /\ EmptiedStay
  <1>1. PICK n : n = Head(commands).arg
    OBVIOUS
  <1>2. n \in Nodes /\ model.kind[n] \in Boundaries /\ model.kind[n] # "errorBoundary"
    <2>1. commands # <<>> /\ Head(commands).name = "initiateBoundaryEvent" /\ CommandOK(Head(commands))
      BY HeadFits DEF HeadIs
    <2>2. n \in Nodes \ model.interrupting /\ model.kind[n] \in Boundaries
      BY <1>1, <2>1 DEF CommandOK, ArgumentFits
    <2> QED
      BY <2>2, ModelFits DEF BoundariesFit, Nodes
  <1>3. PICK x : x = created + 1
    OBVIOUS
  <1>4. PICK new, q, node : /\ new = <<Token(n, "ENTERED", tokens[a].owner, a)>>
                            /\ q = <<Command("advanceToBusy", x)>> /\ node = <<n>>
    OBVIOUS
  <1>5. /\ tokens' = Added(tokens, new) /\ created' = created + 1 /\ created + 1 <= MaxTokens
        /\ Enqueue(q) /\ UNCHANGED <<environment, registers, aborted>>
    BY <1>1, <1>3, <1>4 DEF InitiateBoundaryEvent, NewId
  <1>6. PICK k \in Nat : k = 1
    OBVIOUS
  <1>7. /\ Len(new) = k /\ DOMAIN q = 1..k /\ q = [i \in 1..k |-> q[i]]
        /\ \A i \in 1..k : i = 1
        /\ new[1] = Token(n, "ENTERED", tokens[a].owner, a) /\ node[1] = n
        /\ q[1] = Command("advanceToBusy", created + 1)
    BY <1>3, <1>4, <1>6
  <1>8. \A i \in 1..k : /\ node[i] \in Nodes /\ model.kind[node[i]] \in Boundaries
                        /\ new[i] = Token(node[i], "ENTERED", tokens[a].owner, a)
                        /\ model.kind[node[i]] # "errorBoundary"
                        /\ q[i] = Command("advanceToBusy", created + i)
    BY <1>2, <1>7
  <1>9. Initiates(a, k, node, new, q)
    BY <1>5, <1>6, <1>7, <1>8 DEF Initiates
  <1> QED
    BY <1>9, BoundariesInitiated

LEMMA InitiateBoundaryEventsKeeps ==
  ASSUME IInv, NEW a, HeadIs("initiateBoundaryEvents", a), InitiateBoundaryEvents(a)
  PROVE  IInv' /\ EmptiedStay
  <1>1. /\ commands # <<>> /\ Head(commands).name = "initiateBoundaryEvents"
        /\ Head(commands).for = a /\ CommandOK(Head(commands))
        /\ \A d \in Rest : Compatible(Head(commands), d)
    BY HeadFits DEF HeadIs
  <1>2. CASE Attached(a) # {} /\ Enqueue(<<>>) /\ UNCHANGED <<created, tokens>>
             /\ UNCHANGED <<environment, registers, aborted>>
    <2>1. /\ TokenStep(None, {}, 0) /\ LeftFits(None, {}, {}) /\ RestsAfter(None, {}, {})
          /\ AlternativesStep(None, {}, 0) /\ UnderwayStep(None, {}, 0)
      BY <1>1, <1>2, NothingTouched DEF environment, Moving
    <2>2. RegisterStep(None, {}) /\ EnvironmentStep
      BY <1>2, NoneChanged, RegistersStay, EnvironmentKept
    <2>3. QueueStep({}, {}, <<>>) /\ NewFits({}, {}, <<>>) /\ Range(<<>>) = {}
      BY <1>1, <1>2, EnqueueNone
    <2>4. StepOK(None, {}, 0, {}, <<>>)
      BY <2>1, <2>2, <2>3 DEF StepOK
    <2>5. \A c \in Range(<<>>) : c.name # "createMergedToken"
      BY <2>3
    <2> QED
      BY <1>1, <2>4, <2>5, PlainStepKeeps DEF InclusiveMerge
  <1>3. CASE ~(Attached(a) # {} /\ Enqueue(<<>>) /\ UNCHANGED <<created, tokens>>
               /\ UNCHANGED <<environment, registers, aborted>>)
    <2>1. PICK node : node = BoundaryEvents(Node(a))
      OBVIOUS
    <2>2. PICK k : k = Len(node)
      OBVIOUS
    <2>3. PICK new, q : /\ new = [i \in 1..k |-> Token(node[i], "ENTERED", tokens[a].owner, a)]
                        /\ q = [i \in 1..k |-> Command("advanceToBusy", created + i)]
      OBVIOUS
    <2>4. /\ tokens' = Added(tokens, new) /\ created' = created + k /\ created + k <= MaxTokens
          /\ Enqueue(q) /\ UNCHANGED <<environment, registers, aborted>>
      BY <1>3, <2>1, <2>2, <2>3 DEF InitiateBoundaryEvents, NewId
    <2>5. node \in Seq({b \in Nodes : model.kind[b] \in Boundaries})
      BY <2>1, ModelFits DEF BoundaryEvents, BoundariesFit, Nodes
    <2>6. k \in Nat /\ \A i \in 1..k : node[i] \in Nodes /\ model.kind[node[i]] \in Boundaries
      BY <2>2, <2>5
    <2>7. Len(new) = k /\ DOMAIN q = 1..k /\ q = [i \in 1..k |-> q[i]]
      BY <2>3, <2>6
    <2>8. \A d \in Rest : d.name = "handleFailure" => d.for # a
      BY <1>1 DEF Compatible, Failing
    <2>9. \A i \in 1..k : /\ new[i] = Token(node[i], "ENTERED", tokens[a].owner, a)
                          /\ q[i] = Command("advanceToBusy", created + i)
      BY <2>3
    <2>10. Initiates(a, k, node, new, q)
      BY <2>4, <2>6, <2>7, <2>8, <2>9 DEF Initiates
    <2> QED
      BY <2>10, BoundariesInitiated
  <1> QED
    BY <1>2, <1>3

\* The sequence flows chosen at a gateway are some of those it has.
LEMMA BranchesFollowFlows ==
  ASSUME IInv, NEW t \in Live, NEW out \in Branches(t)
  PROVE  Len(out) \in Nat /\ \A i \in 1..Len(out) : out[i] \in FlowsFrom(model, Node(t))
  <1>1. PICK all : all = Outgoing(Node(t))
    OBVIOUS
  <1>2. all \in Seq(Nodes) /\ Range(all) = FlowsFrom(model, Node(t))
    BY <1>1, TokenFacts, ModelFits DEF IsModel, Nodes, Outgoing, FlowsFrom
  <1>3. CASE out = all
    <2>1. Len(out) \in Nat /\ \A i \in 1..Len(out) : out[i] \in Range(all)
      BY <1>2, <1>3 DEF Range
    <2> QED
      BY <1>2, <2>1
  <1>4. CASE out # all
    <2>1. PICK chosen : out = Kept(all, chosen)
      BY <1>1, <1>4 DEF Branches
    <2>2. PICK n \in Nat : \E at : Selected(all, chosen, n, at)
      BY <1>2, KeptPlaces
    <2> PICK at : Selected(all, chosen, n, at)
      BY <2>2
    <2>3. out = [i \in 1..n |-> all[at[i]]] /\ \A i \in 1..n : at[i] \in DOMAIN all
      BY <2>1 DEF Selected
    <2>4. Len(out) = n /\ \A i \in 1..n : out[i] \in Range(all)
      BY <2>3 DEF Range
    <2> QED
      BY <1>2, <2>4
  <1> QED
    BY <1>3, <1>4

LEMMA DivergedKeeps ==
  ASSUME IInv, NEW t, HeadIs("handleDivergingGateway", t), HandleDivergingGateway(t)
  PROVE  IInv' /\ EmptiedStay
  <1>1. PICK out \in Branches(t) :
          LET k == Len(out)
              copy == [tokens[t] EXCEPT !.link = IF Kind(t) = "eventBased" THEN t ELSE None,
                                        !.flow = <<>>]
              keep == IF Kind(t) = "eventBased" THEN {} ELSE {t}
          IN
          /\ created + k <= MaxTokens
          /\ tokens' = Added(Without(keep), [i \in 1..k |-> copy])
          /\ created' = created + k
          /\ commands' = Purged(Tail(commands), keep, {}) \o
                           [i \in 1..k |-> With("advanceToDeparted", NewId(i), <<Node(t), out[i]>>)]
          /\ UNCHANGED <<environment, registers, aborted>>
    BY DEF HandleDivergingGateway
  <1>2. PICK k, l, gone, n, s :
          /\ k = Len(out) /\ n = Node(t) /\ s = tokens[t].owner
          /\ l = IF Kind(t) = "eventBased" THEN t ELSE None
          /\ gone = IF Kind(t) = "eventBased" THEN {} ELSE {t}
    OBVIOUS
  <1>3. PICK copy, new, q, node :
          /\ copy = [tokens[t] EXCEPT !.link = l, !.flow = <<>>]
          /\ new = [i \in 1..k |-> copy] /\ node = [i \in 1..k |-> n]
          /\ q = [i \in 1..k |-> With("advanceToDeparted", created + i, <<n, out[i]>>)]
    OBVIOUS
  <1>4. /\ created + k <= MaxTokens /\ created' = created + k /\ tokens' = Added(Without(gone), new)
        /\ commands' = Purged(Tail(commands), gone, {}) \o q
        /\ UNCHANGED <<environment, aborted>> /\ UNCHANGED registers
    BY <1>1, <1>2, <1>3 DEF NewId
  <1>5. /\ t \in Live /\ TokenFits("handleDivergingGateway", t) /\ Free(t) /\ ~Rests(t)
        /\ t \notin Range(listening) /\ t \notin waiting
    BY HeadMoves DEF Main, Moving
  <1>6. /\ commands # <<>> /\ Head(commands).name = "handleDivergingGateway"
        /\ Head(commands).for = t
    BY DEF HeadIs
  <1>7. /\ Members(t) = {} /\ ~tokens[t].owned /\ Kind(t) # "process" /\ Kind(t) \in Gateways
        /\ Kind(t) = "eventBased" => State(t) = "BUSY"
        /\ Kind(t) # "eventBased" => State(t) = "ENTERED"
    BY <1>5 DEF TokenFits, Moving
  <1>8. /\ s \in Live \ gone /\ tokens[s].owned /\ State(s) \in {"BUSY", "FAILING"}
        /\ t \in Members(s) /\ s # t
    BY <1>2, <1>5, <1>7, TokenFacts DEF InScope, Members, TokenShaped
  <1>9. k \in Nat /\ \A i \in 1..k : out[i] \in FlowsFrom(model, n)
    BY <1>2, <1>5, BranchesFollowFlows
  <1>10. /\ gone \subseteq Live /\ gone \subseteq {t}
         /\ \A u \in Live : tokens[u].owner \in gone => u \in gone
         /\ Kind(t) = "eventBased" => l = t /\ t \notin gone
         /\ Kind(t) # "eventBased" => l = None /\ t \in gone
         /\ l \in {None} \union Live /\ (l \in Live => Kind(l) # "process")
    <2>1. None \notin Live
      BY NoneChanged
    <2> QED
      BY <1>2, <1>5, <1>7, <2>1 DEF Members
  <1>11. model' = model /\ EnvironmentStep
    BY <1>4, EnvironmentKept DEF environment
  <1>12. /\ Live' = (Live \ gone) \union (created + 1)..(created + k)
         /\ \A u \in Live \ gone : tokens'[u] = tokens[u]
         /\ \A i \in 1..k : tokens'[created + i] = new[i]
    <2>1. Len(new) = k
      BY <1>3, <1>9
    <2>2. MadeFrom(gone, k, new)
      BY <1>4, <1>9, <1>10, <2>1 DEF MadeFrom
    <2> QED
      BY <2>2, AddedTokens
  <1>13. n \in Nodes /\ model.kind[n] = Kind(t)
    BY <1>2, <1>5, TokenFacts DEF Kind
  <1>14. PICK st : st = State(t)
    OBVIOUS
  <1>15. TokenStep(t, gone, k) /\ BornSo(gone, k, s, st, l, node)
    <2>1. ASSUME NEW i \in 1..k
          PROVE  /\ tokens'[created + i] \in Births(node[i], st, s, l)
                 /\ node[i] \in Nodes /\ model.kind[node[i]] # "process"
      <3>1. node[i] = n /\ tokens'[created + i] = copy
        BY <1>3, <1>12
      <3>2. copy \in Births(n, st, s, l)
        <4>1. /\ tokens[t] \in Records /\ tokens[t].node = n /\ tokens[t].state = st
              /\ tokens[t].owner = s /\ tokens[t].owned = FALSE
          BY <1>2, <1>5, <1>7, <1>14, TokenFacts DEF Node, State, Records
        <4> QED
          BY <1>3, <4>1 DEF Births, Records
      <3> QED
        BY <1>7, <1>13, <3>1, <3>2
    <2>2. st \in States \ {"DONE", "READY"}
      BY <1>7, <1>14 DEF States
    <2>3. Creates(gone, k, s, st, l, node)
      BY <1>4, <1>8, <1>9, <1>10, <1>11, <1>12, <2>1, <2>2 DEF Creates
    <2> QED
      BY <2>3, Creation
  <1>16. ASSUME NEW i \in 1..k, NEW x, x = created + i
         PROVE  /\ x \in (created + 1)..(created + k) /\ x \notin Live /\ x \in Live'
                /\ State(x)' = st /\ Members(x)' = {} /\ ~tokens'[x].owned
                /\ tokens'[x].link = l /\ tokens'[x].owner = s /\ Node(x)' = n
                /\ Kind(x)' = Kind(t)
    BY <1>3, <1>13, <1>15, <1>16 DEF BornSo
  <1>17. \A x \in (created + 1)..(created + k) : \E i \in 1..k : x = created + i
    <2>1. created \in Nat
      BY FlowAssumption DEF IInv, Typed, Ids
    <2>2. ASSUME NEW x \in (created + 1)..(created + k) PROVE \E i \in 1..k : x = created + i
      <3>1. x - created \in 1..k /\ x = created + (x - created)
        BY <1>9, <2>1
      <3> QED
        BY <3>1
    <2> QED
      BY <2>2
  <1>18. t \notin gone => /\ tokens'[t] = tokens[t] /\ State(t)' = State(t)
                          /\ Node(t)' = Node(t) /\ Kind(t)' = Kind(t)
    BY <1>5, <1>12, <1>15 DEF BornSo
  <1>19. /\ RegisterStep(t, gone) /\ Range(listening') \subseteq Live /\ waiting' \subseteq Live
         /\ t \notin Range(listening') /\ t \notin waiting'
    <2>1. gone \intersect (Range(listening) \union waiting) = {}
      BY <1>5, <1>10
    <2> QED
      BY <1>4, <1>5, <2>1, RegistersStay
  <1>20. IsQueue(q) /\ DOMAIN q = 1..k /\ \A c \in Range(q) : \E i \in 1..k : c = q[i]
    <2>1. DOMAIN q = 1..k /\ q = [i \in 1..k |-> q[i]]
      BY <1>3
    <2> QED
      BY <1>9, <2>1, FunctionQueued
  <1>21. QueueStep(gone, {}, q)
    BY <1>4, <1>6, <1>20, RemovalQueued
  <1>22. \A i \in 1..k : /\ q[i].for = created + i /\ q[i].name = "advanceToDeparted"
                         /\ q[i].arg = <<n, out[i]>>
    BY <1>3 DEF With
  <1>23. NewFits(gone, {}, q)
    <2>1. ASSUME NEW i \in 1..k PROVE NewFit(q[i], gone, {})
      <3>1. PICK x, c : x = created + i /\ c = q[i]
        OBVIOUS
      <3>2. /\ x \in (created + 1)..(created + k) /\ x \in Live' /\ Members(x)' = {}
            /\ ~tokens'[x].owned /\ tokens'[x].link = l /\ Node(x)' = n /\ Kind(x)' = Kind(t)
        BY <1>16, <3>1
      <3>3. c.name = "advanceToDeparted" /\ c.for = x /\ c.arg = <<n, out[i]>>
        BY <1>22, <3>1
      <3>4. TokenFits(c.name, x)'
        BY <1>7, <3>2, <3>3 DEF TokenFits
      <3>5. ArgumentFits(c)'
        <4>1. n \in Nodes' /\ out[i] \in FlowsFrom(model', n) /\ c.arg[1] = n
          BY <1>9, <1>11, <1>13, <3>3 DEF Nodes
        <4>2. IsFlow(c.arg)'
          BY <3>3, <4>1 DEF IsFlow
        <4> QED
          BY <3>2, <3>3, <4>1, <4>2 DEF ArgumentFits
      <3>6. BoundaryFits(c)'
        BY <1>7, <3>2, <3>3 DEF BoundaryFits, Gateways, Boundaries
      <3>7. AlternativeMoves(c)'
        BY <1>10, <3>2, <3>3 DEF AlternativeMoves, Alternative
      <3>8. NewFit(c, gone, {})
        BY <1>15, <1>19, <3>2, <3>3, <3>4, <3>5, <3>6, <3>7, CreatedFits
      <3> QED
        BY <3>1, <3>8
    <2>2. \A i \in 1..k : /\ q[i].for = created + i
                          /\ q[i].name \in {"advanceToBusy", "advanceToDeparted"}
                          /\ NewFit(q[i], gone, {})
      BY <1>22, <2>1
    <2> QED
      BY <1>9, <1>20, <1>21, <2>2, OnePerToken
  <1>24. LeftFits(t, gone, {}) /\ RestsAfter(t, gone, {})
    <2>1. CASE t \in gone
      BY <2>1 DEF LeftFits, RestsAfter
    <2>2. CASE t \notin gone
      <3>1. Kind(t)' = Kind(t) /\ State(t)' # "READY"
        BY <1>7, <1>18, <2>2
      <3> QED
        BY <1>5, <1>15, <1>19, <2>2, <3>1, LeftFitsFree
    <2> QED
      BY <2>1, <2>2
  <1>25. ~Alternative(t) /\ tokens[t].link = None
    <2>1. ~Alternative(t)
      BY <1>5, AlternativeHead DEF Moving
    <2> QED
      BY <1>7, <2>1 DEF Alternative, Gateways, Boundaries
  <1>26. AlternativesStep(t, gone, k)
    <2>1. \A u \in Live \ gone : Alternative(u) => tokens[u].link \notin gone
      BY <1>5, <1>10 DEF IInv, AlternativesOK, AlternativePlaced
    <2>2. t \notin gone => ~Alternative(t)'
      BY <1>18, <1>25 DEF Alternative
    <2>3. ASSUME NEW x \in (created + 1)..(created + k), Alternative(x)'
          PROVE  AlternativePlaced(x)'
      <3>1. PICK i \in 1..k : x = created + i
        BY <1>17
      <3>2. tokens'[x].link = l /\ tokens'[x].owner = s /\ Node(x)' = n /\ State(x)' = st
        BY <1>16, <3>1
      <3>3. l # None /\ Kind(t) = "eventBased" /\ l = t /\ t \notin gone
        BY <1>10, <2>3, <3>2 DEF Alternative
      <3>4. Unmoved(t)'
        <4>1. \A c \in Left(gone, {}) : c.name \in Main => c.for # t
          BY <1>5 DEF Left, Free
        <4>2. \A c \in Range(q) : c.for # t
          <5>1. \A i2 \in 1..k : created + i2 # t
            BY <1>5, <1>16
          <5> QED
            BY <1>20, <1>22, <5>1
        <4> QED
          BY <1>21, <4>1, <4>2 DEF Unmoved, QueueStep
      <3>5. Rests(t)'
        BY <1>7, <1>18, <3>3, <3>4 DEF Rests
      <3>6. /\ t \in Live' /\ tokens'[t].owner = s /\ tokens'[t].link = None /\ Node(t)' = n
        BY <1>2, <1>5, <1>12, <1>18, <1>25, <3>3
      <3>7. st # "DEPARTED"
        BY <1>7, <1>14, <3>3
      <3> QED
        BY <3>2, <3>3, <3>5, <3>6, <3>7 DEF AlternativePlaced
    <2>4. \A u : ~HeadIs("handleEventBasedGatewayActivation", u)
      BY <1>6 DEF HeadIs
    <2> QED
      BY <1>5, <2>1, <2>2, <2>3, <2>4 DEF AlternativesStep
  <1>27. UnderwayStep(t, gone, k)
    <2>1. t \notin gone => Underway(t)'
      BY <1>7, <1>10, <1>18 DEF Underway
    <2>2. ASSUME NEW x \in (created + 1)..(created + k) PROVE Underway(x)'
      <3>1. PICK i \in 1..k : x = created + i
        BY <1>17
      <3>2. PICK c : c = q[i]
        OBVIOUS
      <3>3. c \in Queued' /\ c.name \in Moving /\ c.for = x
        <4>1. c \in Range(q)
          BY <1>20, <3>2 DEF Range
        <4> QED
          BY <1>21, <1>22, <3>1, <3>2, <4>1 DEF QueueStep, Moving
      <3>4. State(x)' # "DEPARTED"
        BY <1>7, <1>14, <1>16, <3>1
      <3> QED
        BY <3>3, <3>4 DEF Underway
    <2> QED
      BY <1>5, <1>6, <2>1, <2>2 DEF UnderwayStep
  <1>28. StepOK(t, gone, k, {}, q)
    BY <1>11, <1>15, <1>19, <1>21, <1>23, <1>24, <1>26, <1>27 DEF StepOK
  <1>29. \A d \in Range(q) : d.name # "createMergedToken"
    BY <1>20, <1>22
  <1> QED
    BY <1>6, <1>28, <1>29, PlainStepKeeps DEF InclusiveMerge

\* The merges of inclusive gateways left in the queue stay the first, and stay
\* right when no token comes to be on its way to their gateways.
LEMMA MergesStay ==
  ASSUME IInv, NEW gone, NEW shut, NEW new, QueueStep(gone, shut, new), model' = model,
         \A c \in Range(new) : c.name # "createMergedToken",
         \A c \in Left(gone, shut) : InclusiveMerge(c) =>
           \A u \in Members(c.for)' : Passed(u, c.arg)'
  PROVE  MergesOK'
  <1> SUFFICES ASSUME NEW c \in Queued', InclusiveMerge(c)'
      PROVE  /\ \A d \in Queued' : Ahead(d, c)' =>
                  InclusiveMerge(d)' /\ <<d.for, d.arg>> # <<c.for, c.arg>>
             /\ \A u \in Members(c.for)' : Passed(u, c.arg)'
    BY DEF MergesOK
  <1>1. \A d : InclusiveMerge(d)' <=> InclusiveMerge(d)
    BY DEF InclusiveMerge
  <1>2. InclusiveMerge(c) /\ c \notin Range(new)
    BY <1>1 DEF InclusiveMerge
  <1>3. c \in Left(gone, shut)
    BY <1>2 DEF QueueStep
  <1>4. ASSUME NEW d, Ahead(d, c)'
        PROVE  InclusiveMerge(d) /\ <<d.for, d.arg>> # <<c.for, c.arg>>
    <2>1. ~Before(new, d, c)
      BY <1>2 DEF Before, Range
    <2>2. d \in Left(gone, shut) /\ Ahead(d, c)
      BY <1>2, <1>4, <2>1 DEF QueueStep
    <2>3. c \in Queued /\ d \in Queued
      BY <1>3, <2>2, RestQueued DEF Left, IInv, Typed
    <2> QED
      BY <1>2, <2>2, <2>3 DEF IInv, MergesOK
  <1> QED
    BY <1>1, <1>2, <1>3, <1>4

\* A token that stays as it is stays where it is with regard to a gateway.
LEMMA StillPassed ==
  ASSUME NEW u, NEW g, Passed(u, g), model' = model,
         Node(u)' = Node(u), Kind(u)' = Kind(u), State(u)' = State(u)
  PROVE  Passed(u, g)'
  <1>1. Predecessors(g)' = Predecessors(g)
    BY DEF Predecessors, Nodes, Sources
  <1> QED
    BY <1>1 DEF Passed

\* What is behind a merge: other merges of inclusive gateways come with it.
LEMMA MergesBehind ==
  ASSUME IInv, NEW c \in Rest, InclusiveMerge(c)
  PROVE  /\ c \in Queued /\ commands # <<>> /\ InclusiveMerge(Head(commands))
         /\ <<Head(commands).for, Head(commands).arg>> # <<c.for, c.arg>>
         /\ \A u \in Members(c.for) : Passed(u, c.arg)
  <1>1. /\ c \in Queued /\ commands # <<>> /\ Ahead(Head(commands), c)
        /\ Head(commands) \in Queued
    BY RestQueued DEF IInv, Typed
  <1> QED
    BY <1>1 DEF IInv, MergesOK

\* The tokens waiting at a gateway.
LEMMA WaitingFacts ==
  ASSUME IInv, NEW t \in waiting
  PROVE  /\ t \in Live /\ State(t) = "WAITING" /\ Kind(t) \in Gateways \ {"eventBased"}
         /\ Members(t) = {} /\ Free(t) /\ t \notin Range(listening) /\ ~Alternative(t)
         /\ InScope(t) /\ Kind(t) # "process"
  <1>1. /\ t \in Live /\ State(t) = "WAITING" /\ Kind(t) \in Gateways \ {"eventBased"}
        /\ Unmoved(t)
    BY DEF IInv, Typed, WaitingOK
  <1>2. Members(t) = {} /\ InScope(t)
    BY <1>1, TokenFacts
  <1>3. Free(t)
    <2>1. Rest \subseteq Queued
      BY RestQueued DEF IInv, Typed
    <2> QED
      BY <1>1, <2>1 DEF Free, Unmoved
  <1>4. t \notin Range(listening)
    BY <1>1 DEF IInv, ListeningOK
  <1>5. ~Alternative(t)
    BY <1>1, AlternativeAt DEF Gateways
  <1>6. Kind(t) # "process"
    BY <1>1 DEF Gateways
  <1> QED
    BY <1>1, <1>2, <1>3, <1>4, <1>5, <1>6

\* The only token consumed is released.
LEMMA ReleasedKeeps ==
  ASSUME IInv, commands # <<>>, Head(commands).name = "createMergedToken", NEW t \in waiting,
         tokens' = [tokens EXCEPT ![t].flow = <<>>], waiting' = waiting \ {t},
         Enqueue(<<Command("advanceToEntered", t)>>),
         UNCHANGED <<environment, created, listening, aborted>>
  PROVE  IInv' /\ EmptiedStay
  <1>1. /\ t \in Live /\ State(t) = "WAITING" /\ Kind(t) \in Gateways \ {"eventBased"}
        /\ Members(t) = {} /\ Free(t) /\ t \notin Range(listening) /\ ~Alternative(t)
    BY WaitingFacts
  <1>2. PICK r : r = [tokens[t] EXCEPT !.flow = <<>>]
    OBVIOUS
  <1>3. tokens[t] \in Records /\ ~tokens[t].owned
    BY <1>1, TokenFacts DEF TokenShaped, Gateways, Scopes
  <1>4. /\ r \in Records /\ r.node = tokens[t].node /\ r.owner = tokens[t].owner
        /\ r.link = tokens[t].link /\ r.owned = tokens[t].owned /\ r.state = tokens[t].state
    BY <1>2, <1>3 DEF Records
  <1>5. tokens' = [tokens EXCEPT ![t] = r] /\ UNCHANGED <<model, created>>
    BY <1>2 DEF environment
  <1>6. /\ TokenStep(t, {}, 0)
        /\ Live' = Live /\ Nodes' = Nodes /\ model' = model
        /\ tokens'[t] = r /\ State(t)' = r.state
        /\ \A u \in Live : Node(u)' = Node(u) /\ Kind(u)' = Kind(u)
        /\ \A u \in Live : u # t => tokens'[u] = tokens[u] /\ State(u)' = State(u)
        /\ \A u : Members(u)' = Members(u)
    BY <1>1, <1>3, <1>4, <1>5, TokenChanged DEF State
  <1>7. State(t)' = "WAITING" /\ Kind(t)' = Kind(t) /\ Node(t)' = Node(t)
    BY <1>1, <1>4, <1>6 DEF State
  <1>8. EnvironmentStep
    BY EnvironmentKept DEF environment
  <1>9. RegisterStep(t, {}) /\ t \notin Range(listening') /\ t \notin waiting'
    BY <1>1 DEF RegisterStep, IInv, Typed, ListeningOK
  <1> DEFINE c == Command("advanceToEntered", t)
  <1>10. QueueStep({}, {}, <<c>>) /\ Range(<<c>>) = {c} /\ c \in Queued'
    BY EnqueueOne
  <1>11. c.name = "advanceToEntered" /\ c.for = t
    BY DEF Command
  <1> HIDE DEF c
  <1>12. ~Alternative(t)'
    BY <1>1, <1>4, <1>6, <1>7 DEF Alternative
  <1>13. NewFits({}, {}, <<c>>)
    <2>1. TokenFits(c.name, t)' /\ ArgumentFits(c)' /\ BoundaryFits(c)' /\ AlternativeMoves(c)'
      BY <1>1, <1>6, <1>7, <1>11, <1>12
         DEF TokenFits, ArgumentFits, BoundaryFits, AlternativeMoves, Gateways, Boundaries, Scopes
    <2>2. PICK gone, k : gone = {} /\ k = 0
      OBVIOUS
    <2>3. TokenStep(t, gone, k) /\ t \notin gone /\ ~Rests(t)
      BY <1>1, <1>6, <2>2 DEF Rests
    <2>4. c.name \in Moving \ {"advanceToReady"} /\ Kind(t)' \notin ActivityKinds \union {"process"}
      BY <1>1, <1>7, <1>11 DEF Moving, Gateways, ActivityKinds
    <2>5. NewFit(c, gone, {})
      BY <1>1, <1>7, <1>9, <1>11, <2>1, <2>3, <2>4, GoesOn
    <2> QED
      BY <1>10, <2>2, <2>5, OneNew
  <1>14. LeftFits(t, {}, {}) /\ RestsAfter(t, {}, {})
    <2>1. PICK gone, k : gone = {} /\ k = 0
      OBVIOUS
    <2>2. TokenStep(t, gone, k) /\ t \notin gone /\ State(t)' # "READY"
      BY <1>6, <1>7, <2>1
    <2>3. LeftFits(t, gone, {}) /\ RestsAfter(t, gone, {})
      BY <1>1, <1>7, <1>9, <2>2, LeftFitsFree
    <2> QED
      BY <2>1, <2>3
  <1>15. AlternativesStep(t, {}, 0)
    <2>1. ~Rests(t) /\ State(t)' # "DEPARTED"
      BY <1>1, <1>7 DEF Rests
    <2> QED
      BY <1>1, <1>6, <1>7, <2>1, MovesAside
  <1>16. UnderwayStep(t, {}, 0)
    <2>1. Underway(t)'
      BY <1>7, <1>10, <1>11 DEF Underway, Moving
    <2>2. (created + 1)..(created + 0) = {}
      BY <1>1, TokenFacts
    <2> QED
      BY <2>1, <2>2 DEF UnderwayStep, Moving
  <1>17. StepOK(t, {}, 0, {}, <<c>>)
    BY <1>6, <1>8, <1>9, <1>10, <1>13, <1>14, <1>15, <1>16 DEF StepOK
  <1>18. MergesOK'
    <2>1. ASSUME NEW d \in Left({}, {}), InclusiveMerge(d), NEW u \in Members(d.for)'
          PROVE  Passed(u, d.arg)'
      <3>1. u \in Members(d.for) /\ u \in Live
        BY <1>6, <2>1 DEF Members
      <3>2. Passed(u, d.arg)
        BY <2>1, <3>1, MergesBehind DEF Left
      <3>3. Node(u)' = Node(u) /\ Kind(u)' = Kind(u) /\ State(u)' = State(u)
        BY <1>1, <1>6, <1>7, <3>1
      <3> QED
        BY <1>6, <3>2, <3>3, StillPassed
    <2>2. \A d \in Range(<<c>>) : d.name # "createMergedToken"
      BY <1>10, <1>11
    <2> QED
      BY <1>6, <1>10, <2>1, <2>2, MergesStay
  <1> QED
    BY <1>17, <1>18, StepKeeps

\* The tokens consumed are merged into one.
LEMMA MergedKeeps ==
  ASSUME IInv, commands # <<>>, NEW s, NEW n,
         Head(commands).name = "createMergedToken", Head(commands).for = s,
         Head(commands).arg = n,
         NEW there, there = {t \in waiting : tokens[t].owner = s /\ Node(t) = n},
         there # {}, NEW gone, gone \subseteq there,
         created + 1 <= MaxTokens, created' = created + 1,
         tokens' = Added(Without(gone), <<Token(n, "WAITING", s, None)>>),
         Removing(gone, <<Command("advanceToEntered", NewId(1))>>),
         UNCHANGED <<environment, aborted>>
  PROVE  IInv' /\ EmptiedStay
  <1>1. PICK w \in there : TRUE
    OBVIOUS
  <1>2. \A t \in there : /\ t \in waiting /\ tokens[t].owner = s /\ Node(t) = n /\ t \in Live
                         /\ State(t) = "WAITING" /\ Kind(t) \in Gateways \ {"eventBased"}
                         /\ Members(t) = {} /\ InScope(t) /\ Kind(t) # "process"
                         /\ t \in Members(s) /\ Kind(t) = model.kind[n]
    BY WaitingFacts DEF Members, Kind
  <1>3. /\ s \in Live /\ tokens[s].owned /\ State(s) \in {"BUSY", "FAILING"} /\ Members(s) # {}
        /\ s \notin gone
    BY <1>1, <1>2 DEF InScope
  <1>4. n \in Nodes /\ model.kind[n] \in Gateways \ {"eventBased"}
    BY <1>1, <1>2, TokenFacts
  <1>5. gone \subseteq Live /\ \A u \in Live : tokens[u].owner \in gone => u \in gone
    BY <1>2 DEF Members
  <1>6. PICK x : x = created + 1
    OBVIOUS
  <1>7. PICK new, node, c : /\ new = <<Token(n, "WAITING", s, None)>> /\ node = <<n>>
                            /\ c = Command("advanceToEntered", x)
    OBVIOUS
  <1>8. /\ tokens' = Added(Without(gone), new)
        /\ listening' = StillListening(gone) /\ waiting' = waiting \ gone
        /\ commands' = Purged(Tail(commands), gone, gone) \o <<c>>
    BY <1>6, <1>7 DEF Removing, NewId
  <1>9. /\ Len(new) = 1 /\ new[1] = Token(n, "WAITING", s, None) /\ node[1] = n
        /\ c.name = "advanceToEntered" /\ c.for = x
    BY <1>7 DEF Command
  <1>10. model' = model /\ EnvironmentStep
    BY EnvironmentKept DEF environment
  <1>11. /\ Live' = (Live \ gone) \union (created + 1)..(created + 1)
         /\ \A u \in Live \ gone : tokens'[u] = tokens[u]
         /\ \A i \in 1..1 : tokens'[created + i] = new[i]
    <2>1. PICK k : k = 1
      OBVIOUS
    <2>2. MadeFrom(gone, k, new)
      BY <1>5, <1>8, <1>9, <2>1 DEF MadeFrom
    <2>3. /\ Live' = (Live \ gone) \union (created + 1)..(created + k)
          /\ \A u \in Live \ gone : tokens'[u] = tokens[u]
          /\ \A i \in 1..k : tokens'[created + i] = new[i]
      BY <2>2, AddedTokens
    <2> QED
      BY <2>1, <2>3
  <1>12. TokenStep(None, gone, 1) /\ BornSo(gone, 1, s, "WAITING", None, node)
    <2>1. ASSUME NEW i \in 1..1
          PROVE  /\ tokens'[created + i] \in Births(node[i], "WAITING", s, None)
                 /\ node[i] \in Nodes /\ model.kind[node[i]] # "process"
      <3>1. i = 1 /\ node[i] = n
        BY <1>9
      <3>2. tokens'[created + i] = Token(n, "WAITING", s, None)
        BY <1>9, <1>11, <3>1
      <3>3. Token(n, "WAITING", s, None) \in Births(n, "WAITING", s, None)
        BY DEF Births, Token
      <3> QED
        BY <1>4, <3>1, <3>2, <3>3 DEF Gateways
    <2>2. "WAITING" \in States \ {"DONE", "READY"} /\ None \notin Live
      BY NoneChanged DEF States
    <2>3. Creates(gone, 1, s, "WAITING", None, node)
      BY <1>3, <1>5, <1>10, <1>11, <2>1, <2>2 DEF Creates
    <2> QED
      BY <2>3, Creation
  <1>13. /\ x \notin Live /\ x \in Live' /\ Members(x)' = {} /\ State(x)' = "WAITING"
         /\ ~tokens'[x].owned /\ tokens'[x].link = None /\ tokens'[x].owner = s
         /\ Node(x)' = n /\ Kind(x)' = model.kind[n]
         /\ x \in (created + 1)..(created + 1) /\ (created + 1)..(created + 1) = {x}
         /\ \A u \in Live \ gone : State(u)' = State(u) /\ Node(u)' = Node(u) /\ Kind(u)' = Kind(u)
    <2>1. created \in Nat /\ 1 \in 1..1
      BY <1>3, TokenFacts
    <2> QED
      BY <1>6, <1>9, <1>12, <2>1 DEF BornSo
  <1>14. /\ RegisterStep(None, gone) /\ Range(listening') \subseteq Live /\ waiting' \subseteq Live
         /\ LeftFits(None, gone, gone) /\ RestsAfter(None, gone, gone) /\ None \notin Live
    <2>1. /\ LeftFits(None, gone, gone) /\ RestsAfter(None, gone, gone)
          /\ None \notin Live /\ None \notin Range(listening) /\ None \notin waiting
      BY NoneChanged
    <2>2. RegisterStep(None, gone) /\ Range(listening') = Range(listening) \ gone
      BY <1>8, <2>1, RegistersTrimmed
    <2> QED
      BY <1>8, <2>1, <2>2 DEF IInv, Typed
  <1>15. QueueStep(gone, gone, <<c>>) /\ Range(<<c>>) = {c} /\ c \in Queued'
    <2>1. IsQueue(<<c>>) /\ Range(<<c>>) = {c}
      BY OneQueued
    <2>2. QueueStep(gone, gone, <<c>>)
      BY <1>8, <2>1, RemovalQueued
    <2> QED
      BY <2>1, <2>2 DEF QueueStep
  <1>16. NewFits(gone, gone, <<c>>)
    <2>1. TokenFits(c.name, x)' /\ ArgumentFits(c)' /\ BoundaryFits(c)' /\ AlternativeMoves(c)'
      BY <1>4, <1>9, <1>13
         DEF TokenFits, ArgumentFits, BoundaryFits, AlternativeMoves, Alternative,
             Gateways, Boundaries, Scopes
    <2>2. Kind(x)' \notin ActivityKinds \union {"process"}
      BY <1>4, <1>13 DEF Gateways, ActivityKinds
    <2>3. PICK k : k = 1
      OBVIOUS
    <2>4. TokenStep(None, gone, k) /\ x \in (created + 1)..(created + k)
      BY <1>12, <1>13, <2>3
    <2>5. NewFit(c, gone, gone)
      BY <1>9, <1>14, <2>1, <2>2, <2>4, CreatedFits
    <2> QED
      BY <1>15, <2>5, OneNew
  <1>17. AlternativesStep(None, gone, 1)
    <2>1. \A u \in Live : Alternative(u) => tokens[u].link \notin gone
      BY <1>2 DEF IInv, AlternativesOK, AlternativePlaced, Rests
    <2>2. \A y \in (created + 1)..(created + 1) : ~Alternative(y)'
      BY <1>13 DEF Alternative
    <2> QED
      BY <1>14, <2>1, <2>2 DEF AlternativesStep, HeadIs
  <1>18. UnderwayStep(None, gone, 1)
    <2>1. Underway(x)'
      BY <1>9, <1>13, <1>15 DEF Underway, Moving
    <2> QED
      BY <1>13, <1>14, <2>1 DEF UnderwayStep, Moving
  <1>19. StepOK(None, gone, 1, gone, <<c>>)
    BY <1>10, <1>12, <1>14, <1>15, <1>16, <1>17, <1>18 DEF StepOK
  <1>20. MergesOK'
    <2>1. ASSUME NEW d \in Left(gone, gone), InclusiveMerge(d), NEW u \in Members(d.for)'
          PROVE  Passed(u, d.arg)'
      <3>1. /\ <<s, n>> # <<d.for, d.arg>>
            /\ \A y \in Members(d.for) : Passed(y, d.arg)
        BY <2>1, MergesBehind DEF Left
      <3>2. CASE u \in Live \ gone
        <4>1. u \in Members(d.for)
          BY <1>11, <2>1, <3>2 DEF Members
        <4> QED
          BY <1>10, <1>13, <3>1, <3>2, <4>1, StillPassed
      <3>3. CASE u \notin Live \ gone
        <4>1. u = x /\ d.for = s
          BY <1>11, <1>13, <2>1, <3>3 DEF Members
        <4>2. d.arg # n /\ Passed(w, d.arg)
          BY <1>1, <1>2, <3>1, <4>1
        <4>3. n \notin Predecessors(d.arg)
          BY <1>1, <1>2, <4>2 DEF Passed, Gateways, Boundaries
        <4>4. Predecessors(d.arg)' = Predecessors(d.arg)
          BY <1>10 DEF Predecessors, Nodes, Sources
        <4> QED
          BY <1>13, <4>1, <4>2, <4>3, <4>4 DEF Passed
      <3> QED
        BY <3>2, <3>3
    <2>2. \A d \in Range(<<c>>) : d.name # "createMergedToken"
      BY <1>9, <1>15
    <2> QED
      BY <1>10, <1>15, <2>1, <2>2, MergesStay
  <1> QED
    BY <1>19, <1>20, StepKeeps

\* What a merge does: one token stays where only one has come, and one is created
\* in place of those that leave where several have.
Merging(s, n, there, gone, first) ==
  /\ there = {t \in waiting : tokens[t].owner = s /\ Node(t) = n}
  /\ gone = {t \in there : \A u \in there : tokens[u].flow = tokens[t].flow => t <= u}
  /\ IF there = {} THEN Abort
     ELSE IF gone = {first}
     THEN /\ tokens' = [tokens EXCEPT ![first].flow = <<>>]
          /\ waiting' = waiting \ gone
          /\ Enqueue(<<Command("advanceToEntered", first)>>)
          /\ UNCHANGED <<environment, created, listening, aborted>>
     ELSE /\ created + 1 <= MaxTokens
          /\ tokens' = Added(Without(gone), <<Token(n, "WAITING", s, None)>>)
          /\ created' = created + 1
          /\ Removing(gone, <<Command("advanceToEntered", NewId(1))>>)
          /\ UNCHANGED <<environment, aborted>>

LEMMA MergeConsumes ==
  ASSUME NEW s, NEW n, CreateMergedToken(s, n)
  PROVE  \E there, gone, first : Merging(s, n, there, gone, first)
  <1> DEFINE there == {t \in waiting : tokens[t].owner = s /\ Node(t) = n}
             gone == {t \in there : \A u \in there : tokens[u].flow = tokens[t].flow => t <= u}
             first == CHOOSE t \in gone : \A u \in gone : t <= u
  <1>1. Merging(s, n, there, gone, first)
    BY Zenon DEF CreateMergedToken, Merging
  <1> HIDE DEF there, gone, first
  <1> QED
    BY <1>1

LEMMA CreateMergedKeeps ==
  ASSUME IInv, NEW s, HeadIs("createMergedToken", s), CreateMergedToken(s, Head(commands).arg)
  PROVE  IInv' /\ EmptiedStay
  <1>1. PICK n : n = Head(commands).arg
    OBVIOUS
  <1>2. PICK there, gone, first : Merging(s, n, there, gone, first)
    BY <1>1, MergeConsumes
  <1>3. there = {t \in waiting : tokens[t].owner = s /\ Node(t) = n} /\ gone \subseteq there
    BY <1>2 DEF Merging
  <1>5. commands # <<>> /\ Head(commands).name = "createMergedToken" /\ Head(commands).for = s
    BY DEF HeadIs
  <1>6. CASE there = {}
    <2>1. Abort
      BY <1>2, <1>6 DEF Merging
    <2> QED
      BY <2>1, AbortKeeps
  <1>7. CASE there # {} /\ gone = {first}
    <2>1. /\ tokens' = [tokens EXCEPT ![first].flow = <<>>]
          /\ waiting' = waiting \ gone
          /\ Enqueue(<<Command("advanceToEntered", first)>>)
          /\ UNCHANGED <<environment, created, listening, aborted>>
      BY <1>2, <1>7 DEF Merging
    <2>2. first \in waiting
      BY <1>3, <1>7
    <2> QED
      BY <1>5, <1>7, <2>1, <2>2, ReleasedKeeps
  <1>8. CASE there # {} /\ gone # {first}
    <2>1. /\ created + 1 <= MaxTokens
          /\ tokens' = Added(Without(gone), <<Token(n, "WAITING", s, None)>>)
          /\ created' = created + 1
          /\ Removing(gone, <<Command("advanceToEntered", NewId(1))>>)
          /\ UNCHANGED <<environment, aborted>>
      BY <1>2, <1>8 DEF Merging
    <2> QED
      BY <1>1, <1>3, <1>5, <1>8, <2>1, MergedKeeps
  <1> QED
    BY <1>6, <1>7, <1>8

\* Every token awaiting the signal is advanced once.
LEMMA BroadcastKeeps ==
  ASSUME IInv, NEW t, HeadIs("broadcastSignal", t), BroadcastSignal
  PROVE  IInv' /\ EmptiedStay
  <1>1. commands # <<>> /\ Head(commands).name = "broadcastSignal"
    BY DEF HeadIs
  <1>2. PICK k, heard : k = Len(listening) /\ heard = listening
    OBVIOUS
  <1>3. PICK q : q = [i \in 1..k |-> Command("advanceToCompleted", heard[i])]
    OBVIOUS
  <1>4. k \in Nat /\ DOMAIN listening = 1..k /\ \A i \in 1..k : heard[i] \in Range(listening)
    BY <1>2 DEF IInv, Typed, IsQueue, Range
  <1>5. /\ listening' = <<>> /\ Enqueue(q) /\ waiting' = waiting
        /\ UNCHANGED <<model, created, tokens>> /\ UNCHANGED <<environment, aborted>>
    BY <1>2, <1>3, <1>4 DEF BroadcastSignal, environment
  <1>6. /\ TokenStep(None, {}, 0) /\ LeftFits(None, {}, {}) /\ RestsAfter(None, {}, {})
        /\ AlternativesStep(None, {}, 0) /\ UnderwayStep(None, {}, 0)
        /\ None \notin Live /\ Live' = Live
        /\ \A u \in Live : State(u)' = State(u) /\ Kind(u)' = Kind(u)
    BY <1>1, <1>5, NothingTouched DEF Moving
  <1>7. EnvironmentStep
    BY <1>5, EnvironmentKept
  <1>8. RegisterStep(None, {}) /\ Range(listening') = {}
    <2>1. IsQueue(listening') /\ Range(listening') = {} /\ \A u : ~Before(listening', u, u)
      BY <1>5, NoneQueued
    <2>2. waiting \subseteq Live
      BY DEF IInv, Typed
    <2> QED
      BY <1>5, <1>6, <2>1, <2>2 DEF RegisterStep
  <1>9. IsQueue(q) /\ DOMAIN q = 1..k /\ \A c \in Range(q) : \E i \in 1..k : c = q[i]
    <2>1. DOMAIN q = 1..k /\ q = [i \in 1..k |-> q[i]]
      BY <1>3
    <2> QED
      BY <1>4, <2>1, FunctionQueued
  <1>10. QueueStep({}, {}, q)
    BY <1>1, <1>5, <1>9, CommandsEnqueued DEF Enqueue, IInv, Typed
  <1>11. ASSUME NEW i \in 1..k PROVE NewFit(q[i], {}, {})
    <2>1. PICK u, c : u = heard[i] /\ c = q[i]
      OBVIOUS
    <2>2. c.name = "advanceToCompleted" /\ c.for = u
      BY <1>3, <2>1 DEF Command
    <2>3. u \in Range(listening) /\ u \in Live
      BY <1>4, <2>1 DEF IInv, Typed
    <2>4. State(u) = "BUSY" /\ Kind(u) \in Signals /\ Unmoved(u)
      BY <2>3 DEF IInv, ListeningOK
    <2>5. Free(u) /\ ~Rests(u)
      <3>1. Rest \subseteq Queued
        BY RestQueued DEF IInv, Typed
      <3> QED
        BY <2>4, <3>1 DEF Free, Unmoved, Rests, Signals
    <2>6. u \notin Range(listening') /\ u \notin waiting' /\ State(u)' # "DONE"
      BY <1>5, <1>6, <1>8, <2>3, <2>4 DEF IInv, WaitingOK
    <2>7. Members(u)' = {}
      <3>1. Members(u) = {}
        BY <2>3, <2>4, TokenFacts DEF Signals, Scopes
      <3> QED
        BY <1>5, <3>1 DEF Members, Live
    <2>8. TokenFits(c.name, u)' /\ ArgumentFits(c)' /\ BoundaryFits(c)' /\ AlternativeMoves(c)'
      BY <1>6, <2>2, <2>3, <2>4, <2>7
         DEF TokenFits, ArgumentFits, BoundaryFits, AlternativeMoves, Signals, CatchEvents, Boundaries
    <2>9. PICK gone, v, n : gone = {} /\ v = None /\ n = 0
      OBVIOUS
    <2>10. TokenStep(v, gone, n) /\ u \notin gone /\ c.name \in Moving \ {"advanceToReady"}
      BY <1>6, <2>2, <2>9 DEF Moving
    <2>11. NewFit(c, gone, {})
      BY <2>2, <2>3, <2>5, <2>6, <2>8, <2>10, GoesOn
    <2> QED
      BY <2>1, <2>9, <2>11
  <1>12. NewFits({}, {}, q)
    <2>1. \A c \in Range(q) : NewFit(c, {}, {}) /\ c.name = "advanceToCompleted"
      BY <1>3, <1>9, <1>11 DEF Command
    <2>2. \A c, d \in Range(q) : Compatible(c, d)'
      BY <2>1 DEF Compatible, Failing
    <2>3. ASSUME NEW c, NEW d, Before(q, c, d) PROVE InOrder(c, d)'
      <3>1. PICK i, j \in 1..k : i < j /\ q[i] = c /\ q[j] = d
        BY <1>9, <2>3 DEF Before
      <3>2. /\ c.name = "advanceToCompleted" /\ d.name = "advanceToCompleted"
            /\ c.for = heard[i] /\ d.for = heard[j]
        BY <1>3, <3>1 DEF Command
      <3>3. heard[i] # heard[j]
        <4>1. ~Before(listening, heard[i], heard[i])
          BY DEF IInv, ListeningOK
        <4> QED
          BY <1>2, <1>4, <3>1, <4>1 DEF Before
      <3> QED
        BY <3>2, <3>3 DEF InOrder, Alone
    <2> QED
      BY <1>10, <2>1, <2>2, <2>3, NewTogether
  <1>13. StepOK(None, {}, 0, {}, q)
    BY <1>6, <1>7, <1>8, <1>10, <1>12 DEF StepOK
  <1>14. \A d \in Range(q) : d.name # "createMergedToken"
    BY <1>3, <1>9 DEF Command
  <1> QED
    BY <1>1, <1>13, <1>14, PlainStepKeeps DEF InclusiveMerge

\* The elements of a finite set in some order.
LEMMA OrderingFacts ==
  ASSUME NEW S, IsFiniteSet(S), NEW q \in Orderings(S)
  PROVE  IsQueue(q) /\ Range(q) \subseteq S /\ \A c, d : Before(q, c, d) => c # d
  <1>1. Cardinality(S) \in Nat
    BY FS_CardinalityType
  <1>2. /\ q \in [1..Cardinality(S) -> S]
        /\ \A j, k \in DOMAIN q : q[j] = q[k] => j = k
    BY DEF Orderings
  <1>3. q \in [1..Cardinality(S) -> Range(q)]
    BY <1>2 DEF Range
  <1>4. IsQueue(q)
    BY <1>1, <1>3 DEF IsQueue
  <1>5. ASSUME NEW c, NEW d, Before(q, c, d) PROVE c # d
    <2>1. PICK i, j \in DOMAIN q : i < j /\ q[i] = c /\ q[j] = d
      BY <1>5 DEF Before
    <2>2. i # j
      BY <1>1, <1>2, <2>1
    <2> QED
      BY <1>2, <2>1, <2>2
  <1> QED
    BY <1>2, <1>4, <1>5 DEF Range

LEMMA FinitelyMany ==
  ASSUME IInv
  PROVE  IsFiniteSet(Live) /\ \A S : S \subseteq Live => IsFiniteSet(S)
  <1>1. created \in Nat /\ Live \subseteq 1..created
    BY FlowAssumption DEF IInv, Typed, Ids
  <1>2. IsFiniteSet(1..created)
    BY <1>1, FS_Interval
  <1>3. IsFiniteSet(Live)
    BY <1>1, <1>2, FS_Subset
  <1> QED
    BY <1>3, FS_Subset

\* The first commands come while nothing is queued, and no token changes.
LEMMA BeginKeeps ==
  ASSUME IInv, commands = <<>>, UNCHANGED <<model, created, tokens, trigger, aborted>>,
         UNCHANGED registers, now' \in 0..MaxTime, signals' \in 0..MaxSignals,
         NEW q, IsQueue(q), commands' = q, NewFits({}, {}, q), MergesOK'
  PROVE  IInv' /\ EmptiedStay
  <1>1. QueueStep({}, {}, q)
    BY CommandsBegin
  <1>2. /\ TokenStep(None, {}, 0) /\ LeftFits(None, {}, {}) /\ RestsAfter(None, {}, {})
        /\ AlternativesStep(None, {}, 0) /\ UnderwayStep(None, {}, 0)
    BY NothingTouched
  <1>3. EnvironmentStep
    BY DEF EnvironmentStep
  <1>4. RegisterStep(None, {})
    <2>1. PICK gone : gone = {}
      OBVIOUS
    <2>2. None \notin Range(listening) /\ None \notin waiting
      BY NoneChanged
    <2>3. gone \intersect (Range(listening) \union waiting) = {}
      BY <2>1
    <2>4. RegisterStep(None, gone)
      BY <2>2, <2>3, RegistersStay
    <2> QED
      BY <2>1, <2>4
  <1>5. StepOK(None, {}, 0, {}, q)
    BY <1>1, <1>2, <1>3, <1>4 DEF StepOK
  <1> QED
    BY <1>5, StepKeeps

LEMMA ActivateKeeps ==
  ASSUME IInv, Activate
  PROVE  IInv' /\ EmptiedStay
  <1>1. PICK q : q = commands'
    OBVIOUS
  <1>2. /\ commands = <<>> /\ ~aborted /\ q \in Orderings(Activations) /\ commands' = q
        /\ UNCHANGED <<model, created, tokens, trigger, aborted>> /\ UNCHANGED registers
        /\ now' = now /\ signals' = signals
    BY <1>1 DEF Activate, environment
  <1>3. IsFiniteSet(Activations)
    <2>1. PICK S : S = {w \in waiting : Activatable(tokens[w].owner, Node(w))}
      OBVIOUS
    <2>2. S \subseteq Live
      BY <2>1 DEF IInv, Typed
    <2>3. IsFiniteSet(S)
      BY <2>2, FinitelyMany
    <2>4. Activations = {With("createMergedToken", tokens[t].owner, Node(t)) : t \in S}
      BY <2>1 DEF Activations
    <2>5. PICK f : f = [t \in S |-> With("createMergedToken", tokens[t].owner, Node(t))]
      OBVIOUS
    <2>6. f \in Surjection(S, Activations)
      BY <2>4, <2>5 DEF Surjection
    <2> QED
      BY <2>3, <2>6, FS_Surjection
  <1>4. IsQueue(q) /\ Range(q) \subseteq Activations /\ \A c, d : Before(q, c, d) => c # d
    BY <1>2, <1>3, OrderingFacts
  <1>5. ASSUME NEW c \in Range(q)
        PROVE  /\ c = With("createMergedToken", c.for, c.arg) /\ c.name = "createMergedToken"
               /\ c.for \in Live /\ c.arg \in Nodes /\ Activatable(c.for, c.arg)
    <2>1. PICK w \in waiting : /\ Activatable(tokens[w].owner, Node(w))
                               /\ c = With("createMergedToken", tokens[w].owner, Node(w))
      BY <1>4, <1>5 DEF Activations
    <2>2. /\ c.name = "createMergedToken" /\ c.for = tokens[w].owner /\ c.arg = Node(w)
      BY <2>1 DEF With
    <2>3. w \in Live /\ InScope(w) /\ Kind(w) # "process"
      BY WaitingFacts
    <2>4. tokens[w].owner \in Live /\ Node(w) \in Nodes
      BY <2>3, TokenFacts DEF InScope
    <2> QED
      BY <2>1, <2>2, <2>4
  <1>6. /\ TokenStep(None, {}, 0) /\ None \notin Live /\ Live' = Live /\ Rest = {} /\ Queued = {}
        /\ QueueStep({}, {}, q)
        /\ \A u \in Live : State(u)' = State(u) /\ Kind(u)' = Kind(u)
    BY <1>2, <1>4, NothingTouched, CommandsBegin
  <1>7. NewFits({}, {}, q)
    <2>1. ASSUME NEW c \in Range(q) PROVE NewFit(c, {}, {})
      <3>1. /\ c.for \in Live' /\ c.arg \in Nodes' /\ model'.kind[c.arg] = "inclusive"
        BY <1>2, <1>5, <1>6 DEF Activatable, Nodes
      <3>2. CommandOK(c)'
        BY <1>5, <3>1
           DEF CommandOK, TokenFits, ArgumentFits, BoundaryFits, Moving
      <3>3. PICK gone, v, n : gone = {} /\ v = None /\ n = 0
        OBVIOUS
      <3>4. TokenStep(v, gone, n)
        BY <1>6, <3>3
      <3>5. NewFit(c, gone, {})
        BY <1>5, <3>2, <3>4, OthersFit
      <3> QED
        BY <3>3, <3>5
    <2>2. \A c, d \in Range(q) : Compatible(c, d)'
      BY <1>5 DEF Compatible, Failing
    <2>3. \A c, d : Before(q, c, d) => InOrder(c, d)'
      BY <1>5 DEF InOrder, Alone, Main, Moving, Before, Range
    <2> QED
      BY <1>6, <2>1, <2>2, <2>3, NewTogether
  <1>8. ASSUME NEW c \in Range(q), NEW u \in Members(c.for) PROVE Passed(u, c.arg)
    <2>1. u \in Live /\ Activatable(c.for, c.arg) /\ model.kind[c.arg] = "inclusive"
      BY <1>5, <1>8 DEF Members, Activatable
    <2>2. Underway(u)
      BY <1>2, <2>1 DEF IInv, OnTheMove
    <2>3. State(u) # "DEPARTED" /\ (Kind(u) = "inclusive" => u \in waiting \/ State(u) = "DONE")
      BY <1>6, <2>2 DEF Underway
    <2>4. u \in waiting => State(u) = "WAITING"
      BY DEF IInv, WaitingOK
    <2>5. \/ Node(u) = c.arg \/ State(u) = "DONE" \/ Kind(u) \in Boundaries
          \/ Position(u) \notin Predecessors(c.arg)
      BY <1>8, <2>1 DEF Activatable
    <2> QED
      BY <2>1, <2>3, <2>4, <2>5 DEF Passed, Position, Kind
  <1>9. MergesOK'
    <2> SUFFICES ASSUME NEW c \in Queued', InclusiveMerge(c)'
        PROVE  /\ \A d \in Queued' : Ahead(d, c)' =>
                    InclusiveMerge(d)' /\ <<d.for, d.arg>> # <<c.for, c.arg>>
               /\ \A u \in Members(c.for)' : Passed(u, c.arg)'
      BY DEF MergesOK
    <2>1. c \in Range(q)
      BY <1>1 DEF Queued
    <2>2. ASSUME NEW d, Ahead(d, c)'
          PROVE  InclusiveMerge(d)' /\ <<d.for, d.arg>> # <<c.for, c.arg>>
      <3>1. Before(q, d, c) /\ d \in Range(q)
        BY <1>1, <2>2 DEF Ahead, Before, Range
      <3>2. d # c
        BY <1>4, <3>1
      <3>3. <<d.for, d.arg>> # <<c.for, c.arg>>
        BY <1>5, <2>1, <3>1, <3>2
      <3>4. InclusiveMerge(d)'
        BY <1>2, <1>5, <3>1 DEF InclusiveMerge, Activatable
      <3> QED
        BY <3>3, <3>4
    <2>3. ASSUME NEW u \in Members(c.for)' PROVE Passed(u, c.arg)'
      <3>1. u \in Members(c.for) /\ u \in Live
        BY <1>2, <1>6, <2>3 DEF Members, Live
      <3>2. Passed(u, c.arg)
        BY <1>8, <2>1, <3>1
      <3>3. Node(u)' = Node(u) /\ Kind(u)' = Kind(u) /\ State(u)' = State(u) /\ model' = model
        BY <1>2, <1>6, <3>1 DEF Node
      <3> QED
        BY <3>2, <3>3, StillPassed
    <2> QED
      BY <2>2, <2>3
  <1> QED
    BY <1>2, <1>4, <1>7, <1>9, BeginKeeps DEF IInv, Typed

\* What is enqueued first finds the queue empty.
LEMMA FirstFits ==
  ASSUME IInv, commands = <<>>, NEW c, CommandOK(c)', AlternativeMoves(c)',
         c.name \in Main =>
           /\ c.for \notin Range(listening') /\ c.for \notin waiting' /\ State(c.for)' # "DONE"
           /\ c.for \in Live => ~Rests(c.for)
  PROVE  NewFit(c, {}, {})
  <1>1. Left({}, {}) = {}
    BY DEF Left, Rest
  <1> QED
    BY <1>1 DEF NewFit

\* A token at an activity with the next command, by which the decision taken for
\* it takes effect.
LEMMA ChosenKeeps ==
  ASSUME IInv, commands = <<>>, NEW t \in Live, NEW c, c.for = t, c.name # "createMergedToken",
         UNCHANGED <<environment, created, tokens, registers, aborted>>,
         commands' = <<c>>, NewFit(c, {}, {})
  PROVE  IInv' /\ EmptiedStay
  <1>1. IsQueue(<<c>>) /\ Range(<<c>>) = {c}
    BY OneQueued
  <1>2. QueueStep({}, {}, <<c>>)
    BY <1>1, CommandsBegin
  <1>3. NewFits({}, {}, <<c>>)
    BY <1>2, OneNew
  <1>4. /\ UNCHANGED <<model, created, tokens, trigger, aborted>> /\ UNCHANGED registers
        /\ now' = now /\ signals' = signals
    BY DEF environment
  <1>5. now' \in 0..MaxTime /\ signals' \in 0..MaxSignals
    BY <1>4 DEF IInv, Typed
  <1>6. MergesOK'
    BY <1>1, <1>2, <1>4, NoMerges
  <1>7. PICK q : q = <<c>>
    OBVIOUS
  <1> QED
    BY <1>1, <1>3, <1>4, <1>5, <1>6, <1>7, BeginKeeps

\* An activity is at no register and at no gateway.
LEMMA ActivityFacts ==
  ASSUME IInv, NEW t \in Live, Kind(t) \in ActivityKinds
  PROVE  /\ t \notin Range(listening) /\ t \notin waiting /\ ~Rests(t) /\ ~Alternative(t)
         /\ State(t) \notin {"BUSY", "FAILING"} \/ Kind(t) = "task" => Members(t) = {}
         /\ State(t) = "READY" /\ Kind(t) \in Scopes => tokens[t].owned
  <1>1. t \notin Range(listening)
    BY DEF IInv, ListeningOK, ActivityKinds, Signals
  <1>2. t \notin waiting
    BY DEF IInv, WaitingOK, ActivityKinds, Gateways
  <1>3. ~Rests(t) /\ ~Alternative(t)
    BY AlternativeAt DEF Rests, ActivityKinds
  <1> QED
    BY <1>1, <1>2, <1>3, TokenFacts DEF TokenShaped, Scopes

LEMMA EntryKeeps ==
  ASSUME IInv, NEW t \in Live, EntryEvent(t)
  PROVE  IInv' /\ EmptiedStay
  <1>1. PICK c : c = Command("advanceToEntered", t)
    OBVIOUS
  <1>2. /\ commands = <<>> /\ State(t) = "READY" /\ Kind(t) \in ActivityKinds /\ commands' = <<c>>
        /\ UNCHANGED <<environment, created, tokens, registers, aborted>>
    BY <1>1 DEF EntryEvent, Settled
  <1>3. c.name = "advanceToEntered" /\ c.for = t
    BY <1>1 DEF Command
  <1>4. /\ State(t)' = State(t) /\ Kind(t)' = Kind(t) /\ Members(t)' = Members(t) /\ t \in Live'
        /\ tokens' = tokens /\ listening' = listening /\ waiting' = waiting
    BY <1>2 DEF State, Kind, Node, Members, Live, environment, registers
  <1>5. /\ t \notin Range(listening) /\ t \notin waiting /\ ~Rests(t) /\ ~Alternative(t)
        /\ Members(t) = {} /\ (Kind(t) \in Scopes => tokens[t].owned)
    BY <1>2, ActivityFacts
  <1>6. CommandOK(c)' /\ AlternativeMoves(c)'
    BY <1>2, <1>3, <1>4, <1>5
       DEF CommandOK, TokenFits, ArgumentFits, BoundaryFits, AlternativeMoves, Alternative,
           ActivityKinds, Boundaries
  <1>7. NewFit(c, {}, {})
    BY <1>2, <1>3, <1>4, <1>5, <1>6, FirstFits
  <1> QED
    BY <1>2, <1>3, <1>7, ChosenKeeps

LEMMA CompletionKeeps ==
  ASSUME IInv, NEW t \in Live, CompletionEvent(t)
  PROVE  IInv' /\ EmptiedStay
  <1>1. PICK c : c = Command("advanceToCompleted", t)
    OBVIOUS
  <1>2. /\ commands = <<>> /\ State(t) = "BUSY" /\ Kind(t) = "task" /\ commands' = <<c>>
        /\ UNCHANGED <<environment, created, tokens, registers, aborted>>
    BY <1>1 DEF CompletionEvent, Settled
  <1>3. c.name = "advanceToCompleted" /\ c.for = t
    BY <1>1 DEF Command
  <1>4. /\ State(t)' = State(t) /\ Kind(t)' = Kind(t) /\ Members(t)' = Members(t) /\ t \in Live'
        /\ tokens' = tokens /\ listening' = listening /\ waiting' = waiting
    BY <1>2 DEF State, Kind, Node, Members, Live, environment, registers
  <1>5. /\ t \notin Range(listening) /\ t \notin waiting /\ ~Rests(t) /\ ~Alternative(t)
        /\ Members(t) = {}
    BY <1>2, ActivityFacts DEF ActivityKinds
  <1>6. CommandOK(c)' /\ AlternativeMoves(c)'
    BY <1>2, <1>3, <1>4, <1>5
       DEF CommandOK, TokenFits, ArgumentFits, BoundaryFits, AlternativeMoves, Alternative,
           ActivityKinds, Boundaries
  <1>7. NewFit(c, {}, {})
    BY <1>2, <1>3, <1>4, <1>5, <1>6, FirstFits
  <1> QED
    BY <1>2, <1>3, <1>7, ChosenKeeps

LEMMA ErrorKeeps ==
  ASSUME IInv, NEW t \in Live, ErrorEvent(t)
  PROVE  IInv' /\ EmptiedStay
  <1>1. PICK c : c = Command("advanceToFailed", t)
    OBVIOUS
  <1>2. /\ commands = <<>> /\ State(t) = "BUSY" /\ Kind(t) = "task" /\ commands' = <<c>>
        /\ UNCHANGED <<environment, created, tokens, registers, aborted>>
    BY <1>1 DEF ErrorEvent, Settled, Fails
  <1>3. c.name = "advanceToFailed" /\ c.for = t
    BY <1>1 DEF Command
  <1>4. /\ Kind(t)' = Kind(t) /\ t \in Live' /\ listening' = listening
    BY <1>2 DEF Kind, Node, Live, environment, registers
  <1>5. t \notin Range(listening)
    BY <1>2, ActivityFacts DEF ActivityKinds
  <1>6. CommandOK(c)' /\ AlternativeMoves(c)'
    BY <1>2, <1>3, <1>4, <1>5
       DEF CommandOK, TokenFits, ArgumentFits, BoundaryFits, AlternativeMoves, Moving, Gateways
  <1>7. NewFit(c, {}, {})
    BY <1>2, <1>3, <1>6, FirstFits DEF Main, Moving
  <1> QED
    BY <1>2, <1>3, <1>7, ChosenKeeps

LEMMA SignalKeeps ==
  ASSUME IInv, SignalBroadcastEvent
  PROVE  IInv' /\ EmptiedStay
  <1>1. PICK c, q : c = Broadcast /\ q = <<c>>
    OBVIOUS
  <1>2. /\ commands = <<>> /\ signals < MaxSignals /\ signals' = signals + 1 /\ commands' = q
        /\ UNCHANGED <<model, created, tokens, trigger, aborted>> /\ UNCHANGED registers
        /\ now' = now
    BY <1>1 DEF SignalBroadcastEvent, Settled
  <1>3. now' \in 0..MaxTime /\ signals' \in 0..MaxSignals
    BY <1>2, FlowAssumption DEF IInv, Typed
  <1>4. c.name = "broadcastSignal"
    BY <1>1 DEF Broadcast, Command
  <1>5. IsQueue(q) /\ Range(q) = {c}
    BY <1>1, OneQueued
  <1>6. QueueStep({}, {}, q)
    BY <1>2, <1>5, CommandsBegin
  <1>7. CommandOK(c)' /\ AlternativeMoves(c)'
    BY <1>4 DEF CommandOK, AlternativeMoves, Moving
  <1>8. NewFit(c, {}, {})
    BY <1>2, <1>4, <1>7, FirstFits DEF Main, Moving
  <1>9. NewFits({}, {}, q)
    BY <1>1, <1>6, <1>8, OneNew
  <1>10. MergesOK'
    BY <1>2, <1>4, <1>5, <1>6, NoMerges
  <1> QED
    BY <1>2, <1>3, <1>5, <1>9, <1>10, BeginKeeps

LEMMA ClockTickKeeps ==
  ASSUME IInv, ClockTickEvent
  PROVE  IInv' /\ EmptiedStay
  <1>1. PICK due : due = {t \in Live : /\ Kind(t) \in Timers /\ State(t) = "BUSY"
                                       /\ trigger[Node(t)] <= now + 1}
    OBVIOUS
  <1>2. PICK q, S : q = commands' /\ S = {Command("advanceToCompleted", t) : t \in due}
    OBVIOUS
  <1>3. /\ commands = <<>> /\ now < MaxTime /\ now' = now + 1 /\ commands' = q
        /\ q \in Orderings(S)
        /\ UNCHANGED <<model, created, tokens, trigger, aborted>> /\ UNCHANGED registers
        /\ signals' = signals
    BY <1>1, <1>2 DEF ClockTickEvent, Settled
  <1>4. now' \in 0..MaxTime /\ signals' \in 0..MaxSignals
    BY <1>3, FlowAssumption DEF IInv, Typed
  <1>5. IsFiniteSet(S)
    <2>1. IsFiniteSet(due)
      BY <1>1, FinitelyMany
    <2>2. PICK f : f = [t \in due |-> Command("advanceToCompleted", t)]
      OBVIOUS
    <2>3. f \in Surjection(due, S)
      BY <1>2, <2>2 DEF Surjection
    <2> QED
      BY <2>1, <2>3, FS_Surjection
  <1>6. IsQueue(q) /\ Range(q) \subseteq S /\ \A c, d : Before(q, c, d) => c # d
    BY <1>3, <1>5, OrderingFacts
  <1>7. QueueStep({}, {}, q)
    BY <1>3, <1>6, CommandsBegin
  <1>8. ASSUME NEW c \in Range(q)
        PROVE  /\ c = Command("advanceToCompleted", c.for) /\ c.name = "advanceToCompleted"
               /\ NewFit(c, {}, {})
    <2>1. PICK t \in due : c = Command("advanceToCompleted", t)
      BY <1>2, <1>6
    <2>2. /\ t \in Live /\ Kind(t) \in Timers /\ State(t) = "BUSY"
          /\ c.name = "advanceToCompleted" /\ c.for = t
      BY <1>1, <2>1 DEF Command
    <2>3. /\ State(t)' = State(t) /\ Kind(t)' = Kind(t) /\ Members(t)' = Members(t) /\ t \in Live'
          /\ tokens' = tokens /\ listening' = listening /\ waiting' = waiting
      BY <1>3, <2>2 DEF State, Kind, Node, Members, Live, registers
    <2>4. Members(t) = {}
      BY <2>2, TokenFacts DEF Timers, Scopes
    <2>5. t \notin Range(listening) /\ t \notin waiting /\ ~Rests(t)
      BY <2>2 DEF IInv, ListeningOK, WaitingOK, Rests, Timers, Signals
    <2>6. CommandOK(c)' /\ AlternativeMoves(c)'
      BY <2>2, <2>3, <2>4
         DEF CommandOK, TokenFits, ArgumentFits, BoundaryFits, AlternativeMoves, Timers,
             CatchEvents, Boundaries
    <2>7. NewFit(c, {}, {})
      BY <1>3, <2>2, <2>3, <2>5, <2>6, FirstFits
    <2> QED
      BY <2>1, <2>2, <2>7
  <1>9. NewFits({}, {}, q)
    <2>1. \A c, d \in Range(q) : Compatible(c, d)'
      BY <1>8 DEF Compatible, Failing
    <2>2. ASSUME NEW c, NEW d, Before(q, c, d) PROVE InOrder(c, d)'
      <3>1. c \in Range(q) /\ d \in Range(q) /\ c # d
        BY <1>6, <2>2 DEF Before, Range
      <3>2. c.for # d.for /\ c.name = "advanceToCompleted" /\ d.name = "advanceToCompleted"
        BY <1>8, <3>1
      <3> QED
        BY <3>2 DEF InOrder, Alone
    <2> QED
      BY <1>7, <1>8, <2>1, <2>2, NewTogether
  <1>10. MergesOK'
    BY <1>3, <1>7, <1>8, NoMerges
  <1> QED
    BY <1>3, <1>4, <1>6, <1>9, <1>10, BeginKeeps

\* The state machine of a subprocess is made with its ready event.
LEMMA ReadyEventKeeps ==
  ASSUME IInv, NEW t \in Live, ReadyEvent(t)
  PROVE  IInv' /\ EmptiedStay
  <1>1. PICK c, r : /\ c = Command("advanceToReady", t)
                    /\ r = [tokens[t] EXCEPT !.owned = Kind(t) = "subprocess"]
    OBVIOUS
  <1>2. /\ commands = <<>> /\ State(t) = "ARRIVED" /\ Kind(t) \in ActivityKinds
        /\ commands' = <<c>> /\ tokens' = [tokens EXCEPT ![t] = r]
        /\ UNCHANGED <<environment, created, registers, aborted>>
    BY <1>1 DEF ReadyEvent, Settled
  <1>3. c.name = "advanceToReady" /\ c.for = t
    BY <1>1 DEF Command
  <1>4. /\ t \notin Range(listening) /\ t \notin waiting /\ ~Rests(t) /\ ~Alternative(t)
        /\ Members(t) = {}
    BY <1>2, ActivityFacts
  <1>5. /\ r \in Records /\ r.node = tokens[t].node /\ r.owner = tokens[t].owner
        /\ r.link = tokens[t].link /\ r.state = tokens[t].state
        /\ r.owned = (Kind(t) = "subprocess")
    <2>1. tokens[t] \in Records
      BY TokenFacts
    <2> QED
      BY <1>1, <2>1 DEF Records
  <1>6. /\ TokenStep(t, {}, 0)
        /\ Live' = Live /\ Nodes' = Nodes /\ model' = model
        /\ tokens'[t] = r /\ State(t)' = r.state
        /\ \A u \in Live : Node(u)' = Node(u) /\ Kind(u)' = Kind(u)
        /\ \A u \in Live : u # t => tokens'[u] = tokens[u] /\ State(u)' = State(u)
        /\ \A u : Members(u)' = Members(u)
    <2>1. UNCHANGED <<model, created>> /\ (r.owned => Kind(t) \in Scopes) /\ r.state # "READY"
      BY <1>2, <1>5 DEF environment, Scopes, State
    <2> QED
      BY <1>2, <1>4, <1>5, <2>1, TokenChanged
  <1>7. State(t)' = "ARRIVED" /\ Kind(t)' = Kind(t)
    BY <1>2, <1>5, <1>6 DEF State
  <1>8. RegisterStep(t, {}) /\ t \notin Range(listening') /\ t \notin waiting'
    BY <1>2, <1>4, RegistersKept
  <1>9. EnvironmentStep
    BY <1>2, EnvironmentKept
  <1>10. IsQueue(<<c>>) /\ Range(<<c>>) = {c}
    BY OneQueued
  <1>11. QueueStep({}, {}, <<c>>) /\ Rest = {}
    BY <1>2, <1>10, CommandsBegin
  <1>12. ~Alternative(t)'
    BY <1>4, <1>5, <1>6, <1>7 DEF Alternative
  <1>13. NewFits({}, {}, <<c>>)
    <2>1. AlternativeMoves(c)'
      BY <1>3, <1>12 DEF AlternativeMoves
    <2>2. CommandOK(c)'
      <3>1. /\ t \in Live' /\ State(t)' = "ARRIVED" /\ Members(t)' = {}
            /\ Kind(t)' \in ActivityKinds /\ Kind(t)' \notin Boundaries
        BY <1>2, <1>4, <1>6, <1>7 DEF ActivityKinds, Boundaries
      <3>2. Kind(t)' = "subprocess" => tokens'[t].owned
        BY <1>5, <1>6, <1>7
      <3>3. TokenFits("advanceToReady", t)'
        BY <3>1, <3>2 DEF TokenFits, ActivityKinds
      <3> QED
        BY <1>3, <3>1, <3>3 DEF CommandOK, ArgumentFits, BoundaryFits
    <2>3. NewFit(c, {}, {})
      BY <1>2, <1>3, <1>4, <1>7, <1>8, <2>1, <2>2, FirstFits
    <2> QED
      BY <1>11, <2>3, OneNew
  <1>14. LeftFits(t, {}, {}) /\ RestsAfter(t, {}, {})
    BY <1>11, NoneLeft
  <1>15. (created + 1)..(created + 0) = {}
    BY TokenFacts
  <1>16. AlternativesStep(t, {}, 0)
    BY <1>2, <1>4, <1>12, <1>15 DEF AlternativesStep, HeadIs
  <1>17. UnderwayStep(t, {}, 0)
    BY <1>2, <1>7, <1>15 DEF UnderwayStep, Underway, ActivityKinds
  <1>18. StepOK(t, {}, 0, {}, <<c>>)
    BY <1>6, <1>8, <1>9, <1>11, <1>13, <1>14, <1>16, <1>17 DEF StepOK
  <1>19. \A d \in Range(<<c>>) : d.name # "createMergedToken"
    BY <1>3, <1>10
  <1> QED
    BY <1>2, <1>18, <1>19, PlainStepKeeps

-----------------------------------------------------------------------------
\* Everything holds as the token at the process enters.
LEMMA Initially ==
  ASSUME Init
  PROVE  IInv
  <1>1. PICK p : p = CHOOSE n \in DOMAIN model.kind : model.kind[n] = "process"
    OBVIOUS
  <1>2. PICK r : r = [Token(p, "READY", None, None) EXCEPT !.owned = TRUE]
    OBVIOUS
  <1>3. PICK c : c = Command("advanceToEntered", 1)
    OBVIOUS
  <1>4. /\ model \in Models /\ trigger \in [TimerNodes(model) -> 0..MaxTime]
        /\ now = 0 /\ signals = 0 /\ created = 1 /\ tokens = [t \in {1} |-> r]
        /\ listening = <<>> /\ waiting = {} /\ commands = <<c>> /\ aborted = FALSE
    BY <1>1, <1>2, <1>3 DEF Init
  <1>5. p \in Nodes /\ model.kind[p] = "process"
    BY <1>1, <1>4, FlowAssumption DEF IsModel, Nodes
  <1>6. /\ r.node = p /\ r.state = "READY" /\ r.owner = 0 /\ r.link = 0 /\ r.owned = TRUE
        /\ r \in [node : Nodes, state : States, owner : 0..1, link : 0..1,
                  flow : {<<>>} \union (Nodes \X Nodes), owned : BOOLEAN]
    <2>1. r = [node |-> p, state |-> "READY", owner |-> 0, link |-> 0, flow |-> <<>>, owned |-> TRUE]
      BY <1>2 DEF Token, None
    <2>2. p \in Nodes /\ "READY" \in States /\ 0 \in 0..1 /\ TRUE \in BOOLEAN
      BY <1>5 DEF States
    <2> QED
      BY <2>1, <2>2
  <1>7. c.name = "advanceToEntered" /\ c.for = 1
    BY <1>3 DEF Command
  <1>8. /\ Live = {1} /\ tokens[1] = r /\ Node(1) = p /\ Kind(1) = "process" /\ State(1) = "READY"
        /\ Members(1) = {}
    BY <1>4, <1>5, <1>6 DEF Live, Node, Kind, State, Members
  <1>9. IsQueue(commands) /\ Queued = {c} /\ \A a, b : ~Ahead(a, b)
    BY <1>4, OneQueued DEF Queued, Ahead
  <1>10. IsQueue(listening) /\ Range(listening) = {} /\ \A a, b : ~Before(listening, a, b)
    BY <1>4, NoneQueued
  <1>11. Typed
    <2>1. TokenShaped(1)
      BY <1>4, <1>6, <1>8 DEF TokenShaped, Scopes, None
    <2>2. created \in Ids /\ Live \subseteq 1..created
      BY <1>4, <1>8, FlowAssumption DEF Ids
    <2>3. now \in 0..MaxTime /\ signals \in 0..MaxSignals
      BY <1>4, FlowAssumption
    <2> QED
      BY <1>4, <1>8, <1>9, <1>10, <2>1, <2>2, <2>3 DEF Typed
  <1>12. ScopesKept
    BY <1>8 DEF ScopesKept
  <1>13. CommandsOK
    BY <1>4, <1>6, <1>7, <1>8, <1>9
       DEF CommandsOK, CommandOK, TokenFits, ArgumentFits, BoundaryFits, Boundaries
  <1>14. NoneFails /\ OrderOK
    BY <1>7, <1>9 DEF NoneFails, OrderOK, Compatible, Failing
  <1>15. ListeningOK /\ WaitingOK /\ DoneOK
    BY <1>4, <1>8, <1>10 DEF ListeningOK, WaitingOK, DoneOK
  <1>16. AlternativesOK
    <2>1. ~Alternative(1)
      BY <1>6, <1>8 DEF Alternative, None
    <2> QED
      BY <1>7, <1>8, <1>9, <2>1 DEF AlternativesOK, AlternativeMoves
  <1>17. OnTheMove /\ MergesOK
    BY <1>7, <1>8, <1>9 DEF OnTheMove, Underway, MergesOK, InclusiveMerge
  <1> QED
    BY <1>11, <1>12, <1>13, <1>14, <1>15, <1>16, <1>17 DEF IInv

\* Nothing changes.
LEMMA StutterKeeps ==
  ASSUME IInv, UNCHANGED vars
  PROVE  IInv' /\ EmptiedStay
  <1>1. /\ commands' = commands /\ aborted' = aborted /\ model' = model /\ trigger' = trigger
        /\ now' = now /\ signals' = signals /\ created' = created /\ tokens' = tokens
        /\ listening' = listening /\ waiting' = waiting
    BY DEF vars
  <1>2. Queued' = Queued /\ \A t : Unmoved(t)' <=> Unmoved(t)
    BY <1>1 DEF Queued, Unmoved
  <1>3. /\ Live' = Live /\ Nodes' = Nodes
        /\ \A t : /\ Node(t)' = Node(t) /\ Kind(t)' = Kind(t) /\ State(t)' = State(t)
                  /\ Members(t)' = Members(t)
    BY <1>1 DEF Live, Nodes, Node, Kind, State, Members
  <1>4. \A t : TokenShaped(t) => TokenShaped(t)'
    BY <1>1, <1>3 DEF TokenShaped
  <1>5. Typed'
    BY <1>1, <1>3, <1>4 DEF IInv, Typed
  <1>6. ScopesKept'
    BY <1>1, <1>3 DEF IInv, ScopesKept
  <1>7. CommandsOK'
    <2>1. ASSUME NEW c \in Queued PROVE CommandOK(c)'
      <3>1. CommandOK(c)
        BY <2>1 DEF IInv, CommandsOK
      <3>2. ASSUME c.name # "broadcastSignal"
            PROVE  /\ c.for \in Live' /\ TokenFits(c.name, c.for)'
                   /\ ArgumentFits(c)' /\ BoundaryFits(c)'
        <4>1. /\ c.for \in Live /\ TokenFits(c.name, c.for) /\ ArgumentFits(c) /\ BoundaryFits(c)
          BY <3>1, <3>2 DEF CommandOK
        <4>2. TokenFits(c.name, c.for)'
          BY <1>1, <1>3, <4>1 DEF TokenFits, IsFlow
        <4>3. ArgumentFits(c)' /\ BoundaryFits(c)'
          BY <1>1, <1>3, <4>1 DEF ArgumentFits, BoundaryFits, IsFlow
        <4> QED
          BY <1>3, <4>1, <4>2, <4>3
      <3> QED
        BY <3>2 DEF CommandOK
    <2> QED
      BY <1>2, <2>1 DEF CommandsOK
  <1>8. NoneFails'
    BY <1>2, <1>3 DEF IInv, NoneFails, Compatible
  <1>9. OrderOK'
    BY <1>1, <1>2, <1>3 DEF IInv, OrderOK, InOrder, Alone, Ahead
  <1>10. ListeningOK' /\ WaitingOK' /\ DoneOK'
    BY <1>1, <1>2, <1>3 DEF IInv, ListeningOK, WaitingOK, DoneOK
  <1>11. AlternativesOK'
    <2>1. \A t : /\ Alternative(t)' <=> Alternative(t)
                 /\ Rests(t)' <=> Rests(t)
      BY <1>1, <1>2, <1>3 DEF Alternative, Rests
    <2>2. \A u \in Live : AlternativePlaced(u) => AlternativePlaced(u)'
      BY <1>1, <1>3, <2>1 DEF AlternativePlaced
    <2>3. \A c : AlternativeMoves(c) => AlternativeMoves(c)'
      BY <1>2, <1>3, <2>1 DEF AlternativeMoves
    <2> QED
      BY <1>2, <1>3, <2>1, <2>2, <2>3 DEF IInv, AlternativesOK
  <1>12. OnTheMove'
    BY <1>1, <1>2, <1>3 DEF IInv, OnTheMove, Underway
  <1>13. MergesOK'
    <2>1. \A u, g : Passed(u, g) => Passed(u, g)'
      BY <1>1, <1>3, StillPassed
    <2> QED
      BY <1>1, <1>2, <1>3, <2>1 DEF IInv, MergesOK, InclusiveMerge, Ahead
  <1>14. EmptiedStay
    BY <1>1, <1>3 DEF EmptiedStay, Emptied
  <1> QED
    BY <1>5, <1>6, <1>7, <1>8, <1>9, <1>10, <1>11, <1>12, <1>13, <1>14 DEF IInv

\* The command at the head of the queue is executed.
LEMMA ExecuteKeeps ==
  ASSUME IInv, Execute
  PROVE  IInv' /\ EmptiedStay
  <1>1. PICK t, name : t = Head(commands).for /\ name = Head(commands).name
    OBVIOUS
  <1>2. commands # <<>> /\ HeadIs(name, t)
    BY <1>1 DEF Execute, HeadIs
  <1>3. CASE name = "advanceToReady" /\ AdvanceToReady(t)
    BY <1>2, <1>3, ReadyKeeps
  <1>4. CASE name = "advanceToEntered" /\ AdvanceToEntered(t)
    BY <1>2, <1>4, EnteredKeeps
  <1>5. CASE name = "advanceToBusy" /\ AdvanceToBusy(t)
    BY <1>2, <1>5, BusyKeeps
  <1>6. CASE name = "run" /\ Run(t)
    BY <1>2, <1>6, RunKeeps
  <1>7. CASE name = "advanceToCompleted" /\ AdvanceToCompleted(t, Tail(commands))
    BY <1>2, <1>7, CompleteKeeps
  <1>8. CASE name = "advanceFromCompleted" /\ AdvanceFromCompleted(t)
    BY <1>2, <1>8, FromCompletedKeeps
  <1>9. CASE name = "advanceToDone" /\ AdvanceToDone(t)
    BY <1>2, <1>9, DoneKeeps
  <1>10. CASE name = "advanceToDeparted" /\ AdvanceToDeparted(t, Head(commands).arg)
    BY <1>2, <1>10, DepartedKeeps
  <1>11. CASE name = "advanceToArrived" /\ AdvanceToArrived(t)
    BY <1>2, <1>11, ArrivedKeeps
  <1>12. CASE name = "advanceToFailed" /\ AdvanceToFailed(t)
    BY <1>2, <1>12, FailedKeeps
  <1>13. CASE name = "terminate" /\ Terminate(t)
    BY <1>2, <1>13, TerminatedKeeps
  <1>14. CASE name = "updateFailed" /\ UpdateFailed(t)
    BY <1>2, <1>14, UpdateFailedKeeps
  <1>15. CASE name = "handleFailure" /\ HandleFailure(t)
    BY <1>2, <1>15, HandleFailureKeeps
  <1>16. CASE name = "deleteInstance" /\ DeleteInstance(t)
    BY <1>2, <1>16, InstanceDeletedKeeps
  <1>17. CASE name = "shutdown" /\ Shutdown(t)
    BY <1>2, <1>17, ShutdownKeeps
  <1>18. CASE name = "initiateBoundaryEvents" /\ InitiateBoundaryEvents(t)
    BY <1>2, <1>18, InitiateBoundaryEventsKeeps
  <1>19. CASE name = "initiateBoundaryEvent" /\ InitiateBoundaryEvent(t, Head(commands).arg)
    BY <1>2, <1>19, InitiateBoundaryEventKeeps
  <1>20. CASE name = "deleteBoundary" /\ DeleteBoundary(t, Head(commands).arg)
    BY <1>2, <1>20, BoundaryDeletedKeeps
  <1>21. CASE name = "interruptActivity" /\ InterruptActivity(t)
    BY <1>2, <1>21, InterruptedKeeps
  <1>22. CASE name = "handleDivergingGateway" /\ HandleDivergingGateway(t)
    BY <1>2, <1>22, DivergedKeeps
  <1>23. CASE name = "handleEventBasedGatewayActivation" /\ HandleEventBasedGatewayActivation(t)
    BY <1>2, <1>23, GatewayActivatedKeeps
  <1>24. CASE name = "createMergedToken" /\ CreateMergedToken(t, Head(commands).arg)
    BY <1>2, <1>24, CreateMergedKeeps
  <1>25. CASE name = "broadcastSignal" /\ BroadcastSignal
    BY <1>2, <1>25, BroadcastKeeps
  <1>26. CASE name = "advanceToDeparting" /\ AdvanceToDeparting(t)
    BY <1>2, <1>26, DepartingKeeps
  <1> QED
    BY <1>1, <1>3, <1>4, <1>5, <1>6, <1>7, <1>8, <1>9, <1>10, <1>11, <1>12, <1>13, <1>14, <1>15,
       <1>16, <1>17, <1>18, <1>19, <1>20, <1>21, <1>22, <1>23, <1>24, <1>25, <1>26 DEF Execute

\* Every step keeps the invariant.
LEMMA StepsKeep ==
  ASSUME IInv, [Next]_vars
  PROVE  IInv' /\ EmptiedStay
  <1>1. CASE Execute
    BY <1>1, ExecuteKeeps
  <1>2. CASE Activate
    BY <1>2, ActivateKeeps
  <1>3. ASSUME NEW t \in Live, ReadyEvent(t) PROVE IInv' /\ EmptiedStay
    BY <1>3, ReadyEventKeeps
  <1>4. ASSUME NEW t \in Live, EntryEvent(t) PROVE IInv' /\ EmptiedStay
    BY <1>4, EntryKeeps
  <1>5. ASSUME NEW t \in Live, CompletionEvent(t) PROVE IInv' /\ EmptiedStay
    BY <1>5, CompletionKeeps
  <1>6. ASSUME NEW t \in Live, ErrorEvent(t) PROVE IInv' /\ EmptiedStay
    BY <1>6, ErrorKeeps
  <1>7. CASE SignalBroadcastEvent
    BY <1>7, SignalKeeps
  <1>8. CASE ClockTickEvent
    BY <1>8, ClockTickKeeps
  <1>9. CASE UNCHANGED vars
    BY <1>9, StutterKeeps
  <1> QED
    BY <1>1, <1>2, <1>3, <1>4, <1>5, <1>6, <1>7, <1>8, <1>9 DEF Next, Decision

\* The inductive invariant holds of every reachable state.
THEOREM InvariantHolds == Spec => []IInv
  <1>1. Init => IInv
    BY Initially
  <1>2. IInv /\ [Next]_vars => IInv'
    BY StepsKeep
  <1> QED
    BY <1>1, <1>2, PTL DEF Spec

-----------------------------------------------------------------------------
\* The nodes before a gateway are those next to it and the ones before these.
LEMMA PredecessorsStep ==
  ASSUME IInv, NEW g \in Nodes
  PROVE  Predecessors(g) = Sources(g) \union UNION {Predecessors(k) : k \in Sources(g)}
  <1> DEFINE G(f) == [n \in Nodes |-> Sources(n) \union UNION {f[m] : m \in Sources(n)}]
             next == [n \in Nodes |-> Sources(n)]
             before == CHOOSE f : f = G(f)
  <1>1. \A n \in Nodes : Sources(n) \subseteq Nodes
    BY DEF Sources, FlowsTo, Nodes
  <1>2. \E f : f = G(f)
    <2>1. next \in [Nodes -> SUBSET Nodes]
      BY <1>1
    <2> HIDE DEF next
    <2>2. PICK f : Reaches(Nodes, next, f)
      BY <2>1, Reaching
    <2>3. PICK b : b = [n \in Nodes |-> UNION {f[k] : k \in Sources(n)}]
      OBVIOUS
    <2>4. \A n \in Nodes : f[n] = {n} \union b[n]
      BY <2>2, <2>3 DEF next, Reaches
    <2>5. ASSUME NEW n \in Nodes
          PROVE  b[n] = Sources(n) \union UNION {b[m] : m \in Sources(n)}
      <3>1. b[n] = UNION {f[k] : k \in Sources(n)}
        BY <2>3
      <3>2. \A k \in Sources(n) : f[k] = {k} \union b[k]
        BY <1>1, <2>4
      <3>3. \A y : y \in b[n] <=> \E k \in Sources(n) : y \in f[k]
        BY <3>1
      <3>4. \A y : y \in b[n] <=> \E k \in Sources(n) : y = k \/ y \in b[k]
        BY <3>2, <3>3
      <3> QED
        BY <3>4
    <2>6. b = G(b)
      BY <2>3, <2>5
    <2> QED
      BY <2>6
  <1>3. before = G(before)
    BY <1>2
  <1>4. \A n : Predecessors(n) = before[n]
    BY DEF Predecessors
  <1> HIDE DEF before
  <1>5. before[g] = Sources(g) \union UNION {before[m] : m \in Sources(g)}
    BY <1>3
  <1> QED
    BY <1>4, <1>5

\* The nodes reached from a node are itself and those reached from the next.
LEMMA ReachableStep ==
  ASSUME IInv, NEW n \in Nodes
  PROVE  Reachable(n) = {n} \union UNION {Reachable(k) : k \in FlowsFrom(model, n)}
  <1> DEFINE G(f) == [m \in Nodes |-> {m} \union UNION {f[k] : k \in Range(Outgoing(m))}]
             next == [m \in Nodes |-> Range(Outgoing(m))]
             after == CHOOSE f : f = G(f)
  <1>1. \A m \in Nodes : Range(Outgoing(m)) \subseteq Nodes
    BY ModelFits DEF IsModel, Outgoing, Nodes, Range
  <1>2. \E f : f = G(f)
    <2>1. next \in [Nodes -> SUBSET Nodes]
      BY <1>1
    <2> HIDE DEF next
    <2>2. PICK f : Reaches(Nodes, next, f)
      BY <2>1, Reaching
    <2>3. f = G(f)
      BY <2>2 DEF next, Reaches
    <2> QED
      BY <2>3
  <1>3. after = G(after)
    BY <1>2
  <1>4. \A m : Reachable(m) = after[m]
    BY DEF Reachable
  <1>5. Range(Outgoing(n)) = FlowsFrom(model, n)
    BY DEF Outgoing, FlowsFrom
  <1> HIDE DEF after
  <1>6. after[n] = {n} \union UNION {after[k] : k \in Range(Outgoing(n))}
    BY <1>3
  <1> QED
    BY <1>4, <1>5, <1>6

\* A node before one that comes before a gateway comes before the gateway.
LEMMA PredecessorsCompose ==
  ASSUME IInv, NEW n \in Nodes, NEW k \in Nodes, n \in Sources(k),
         NEW g \in Nodes, k \in Predecessors(g)
  PROVE  n \in Predecessors(g)
  <1> DEFINE S == {h \in Nodes : k \in Predecessors(h) /\ n \notin Predecessors(h)}
  <1>1. SUFFICES ASSUME S # {} PROVE FALSE
    OBVIOUS
  <1>2. S \in (SUBSET DOMAIN model.kind) \ {{}}
    BY <1>1 DEF Nodes
  <1> HIDE DEF S
  <1>3. PICK h \in S : FlowsTo(model, h) \intersect S = {}
    BY <1>2, ModelFits DEF Acyclic
  <1>4. h \in Nodes /\ k \in Predecessors(h) /\ n \notin Predecessors(h)
    BY <1>3 DEF S
  <1>5. Sources(h) \subseteq Nodes /\ Sources(h) \intersect S = {}
    BY <1>3 DEF Sources, FlowsTo, Nodes
  <1>6. Predecessors(h) = Sources(h) \union UNION {Predecessors(m) : m \in Sources(h)}
    BY <1>4, PredecessorsStep
  <1>7. Predecessors(k) = Sources(k) \union UNION {Predecessors(m) : m \in Sources(k)}
    BY PredecessorsStep
  <1>8. CASE k \in Sources(h)
    <2>1. n \in Predecessors(k)
      BY <1>7
    <2> QED
      BY <1>4, <1>6, <1>8, <2>1
  <1>9. CASE k \notin Sources(h)
    <2>1. PICK m \in Sources(h) : k \in Predecessors(m)
      BY <1>4, <1>6, <1>9
    <2>2. m \in Nodes /\ m \notin S
      BY <1>5
    <2>3. n \in Predecessors(m)
      BY <2>1, <2>2 DEF S
    <2> QED
      BY <1>4, <1>6, <2>1, <2>3
  <1> QED
    BY <1>8, <1>9

\* The nodes from which a gateway can be reached are those before it.
LEMMA ReachedFromPredecessors ==
  ASSUME IInv, NEW n \in Nodes, NEW g \in Nodes, g \in Reachable(n), n # g
  PROVE  n \in Predecessors(g)
  <1> DEFINE S == {h \in Nodes : g \in Reachable(h) /\ h # g /\ h \notin Predecessors(g)}
  <1>1. SUFFICES ASSUME S # {} PROVE FALSE
    OBVIOUS
  <1>2. S \in (SUBSET DOMAIN model.kind) \ {{}}
    BY <1>1 DEF Nodes
  <1> HIDE DEF S
  <1>3. PICK h \in S : FlowsFrom(model, h) \intersect S = {}
    BY <1>2, ModelFits DEF Acyclic
  <1>4. h \in Nodes /\ g \in Reachable(h) /\ h # g /\ h \notin Predecessors(g)
    BY <1>3 DEF S
  <1>5. PICK k \in FlowsFrom(model, h) : g \in Reachable(k)
    BY <1>4, ReachableStep
  <1>6. k \in Nodes /\ k \notin S /\ h \in Sources(k)
    <2>1. k \in Nodes
      BY <1>4, <1>5, ModelFits DEF IsModel, FlowsFrom, Nodes, Range
    <2>2. h \in Sources(k)
      BY <1>4, <1>5 DEF Sources, FlowsTo, Nodes
    <2> QED
      BY <1>3, <1>5, <2>1, <2>2
  <1>7. k = g \/ k \in Predecessors(g)
    BY <1>5, <1>6 DEF S
  <1>8. CASE k = g
    BY <1>4, <1>6, <1>8, PredecessorsStep
  <1>9. CASE k \in Predecessors(g)
    BY <1>4, <1>6, <1>9, PredecessorsCompose
  <1> QED
    BY <1>7, <1>8, <1>9

-----------------------------------------------------------------------------
\* Every variable has the values its place in the code can hold.
THEOREM TypesHold == Spec => []TypeOK
  <1>1. IInv => TypeOK
    <2> SUFFICES ASSUME IInv PROVE TypeOK
      OBVIOUS
    <2>1. /\ model \in Models /\ now \in 0..MaxTime /\ signals \in 0..MaxSignals
          /\ trigger \in [TimerNodes(model) -> 0..MaxTime]
          /\ created \in Ids /\ Live \subseteq 1..created /\ aborted \in BOOLEAN
          /\ Range(listening) \subseteq Live /\ waiting \subseteq Live
      BY DEF IInv, Typed
    <2>2. ASSUME NEW t \in Live
          PROVE  /\ tokens[t].node \in Nodes /\ tokens[t].state \in States
                 /\ tokens[t].owner \in 0..created /\ tokens[t].link \in 0..created
                 /\ tokens[t].owned \in BOOLEAN
                 /\ tokens[t].flow \in {<<>>} \union (Nodes \X Nodes)
      BY TokenFacts DEF Records
    <2>3. \A t \in Live : t \in waiting => State(t) = "WAITING" /\ Kind(t) \in Gateways
      BY WaitingFacts
    <2> QED
      BY <2>1, <2>2, <2>3 DEF TypeOK
  <1> QED
    BY <1>1, InvariantHolds, PTL

\* No token outlives the scope it is in: whatever completes, fails, interrupts or
\* terminates a scope, at whatever depth, withdraws the tokens within it.
THEOREM ScopesAreKept == Spec => []ScopesKept
  <1>1. IInv => ScopesKept
    BY DEF IInv
  <1> QED
    BY <1>1, InvariantHolds, PTL

\* A converging inclusive gateway releases a token only when no other token of
\* the scope can still reach it along the sequence flows.
THEOREM InclusiveGatewaysAwait == Spec => []InclusiveAwaits
  <1>1. IInv => InclusiveAwaits
    <2> SUFFICES ASSUME IInv, NEW s \in Live, NEW g \in Nodes, Merges(s, g, "inclusive"),
                        NEW u \in Members(s)
        PROVE  \/ Node(u) = g /\ State(u) = "WAITING"
               \/ Kind(u) \in Boundaries \/ State(u) = "DONE"
               \/ g \notin Reachable(Node(u))
      BY DEF InclusiveAwaits
    <2>1. PICK c : c = Head(commands)
      OBVIOUS
    <2>2. /\ commands # <<>> /\ c.name = "createMergedToken" /\ c.for = s /\ c.arg = g
          /\ model.kind[g] = "inclusive"
      BY <2>1 DEF Merges, With
    <2>3. c \in Queued /\ InclusiveMerge(c)
      BY <2>1, <2>2, HeadFits DEF InclusiveMerge
    <2>4. Passed(u, g)
      BY <2>2, <2>3 DEF IInv, MergesOK
    <2>5. u \in Live /\ Node(u) \in Nodes
      BY TokenFacts DEF Members
    <2> QED
      BY <2>4, <2>5, ReachedFromPredecessors DEF Passed
  <1> QED
    BY <1>1, InvariantHolds, PTL

\* Whoever is linked to an event-based gateway finds the token there awaiting
\* the first event, and has not gone beyond the catch event behind it.
THEOREM AlternativesAreWithdrawn == Spec => []AlternativesWithdrawn
  <1>1. IInv => AlternativesWithdrawn
    BY DEF IInv, AlternativesOK, Alternative, AlternativePlaced, Rests, AlternativesWithdrawn
  <1> QED
    BY <1>1, InvariantHolds, PTL

-----------------------------------------------------------------------------
\* What parallel gateways rest on, as long as no two tokens of a scope wait on
\* one of their incoming sequence flows.
OneTokenPerFlow ==
  \A t, u \in waiting :
    t # u /\ tokens[t].owner = tokens[u].owner /\ Kind(t) = "parallel" =>
      tokens[t].flow # tokens[u].flow

ParallelMerge(c) == c.name = "createMergedToken" /\ model.kind[c.arg] = "parallel"

\* A waiting token has come along a sequence flow to its node.
HasCome(t) == \E n \in Sources(Node(t)) : tokens[t].flow = <<n, Node(t)>>

\* A token waits on each incoming sequence flow of the gateway merging.
JoinReady(c) ==
  /\ Sources(c.arg) # {}
  /\ \A n \in Sources(c.arg) :
       \E t \in waiting : tokens[t].owner = c.for /\ tokens[t].flow = <<n, c.arg>>

\* A merge queued is the only one of its gateway and scope, which does not shut
\* down before.
JoinAlone(c) ==
  /\ \A d \in Queued : Ahead(c, d) /\ ParallelMerge(d) => <<d.for, d.arg>> # <<c.for, c.arg>>
  /\ \A d \in Queued : d.name = "shutdown" => d.for # c.for

\* A process terminated meanwhile has lost the tokens of the merges queued for it.
JoinsOK ==
  /\ \A t \in waiting : HasCome(t)
  /\ \A c \in Queued : ParallelMerge(c) => (JoinReady(c) \/ Emptied(c.for)) /\ JoinAlone(c)

StepKept == IInv' /\ EmptiedStay

\* What is enqueued where commands are left: a scope shuts down without a merge,
\* and a merge comes when its tokens wait, and no other is queued.
NewJoins(gone, shut, new) ==
  \A c \in Range(new) :
    /\ c.name = "shutdown" =>
         ~ParallelMerge(c) /\ \A d \in Left(gone, shut) : ParallelMerge(d) => d.for # c.for
    /\ ParallelMerge(c) =>
         /\ JoinReady(c)' /\ new = <<c>>
         /\ \A d \in Left(gone, shut) :
              /\ ParallelMerge(d) => <<d.for, d.arg>> # <<c.for, c.arg>>
              /\ d.name = "shutdown" => d.for # c.for

\* Joins stay ready when tokens leave that they do not await, and others come.
LEMMA JoinsStay ==
  ASSUME IInv, JoinsOK, StepKept, NEW gone, NEW shut, NEW new, QueueStep(gone, shut, new), model' = model,
         NEW left, waiting \ left \subseteq waiting',
         \A u \in waiting \ left : tokens'[u] = tokens[u],
         \A u \in waiting' : u \in waiting \ left \/ HasCome(u)',
         NewJoins(gone, shut, new),
         \A u \in waiting, c \in Left(gone, shut) :
           u \in left /\ ParallelMerge(c) /\ c.for = tokens[u].owner =>
             c.arg # Node(u) \/ Emptied(c.for)'
  PROVE  JoinsOK'
  <1>1. ASSUME NEW t \in waiting' PROVE HasCome(t)'
    <2>1. CASE t \in waiting \ left
      <3>1. HasCome(t) /\ tokens'[t] = tokens[t]
        BY <2>1 DEF JoinsOK
      <3> QED
        BY <3>1 DEF HasCome, Node, Sources
    <2> QED
      BY <2>1
  <1>2. /\ Queued' = Left(gone, shut) \union Range(new)
        /\ \A c \in Left(gone, shut) : c \in Queued
        /\ \A c, d : Ahead(c, d)' =>
             \/ c \in Left(gone, shut) /\ d \in Left(gone, shut) /\ Ahead(c, d)
             \/ c \in Left(gone, shut) /\ d \in Range(new)
             \/ Before(new, c, d) /\ c \in Range(new) /\ d \in Range(new)
    <2>1. \A c, d : Before(new, c, d) => c \in Range(new) /\ d \in Range(new)
      BY DEF Before, Range
    <2> QED
      BY <2>1, RestQueued DEF QueueStep, Left, IInv, Typed
  <1>3. ASSUME NEW c \in Left(gone, shut), ParallelMerge(c)
        PROVE  (JoinReady(c)' \/ Emptied(c.for)') /\ JoinAlone(c)'
    <2>1. (JoinReady(c) \/ Emptied(c.for)) /\ JoinAlone(c) /\ c \in Queued /\ c \in Queued'
      BY <1>2, <1>3 DEF JoinsOK
    <2>2. ASSUME JoinReady(c), ~Emptied(c.for)' PROVE JoinReady(c)'
      <3>1. ASSUME NEW n \in Sources(c.arg)
            PROVE  \E t \in waiting' : tokens'[t].owner = c.for /\ tokens'[t].flow = <<n, c.arg>>
        <4>1. PICK t \in waiting : tokens[t].owner = c.for /\ tokens[t].flow = <<n, c.arg>>
          BY <2>2 DEF JoinReady
        <4>2. Node(t) = c.arg
          BY <4>1 DEF JoinsOK, HasCome
        <4>3. t \notin left
          BY <1>3, <2>2, <4>1, <4>2
        <4> QED
          BY <4>1, <4>3
      <3> QED
        BY <2>2, <3>1 DEF JoinReady, Sources
    <2>3. Emptied(c.for) => Emptied(c.for)'
      <3>1. CommandOK(c) /\ CommandOK(c)'
        BY <2>1 DEF StepKept, IInv, CommandsOK
      <3>2. c.for \in Live /\ c.for \in Live'
        BY <1>3, <3>1 DEF CommandOK, ParallelMerge
      <3> QED
        BY <3>2 DEF StepKept, EmptiedStay
    <2>4. ASSUME NEW d \in Queued', Ahead(c, d)', ParallelMerge(d)'
          PROVE  <<d.for, d.arg>> # <<c.for, c.arg>>
      <3>1. ParallelMerge(d)
        BY <2>4 DEF ParallelMerge
      <3>2. CASE d \in Range(new)
        BY <1>3, <3>1, <3>2 DEF NewJoins
      <3>3. CASE d \notin Range(new)
        <4>1. d \in Queued /\ Ahead(c, d)
          BY <1>2, <2>4, <3>3
        <4> QED
          BY <2>1, <3>1, <4>1 DEF JoinAlone
      <3> QED
        BY <3>2, <3>3
    <2>5. ASSUME NEW d \in Queued', d.name = "shutdown" PROVE d.for # c.for
      BY <1>2, <1>3, <2>1, <2>5 DEF JoinAlone, NewJoins
    <2> QED
      BY <2>1, <2>2, <2>3, <2>4, <2>5 DEF JoinAlone
  <1>4. ASSUME NEW c \in Range(new), c \notin Left(gone, shut), ParallelMerge(c)
        PROVE  JoinReady(c)' /\ JoinAlone(c)'
    <2>1. JoinReady(c)' /\ new = <<c>>
      BY <1>4 DEF NewJoins
    <2>2. Range(new) = {c} /\ \A d, e : ~Before(new, d, e)
      BY <2>1, OneQueued
    <2>3. \A d : ~Ahead(c, d)'
      BY <1>2, <1>4, <2>2
    <2>4. ASSUME NEW d \in Queued', d.name = "shutdown" PROVE d.for # c.for
      <3>1. d # c
        BY <1>4, <2>4 DEF ParallelMerge
      <3> QED
        BY <1>2, <1>4, <2>2, <2>4, <3>1 DEF NewJoins
    <2> QED
      BY <2>1, <2>3, <2>4 DEF JoinAlone
  <1>5. \A c \in Queued' : ParallelMerge(c)' => (JoinReady(c)' \/ Emptied(c.for)') /\ JoinAlone(c)'
    BY <1>2, <1>3, <1>4 DEF ParallelMerge
  <1> QED
    BY <1>1, <1>5 DEF JoinsOK

\* A token that does not wait is changed, or tokens are created.
LEMMA JoinsUntouched ==
  ASSUME IInv, JoinsOK, StepKept, NEW gone, NEW shut, NEW new, QueueStep(gone, shut, new), model' = model,
         waiting' = waiting, NEW t, t \notin waiting,
         \A u \in Live : u # t => tokens'[u] = tokens[u],
         \A c \in Range(new) : ~ParallelMerge(c) /\ c.name # "shutdown"
  PROVE  JoinsOK'
  <1>1. PICK left : left = {}
    OBVIOUS
  <1>2. waiting \subseteq Live /\ waiting' = waiting \ left
    BY <1>1 DEF IInv, Typed
  <1>3. \A u \in waiting \ left : tokens'[u] = tokens[u]
    BY <1>1, <1>2
  <1>4. \A u \in waiting, c \in Left(gone, shut) :
          u \in left /\ ParallelMerge(c) /\ c.for = tokens[u].owner => c.arg # Node(u)
    BY <1>1
  <1>5. NewJoins(gone, shut, new)
    BY DEF NewJoins
  <1> QED
    BY <1>2, <1>3, <1>4, <1>5, JoinsStay

\* Tokens are removed: those waiting that remain are not awaited by a merge left.
LEMMA JoinsTrimmed ==
  ASSUME IInv, JoinsOK, StepKept, NEW gone, NEW shut, NEW new, QueueStep(gone, shut, new), model' = model,
         waiting' = waiting \ gone, \A u \in Live \ gone : tokens'[u] = tokens[u] \/ u \notin waiting,
         \A c \in Range(new) : ~ParallelMerge(c) /\ c.name # "shutdown",
         \A u \in waiting, c \in Left(gone, shut) :
           u \in gone /\ ParallelMerge(c) => c.for # tokens[u].owner \/ Emptied(c.for)'
  PROVE  JoinsOK'
  <1>1. waiting \subseteq Live
    BY DEF IInv, Typed
  <1>2. \A u \in waiting \ gone : tokens'[u] = tokens[u]
    BY <1>1
  <1>3. \A u \in waiting, c \in Left(gone, shut) :
          u \in gone /\ ParallelMerge(c) /\ c.for = tokens[u].owner =>
            c.arg # Node(u) \/ Emptied(c.for)'
    OBVIOUS
  <1>4. NewJoins(gone, shut, new)
    BY DEF NewJoins
  <1> QED
    BY <1>2, <1>3, <1>4, JoinsStay

-----------------------------------------------------------------------------
\* Commands by which no join is released and no scope shut down.
Quiet(q) == IsQueue(q) /\ \A c \in Range(q) : c.name \notin {"createMergedToken", "shutdown"}

LEMMA QuietNone == Quiet(<<>>)
  BY NoneQueued DEF Quiet

LEMMA QuietOne ==
  ASSUME NEW c, c.name \notin {"createMergedToken", "shutdown"}
  PROVE  Quiet(<<c>>)
  BY OneQueued DEF Quiet

LEMMA QuietBoth ==
  ASSUME NEW a, Quiet(a), NEW b, Quiet(b)
  PROVE  Quiet(a \o b)
  <1>1. IsQueue(a \o b) /\ Range(a \o b) = Range(a) \union Range(b)
    BY JoinedOrder DEF Quiet
  <1> QED
    BY <1>1 DEF Quiet

LEMMA DepartureQuiet ==
  ASSUME IInv, NEW t \in Live, NEW q \in Departure(t)
  PROVE  Quiet(q)
  <1>1. PICK c : q = <<c>> /\ c.name \in {"advanceToDone", "advanceToDeparted", "handleDivergingGateway"}
    BY Departs
  <1>2. Quiet(<<c>>)
    BY <1>1, QuietOne
  <1> QED
    BY <1>1, <1>2

LEMMA ConsequenceQuiet == ASSUME NEW t PROVE Quiet(Consequence(t))
  <1> DEFINE i == Command("interruptActivity", tokens[t].link)
             b == With("initiateBoundaryEvent", tokens[t].link, Node(t))
             h == Command("handleEventBasedGatewayActivation", t)
  <1>1. Consequence(t) \in {<<>>, <<i>>, <<b>>, <<h>>}
    BY DEF Consequence
  <1>2. /\ i.name = "interruptActivity" /\ b.name = "initiateBoundaryEvent"
        /\ h.name = "handleEventBasedGatewayActivation"
    BY DEF Command, With
  <1> HIDE DEF i, b, h
  <1>3. Quiet(<<>>) /\ Quiet(<<i>>) /\ Quiet(<<b>>) /\ Quiet(<<h>>)
    BY <1>2, QuietNone, QuietOne
  <1> QED
    BY <1>1, <1>3

LEMMA EntryQuiet ==
  ASSUME IInv, NEW t \in Live, NEW q \in EntryCommands(t)
  PROVE  Quiet(q)
  <1> DEFINE busy == <<Command("advanceToBusy", t)>>
             boundary == IF BoundaryEvents(Node(t)) = <<>> THEN <<>>
                         ELSE <<Command("initiateBoundaryEvents", t)>>
  <1>1. Quiet(busy) /\ Quiet(Fails(t)) /\ Quiet(<<Broadcast>>)
    BY QuietOne DEF Command, Fails, Broadcast
  <1>2. Quiet(boundary)
    <2>1. Quiet(<<Command("initiateBoundaryEvents", t)>>)
      BY QuietOne DEF Command
    <2> QED
      BY <2>1, QuietNone
  <1>3. CASE Kind(t) \in ActivityKinds
    <2>1. q \in {boundary \o busy} \union
                 (IF Kind(t) = "task" /\ Node(t) \in model.restricted
                  THEN {boundary \o Fails(t)} ELSE {})
      BY <1>3 DEF EntryCommands, ActivityKinds, CatchEvents, Boundaries
    <2> HIDE DEF boundary, busy
    <2> QED
      BY <1>1, <1>2, <2>1, QuietBoth
  <1>4. CASE Kind(t) \notin ActivityKinds
    <2>1. \/ q = busy \/ q = Fails(t) \/ q \in Departure(t)
          \/ \E d \in Departure(t) : q = <<Broadcast>> \o d
      <3>1. CASE Kind(t) \in CatchEvents \union {"process", "eventBased"}
        BY <1>4, <3>1 DEF EntryCommands
      <3>2. CASE Kind(t) = "errorEnd"
        BY <1>4, <3>2 DEF EntryCommands, CatchEvents, Boundaries
      <3>3. CASE Kind(t) = "signalThrow"
        BY <1>4, <3>3 DEF EntryCommands, CatchEvents, Boundaries
      <3>4. CASE /\ Kind(t) \notin CatchEvents \union {"process", "eventBased"}
                 /\ Kind(t) \notin {"errorEnd", "signalThrow"}
        <4>1. q \in Departure(t)
          BY <1>4, <3>4 DEF EntryCommands
        <4> QED
          BY <4>1
      <3> QED
        BY <3>1, <3>2, <3>3, <3>4
    <2> HIDE DEF boundary, busy
    <2> QED
      BY <1>1, <2>1, DepartureQuiet, QuietBoth
  <1> QED
    BY <1>3, <1>4

\* Quiet commands are enqueued behind the others, or behind those left.
LEMMA EnqueueQuiet ==
  ASSUME IInv, commands # <<>>, NEW q, Quiet(q), Enqueue(q)
  PROVE  QueueStep({}, {}, q)
  BY CommandsEnqueued DEF Enqueue, Quiet, IInv, Typed

LEMMA LapseQuiet ==
  ASSUME IInv, commands # <<>>, NEW gone, NEW shut, NEW q, Quiet(q),
         commands' = Purged(Tail(commands), gone, shut) \o q
  PROVE  QueueStep(gone, shut, q)
  BY CommandsLapse DEF Quiet, IInv, Typed

\* A token that does not wait is advanced where it is.
LEMMA JoinsInPlace ==
  ASSUME IInv, JoinsOK, StepKept, commands # <<>>, NEW t, t \notin waiting, model' = model,
         waiting' = waiting, \A u \in Live : u # t => tokens'[u] = tokens[u],
         NEW q, Quiet(q), Enqueue(q)
  PROVE  JoinsOK'
  <1>1. PICK none : none = {}
    OBVIOUS
  <1>2. QueueStep(none, none, q)
    BY <1>1, EnqueueQuiet
  <1>3. \A c \in Range(q) : ~ParallelMerge(c) /\ c.name # "shutdown"
    BY DEF Quiet, ParallelMerge
  <1> QED
    BY <1>2, <1>3, JoinsUntouched

\* Who can fail does not wait.
LEMMA NotAtGateway ==
  ASSUME IInv, NEW t, Kind(t) \notin Gateways
  PROVE  t \notin waiting
  BY DEF IInv, WaitingOK

LEMMA FunctionQuiet ==
  ASSUME NEW k \in Nat, NEW q, DOMAIN q = 1..k, q = [i \in 1..k |-> q[i]],
         \A i \in 1..k : q[i].name \notin {"createMergedToken", "shutdown"}
  PROVE  Quiet(q)
  <1>1. IsQueue(q) /\ \A c \in Range(q) : \E i \in 1..k : c = q[i]
    BY FunctionQueued
  <1> QED
    BY <1>1 DEF Quiet

LEMMA ReadyJoins ==
  ASSUME IInv, JoinsOK, StepKept, NEW t, HeadIs("advanceToReady", t), AdvanceToReady(t)
  PROVE  JoinsOK'
  <1>1. t \notin waiting /\ commands # <<>>
    BY HeadMoves DEF Main, Moving, HeadIs
  <1>2. /\ \A u \in Live : u # t => tokens'[u] = tokens[u]
        /\ model' = model /\ waiting' = waiting /\ Enqueue(<<>>)
    BY DEF AdvanceToReady, Set, environment, registers, Live
  <1> QED
    BY <1>1, <1>2, QuietNone, JoinsInPlace

LEMMA EnteredJoins ==
  ASSUME IInv, JoinsOK, StepKept, NEW t, HeadIs("advanceToEntered", t), AdvanceToEntered(t)
  PROVE  JoinsOK'
  <1>1. t \in Live /\ t \notin waiting /\ commands # <<>>
    BY HeadMoves DEF Main, Moving, HeadIs
  <1>2. /\ \A u \in Live : u # t => tokens'[u] = tokens[u]
        /\ model' = model /\ waiting' = waiting
        /\ \E cmds \in EntryCommands(t) : Enqueue(cmds)
    BY DEF AdvanceToEntered, Set, environment, registers, Live
  <1>3. PICK cmds \in EntryCommands(t) : Enqueue(cmds)
    BY <1>2
  <1>4. Quiet(cmds)
    BY <1>1, EntryQuiet
  <1> QED
    BY <1>1, <1>2, <1>3, <1>4, JoinsInPlace

LEMMA BusyJoins ==
  ASSUME IInv, JoinsOK, StepKept, NEW t, HeadIs("advanceToBusy", t), AdvanceToBusy(t)
  PROVE  JoinsOK'
  <1>1. t \notin waiting /\ commands # <<>>
    BY HeadMoves DEF Main, Moving, HeadIs
  <1> DEFINE complete == <<Command("advanceToCompleted", t)>>
             run == <<With("run", t, None)>>
             diverge == <<Command("advanceToDeparting", t)>>
             q == CASE Kind(t) \in Scopes -> run
                    [] Kind(t) = "eventBased" -> diverge
                    [] Kind(t) = "start" -> complete
                    [] Kind(t) \in Timers /\ trigger[Node(t)] <= now -> complete
                    [] OTHER -> <<>>
  <1>2. /\ \A u \in Live : u # t => tokens'[u] = tokens[u]
        /\ model' = model /\ waiting' = waiting /\ Enqueue(q)
    BY DEF AdvanceToBusy, Set, environment, Live
  <1>3. Quiet(complete) /\ Quiet(run) /\ Quiet(diverge) /\ Quiet(<<>>)
    BY QuietOne, QuietNone DEF Command, With
  <1>4. q \in {complete, run, diverge, <<>>}
    <2> HIDE DEF complete, run, diverge
    <2>1. CASE Kind(t) \in Scopes
      BY <2>1 DEF Scopes
    <2>2. CASE Kind(t) = "eventBased"
      BY <2>2 DEF Scopes, Timers
    <2>3. CASE Kind(t) = "start"
      BY <2>3 DEF Scopes, Timers
    <2>4. CASE Kind(t) \in Timers /\ trigger[Node(t)] <= now
      BY <2>4 DEF Scopes, Timers
    <2>5. CASE /\ Kind(t) \notin Scopes \union {"eventBased", "start"}
               /\ ~(Kind(t) \in Timers /\ trigger[Node(t)] <= now)
      BY <2>5
    <2> QED
      BY <2>1, <2>2, <2>3, <2>4, <2>5
  <1> HIDE DEF complete, run, diverge, q
  <1>5. Quiet(q)
    BY <1>3, <1>4
  <1> QED
    BY <1>1, <1>2, <1>5, JoinsInPlace

LEMMA CreatedJoins ==
  ASSUME IInv, JoinsOK, StepKept, commands # <<>>, NEW gone, gone \subseteq Live, NEW k, NEW new,
         MadeFrom(gone, k, new), \A u \in waiting : u \notin gone,
         model' = model, waiting' = waiting,
         NEW q, Quiet(q), QueueStep(gone, {}, q)
  PROVE  JoinsOK'
  <1>1. \A u \in Live \ gone : tokens'[u] = tokens[u]
    BY AddedTokens
  <1>2. PICK left : left = {}
    OBVIOUS
  <1>3. waiting' = waiting \ left /\ \A u \in waiting \ left : tokens'[u] = tokens[u]
    BY <1>1, <1>2 DEF IInv, Typed
  <1>4. PICK shut : shut = {}
    OBVIOUS
  <1>5. \A c \in Range(q) : ~ParallelMerge(c) /\ c.name # "shutdown"
    BY DEF Quiet, ParallelMerge
  <1>6. \A u \in waiting, c \in Left(gone, shut) :
          u \in left /\ ParallelMerge(c) /\ c.for = tokens[u].owner => c.arg # Node(u)
    BY <1>2
  <1>7. QueueStep(gone, shut, q) /\ NewJoins(gone, shut, q)
    BY <1>4, <1>5 DEF NewJoins
  <1> QED
    BY <1>3, <1>6, <1>7, JoinsStay

LEMMA RunJoins ==
  ASSUME IInv, JoinsOK, StepKept, NEW s, HeadIs("run", s), Run(s)
  PROVE  JoinsOK'
  <1>1. PICK x : tokens' = Added(tokens, <<x>>)
    BY DEF Run
  <1> DEFINE c == Command("advanceToBusy", NewId(1))
  <1>2. Enqueue(<<c>>) /\ model' = model /\ waiting' = waiting /\ commands # <<>>
    BY DEF Run, environment, registers, HeadIs
  <1>3. Quiet(<<c>>)
    BY QuietOne DEF Command
  <1> HIDE DEF c
  <1>4. PICK gone : gone = {}
    OBVIOUS
  <1>5. MadeFrom(gone, 1, <<x>>)
    BY <1>1, <1>4 DEF MadeFrom
  <1>6. QueueStep(gone, {}, <<c>>)
    BY <1>2, <1>3, <1>4, EnqueueQuiet
  <1> QED
    BY <1>2, <1>3, <1>4, <1>5, <1>6, CreatedJoins

LEMMA InitiateJoins ==
  ASSUME IInv, JoinsOK, StepKept, commands # <<>>, NEW a, NEW n, InitiateBoundaryEvent(a, n)
  PROVE  JoinsOK'
  <1>1. PICK x : tokens' = Added(tokens, <<x>>)
    BY DEF InitiateBoundaryEvent
  <1> DEFINE c == Command("advanceToBusy", NewId(1))
  <1>2. Enqueue(<<c>>) /\ model' = model /\ waiting' = waiting
    BY DEF InitiateBoundaryEvent, environment, registers
  <1>3. Quiet(<<c>>)
    BY QuietOne DEF Command
  <1> HIDE DEF c
  <1>4. PICK gone : gone = {}
    OBVIOUS
  <1>5. MadeFrom(gone, 1, <<x>>)
    BY <1>1, <1>4 DEF MadeFrom
  <1>6. QueueStep(gone, {}, <<c>>)
    BY <1>2, <1>3, <1>4, EnqueueQuiet
  <1> QED
    BY <1>2, <1>3, <1>4, <1>5, <1>6, CreatedJoins

LEMMA NothingJoins ==
  ASSUME IInv, JoinsOK, StepKept, commands # <<>>, UNCHANGED <<model, tokens, waiting>>,
         NEW q, Quiet(q), Enqueue(q)
  PROVE  JoinsOK'
  <1>1. None \notin waiting
    BY FlowAssumption DEF IInv, Typed, Ids, None
  <1> QED
    BY <1>1, JoinsInPlace

LEMMA DepartingJoins ==
  ASSUME IInv, JoinsOK, StepKept, NEW t, HeadIs("advanceToDeparting", t), AdvanceToDeparting(t)
  PROVE  JoinsOK'
  <1>1. PICK q \in {<<>>} \union Departure(t) : Enqueue(q)
    BY DEF AdvanceToDeparting
  <1>2. Quiet(q)
    <2>1. t \in Live
      BY HeadMoves DEF Main, Moving
    <2>2. CASE q = <<>>
      BY <2>2, QuietNone
    <2>3. CASE q \in Departure(t)
      BY <2>1, <2>3, DepartureQuiet
    <2> QED
      BY <1>1, <2>2, <2>3
  <1>3. UNCHANGED <<model, tokens, waiting>> /\ commands # <<>>
    BY DEF AdvanceToDeparting, environment, registers, HeadIs
  <1> QED
    BY <1>1, <1>2, <1>3, NothingJoins

LEMMA InitiateAllJoins ==
  ASSUME IInv, JoinsOK, StepKept, NEW a, HeadIs("initiateBoundaryEvents", a), InitiateBoundaryEvents(a)
  PROVE  JoinsOK'
  <1> DEFINE events == BoundaryEvents(Node(a))
             k == Len(events)
             new == [i \in 1..k |-> Token(events[i], "ENTERED", tokens[a].owner, a)]
             q == [i \in 1..k |-> Command("advanceToBusy", NewId(i))]
  <1>0. commands # <<>>
    BY DEF HeadIs
  <1>1. CASE Enqueue(<<>>) /\ UNCHANGED <<created, tokens>> /\ UNCHANGED <<environment, registers, aborted>>
    BY <1>0, <1>1, QuietNone, NothingJoins DEF environment, registers
  <1>2. CASE /\ tokens' = Added(tokens, new) /\ Enqueue(q)
             /\ UNCHANGED <<environment, registers, aborted>>
    <2>1. a \in Live /\ Kind(a) \in ActivityKinds
      BY HeadFits DEF HeadIs, CommandOK, TokenFits
    <2>2. events \in Seq(Nodes) /\ k \in Nat
      <3>1. Node(a) \in Nodes /\ model \in Models
        BY <2>1, TokenFacts DEF IInv, Typed
      <3>2. CASE Node(a) \in DOMAIN model.boundary
        <4>1. model.boundary[Node(a)] \in Seq({b \in DOMAIN model.kind : model.kind[b] \in Boundaries})
          BY <3>1, <3>2, FlowAssumption DEF BoundariesFit, Nodes
        <4> QED
          BY <3>2, <4>1 DEF BoundaryEvents, Nodes
      <3>3. CASE Node(a) \notin DOMAIN model.boundary
        BY <3>3 DEF BoundaryEvents
      <3> QED
        BY <3>2, <3>3
    <2> HIDE DEF events
    <2>3. DOMAIN q = 1..k /\ q = [i \in 1..k |-> q[i]]
      BY <2>2
    <2>4. \A i \in 1..k : q[i].name \notin {"createMergedToken", "shutdown"}
      BY DEF Command
    <2>5. new \in Seq(Range(new)) /\ Len(new) = k
      <3>1. DOMAIN new = 1..k /\ new = [i \in 1..k |-> new[i]]
        OBVIOUS
      <3> HIDE DEF new
      <3> QED
        BY <2>2, <3>1, FunctionQueued DEF IsQueue
    <2> HIDE DEF q, new, k
    <2>6. Quiet(q)
      BY <2>2, <2>3, <2>4, FunctionQuiet
    <2>7. PICK gone : gone = {}
      OBVIOUS
    <2>8. MadeFrom(gone, k, new)
      BY <1>2, <2>2, <2>5, <2>7 DEF MadeFrom
    <2>9. QueueStep(gone, {}, q)
      BY <1>0, <1>2, <2>6, <2>7, EnqueueQuiet
    <2> QED
      BY <1>0, <1>2, <2>6, <2>7, <2>8, <2>9, CreatedJoins DEF environment, registers
  <1> QED
    BY <1>1, <1>2 DEF InitiateBoundaryEvents

\* An assertion has failed: nothing is queued.
LEMMA AbortJoins ==
  ASSUME IInv, JoinsOK, StepKept, Abort
  PROVE  JoinsOK'
  <1>1. /\ UNCHANGED <<model, tokens, waiting>> /\ commands' = <<>>
    BY DEF Abort, environment, registers
  <1>2. Queued' = {}
    BY <1>1, NoneQueued DEF Queued
  <1>3. \A t \in waiting' : HasCome(t)'
    BY <1>1 DEF JoinsOK, HasCome, Sources, Node
  <1> QED
    BY <1>2, <1>3 DEF JoinsOK

LEMMA DepartedJoins ==
  ASSUME IInv, JoinsOK, StepKept, NEW t, HeadIs("advanceToDeparted", t), NEW f, AdvanceToDeparted(t, f)
  PROVE  JoinsOK'
  <1>1. t \notin waiting /\ commands # <<>>
    BY HeadMoves DEF Main, Moving, HeadIs
  <1>2. /\ \A u \in Live : u # t => tokens'[u] = tokens[u]
        /\ model' = model /\ waiting' = waiting
        /\ Enqueue(<<Command("advanceToArrived", t)>>)
    BY DEF AdvanceToDeparted, environment, registers, Live
  <1>3. Quiet(<<Command("advanceToArrived", t)>>)
    BY QuietOne DEF Command
  <1> QED
    BY <1>1, <1>2, <1>3, JoinsInPlace

LEMMA CompletedJoins ==
  ASSUME IInv, JoinsOK, StepKept, commands # <<>>, NEW t \in Live, Kind(t) \notin Gateways,
         AdvanceToCompleted(t, Tail(commands))
  PROVE  JoinsOK'
  <1>1. t \notin waiting
    BY NotAtGateway
  <1>2. CASE CompletedInfeasibly(t, Tail(commands))
    <2>1. /\ \A u \in Live : u # t => tokens'[u] = tokens[u]
          /\ model' = model /\ waiting' = waiting /\ Enqueue(Fails(t))
      BY <1>2 DEF CompletedInfeasibly, Set, Enqueue, environment, registers, Live
    <2>2. Quiet(Fails(t))
      BY QuietOne DEF Fails, Command
    <2> QED
      BY <1>1, <2>1, <2>2, JoinsInPlace
  <1>3. CASE CompletedFeasibly(t, Tail(commands)) /\ ~Dangling(t)
    <2> DEFINE onwards == CASE Kind(t) \in ActivityKinds -> {<<Command("advanceFromCompleted", t)>>}
                            [] Kind(t) = "process" -> {<<Command("advanceToDone", t)>>}
                            [] OTHER -> Departure(t)
    <2>1. /\ \A u \in Live : u # t => tokens'[u] = tokens[u]
          /\ model' = model /\ waiting' = waiting
          /\ \E onward \in onwards : commands' = Tail(commands) \o Consequence(t) \o onward
      BY <1>3 DEF CompletedFeasibly, environment, registers, Live
    <2>2. PICK onward \in onwards : commands' = Tail(commands) \o Consequence(t) \o onward
      BY <2>1
    <2>3. Quiet(onward)
      <3>1. CASE Kind(t) \in ActivityKinds
        <4>1. onward = <<Command("advanceFromCompleted", t)>>
          BY <3>1 DEF ActivityKinds
        <4> QED
          BY <4>1, QuietOne DEF Command
      <3>2. CASE Kind(t) = "process"
        <4>1. onward = <<Command("advanceToDone", t)>>
          BY <3>2 DEF ActivityKinds
        <4> QED
          BY <4>1, QuietOne DEF Command
      <3>3. CASE Kind(t) \notin ActivityKinds /\ Kind(t) # "process"
        <4>1. onward \in Departure(t)
          BY <3>3
        <4> QED
          BY <4>1, DepartureQuiet
      <3> QED
        BY <3>1, <3>2, <3>3
    <2> HIDE DEF onwards
    <2>4. Quiet(Consequence(t)) /\ Quiet(Consequence(t) \o onward)
      BY <2>3, ConsequenceQuiet, QuietBoth
    <2>5. PICK none : none = {}
      OBVIOUS
    <2>6. QueueStep(none, none, Consequence(t) \o onward)
      BY <2>2, <2>3, <2>4, <2>5, EnqueueBoth DEF Quiet
    <2>7. \A c \in Range(Consequence(t) \o onward) : ~ParallelMerge(c) /\ c.name # "shutdown"
      BY <2>4 DEF Quiet, ParallelMerge
    <2> QED
      BY <1>1, <2>1, <2>6, <2>7, JoinsUntouched
  <1>4. CASE CompletedFeasibly(t, Tail(commands)) /\ Dangling(t)
    <2>1. Abort
      BY <1>4 DEF CompletedFeasibly
    <2> QED
      BY <2>1, AbortJoins
  <1> QED
    BY <1>2, <1>3, <1>4 DEF AdvanceToCompleted

LEMMA CompleteJoins ==
  ASSUME IInv, JoinsOK, StepKept, NEW t, HeadIs("advanceToCompleted", t),
         AdvanceToCompleted(t, Tail(commands))
  PROVE  JoinsOK'
  <1>1. /\ t \in Live /\ commands # <<>>
        /\ Kind(t) \in CatchEvents \union ActivityKinds \union {"process"}
    BY HeadFits DEF HeadIs, CommandOK, TokenFits
  <1>2. Kind(t) \notin Gateways
    BY <1>1 DEF CatchEvents, Boundaries, ActivityKinds, Gateways
  <1> QED
    BY <1>1, <1>2, CompletedJoins

LEMMA FromCompletedJoins ==
  ASSUME IInv, JoinsOK, StepKept, NEW t, HeadIs("advanceFromCompleted", t), AdvanceFromCompleted(t)
  PROVE  JoinsOK'
  <1>1. t \in Live /\ t \notin waiting /\ commands # <<>>
    BY HeadMoves DEF Main, Moving, HeadIs
  <1>2. /\ \A u \in Live : u # t => tokens'[u] = tokens[u]
        /\ model' = model /\ waiting' = waiting
        /\ \E d \in Departure(t) :
             commands' = Purged(Tail(commands), {}, {t}) \o BoundaryRemoval(t) \o d
    BY DEF AdvanceFromCompleted, environment, registers, Live
  <1>3. PICK d \in Departure(t) :
          commands' = Purged(Tail(commands), {}, {t}) \o BoundaryRemoval(t) \o d
    BY <1>2
  <1>4. Quiet(BoundaryRemoval(t))
    <2>1. Quiet(<<With("deleteBoundary", tokens[t].owner, t)>>)
      BY QuietOne DEF With
    <2> QED
      BY <2>1, QuietNone DEF BoundaryRemoval
  <1>5. Quiet(d) /\ Quiet(BoundaryRemoval(t) \o d)
    BY <1>1, <1>4, DepartureQuiet, QuietBoth
  <1>6. QueueStep({}, {t}, BoundaryRemoval(t) \o d)
    BY <1>1, <1>3, <1>4, <1>5, EnqueueBoth DEF Quiet
  <1>7. \A c \in Range(BoundaryRemoval(t) \o d) : ~ParallelMerge(c) /\ c.name # "shutdown"
    BY <1>5 DEF Quiet, ParallelMerge
  <1> QED
    BY <1>1, <1>2, <1>6, <1>7, JoinsUntouched

LEMMA FailedJoins ==
  ASSUME IInv, JoinsOK, StepKept, NEW t, HeadIs("advanceToFailed", t), AdvanceToFailed(t)
  PROVE  JoinsOK'
  <1>1. t \in Live /\ Kind(t) \notin Gateways /\ commands # <<>>
    BY HeadFits DEF HeadIs, CommandOK, TokenFits
  <1>2. /\ \A u \in Live : u # t => tokens'[u] = tokens[u]
        /\ model' = model /\ waiting' = waiting
        /\ \/ Enqueue(<<Command("terminate", t)>>)
           \/ Enqueue(<<Command("handleFailure", t)>>)
    BY DEF AdvanceToFailed, Set, environment, registers, Live
  <1>3. Quiet(<<Command("terminate", t)>>) /\ Quiet(<<Command("handleFailure", t)>>)
    BY QuietOne DEF Command
  <1> QED
    BY <1>1, <1>2, <1>3, NotAtGateway, JoinsInPlace

LEMMA UpdateFailedJoins ==
  ASSUME IInv, JoinsOK, StepKept, NEW t, HeadIs("updateFailed", t), UpdateFailed(t)
  PROVE  JoinsOK'
  <1>1. Kind(t) \in Scopes /\ commands # <<>>
    BY HeadFits DEF HeadIs, CommandOK, TokenFits
  <1>2. /\ \A u \in Live : u # t => tokens'[u] = tokens[u]
        /\ model' = model /\ waiting' = waiting /\ Enqueue(<<>>)
    BY DEF UpdateFailed, Set, environment, registers, Live
  <1>3. t \notin waiting
    BY <1>1, NotAtGateway DEF Scopes, Gateways
  <1> QED
    BY <1>1, <1>2, <1>3, QuietNone, JoinsInPlace

LEMMA HandleFailureJoins ==
  ASSUME IInv, JoinsOK, StepKept, NEW t, HeadIs("handleFailure", t), HandleFailure(t)
  PROVE  JoinsOK'
  <1>1. commands # <<>>
    BY DEF HeadIs
  <1>2. ASSUME NEW b \in Attached(t), Kind(b) = "errorBoundary",
               AdvanceToCompleted(b, Tail(commands))
        PROVE  JoinsOK'
    <2>1. b \in Live /\ Kind(b) \notin Gateways
      BY <1>2 DEF Attached, Gateways
    <2> QED
      BY <1>1, <1>2, <2>1, CompletedJoins
  <1>3. ASSUME UNCHANGED <<environment, created, tokens, registers, aborted>>,
               NEW c, c.name \in {"deleteInstance", "advanceToFailed"}, Enqueue(<<c>>)
        PROVE  JoinsOK'
    <2>1. Quiet(<<c>>)
      BY <1>3, QuietOne
    <2> QED
      BY <1>1, <1>3, <2>1, NothingJoins DEF environment, registers
  <1>4. CASE /\ UNCHANGED <<environment, created, tokens, registers, aborted>>
             /\ Enqueue(<<Command("deleteInstance", t)>>)
    BY <1>3, <1>4 DEF Command
  <1>5. CASE /\ UNCHANGED <<environment, created, tokens, registers, aborted>>
             /\ Enqueue(<<Command("advanceToFailed", tokens[t].owner)>>)
    BY <1>3, <1>5 DEF Command
  <1> QED
    BY <1>2, <1>4, <1>5 DEF HandleFailure

-----------------------------------------------------------------------------
\* Tokens are withdrawn; the merges left are not of the scopes of those that wait.
LEMMA WithdrawnJoins ==
  ASSUME IInv, JoinsOK, StepKept, commands # <<>>, NEW gone, NEW shut, NEW q, Quiet(q), model' = model,
         waiting' = waiting \ gone, commands' = Purged(Tail(commands), gone, shut) \o q,
         \A u \in Live \ gone : tokens'[u] = tokens[u] \/ u \notin waiting,
         \A u \in waiting, c \in Left(gone, shut) :
           u \in gone /\ ParallelMerge(c) => c.for # tokens[u].owner \/ Emptied(c.for)'
  PROVE  JoinsOK'
  <1>1. QueueStep(gone, shut, q)
    BY LapseQuiet
  <1>2. \A c \in Range(q) : ~ParallelMerge(c) /\ c.name # "shutdown"
    BY DEF Quiet, ParallelMerge
  <1> QED
    BY <1>1, <1>2, JoinsTrimmed

\* A process terminated is left without tokens.
LEMMA ProcessEmptied ==
  ASSUME IInv, NEW t, HeadIs("terminate", t), Terminate(t), tokens[t].owned, Kind(t) = "process",
         NEW u \in Members(t)
  PROVE  Emptied(t)'
  <1>1. t \in Live /\ u \in Live /\ tokens[u].owner = t /\ tokens[u].owner < u
    BY HeadFits DEF HeadIs, CommandOK, IInv, Typed, TokenShaped, Members
  <1>2. PICK gone : gone = Within(Members(t))
    OBVIOUS
  <1>3. /\ tokens' = [Without(gone) EXCEPT ![t].owned = TRUE]
        /\ model' = model /\ created' = created
    BY <1>2 DEF Terminate, environment
  <1>4. Members(t) \subseteq gone /\ t \notin gone
    BY <1>1, <1>2, NotWithinItself, WithinScopes DEF Members
  <1>5. DOMAIN Without(gone) = Live \ gone /\ \A v \in Live \ gone : Without(gone)[v] = tokens[v]
    BY DEF Without
  <1>6. /\ Live' = Live \ gone /\ tokens'[t] = [tokens[t] EXCEPT !.owned = TRUE]
        /\ \A v \in Live \ gone : v # t => tokens'[v] = tokens[v]
    BY <1>1, <1>3, <1>4, <1>5 DEF Live
  <1>7. tokens'[t].node = tokens[t].node /\ tokens'[t].owner = tokens[t].owner
    BY <1>1, <1>6, TokenFacts DEF Records
  <1>8. Kind(t)' = "process"
    BY <1>3, <1>7 DEF Kind, Node
  <1>9. Members(t)' = {}
    BY <1>4, <1>6, <1>7 DEF Members
  <1>10. created' > 1
    <2>1. t \in 1..created /\ u \in 1..created /\ created \in Nat
      BY <1>1, FlowAssumption DEF IInv, Typed, Ids
    <2> QED
      BY <1>1, <1>3, <2>1
  <1> QED
    BY <1>8, <1>9, <1>10 DEF Emptied

LEMMA TerminatedJoins ==
  ASSUME IInv, JoinsOK, StepKept, NEW t, HeadIs("terminate", t), Terminate(t)
  PROVE  JoinsOK'
  <1>1. commands # <<>>
    BY DEF HeadIs
  <1>2. CASE ~tokens[t].owned
    BY <1>2, AbortJoins DEF Terminate
  <1>3. CASE tokens[t].owned
    <2>1. PICK gone : gone = Within(Members(t))
      OBVIOUS
    <2>2. PICK shut : shut = IF Kind(t) = "process" THEN gone ELSE {t} \union gone
      OBVIOUS
    <2> DEFINE a == Command("updateFailed", t)
               b == Command("handleFailure", t)
    <2>3. /\ tokens' = [Without(gone) EXCEPT ![t].owned = Kind(t) = "process"]
          /\ waiting' = waiting \ gone /\ model' = model
          /\ commands' = Purged(Tail(commands), gone, shut) \o <<a, b>>
      BY <1>3, <2>1, <2>2 DEF Terminate, environment
    <2>4. Quiet(<<a, b>>)
      <3>1. a.name = "updateFailed" /\ b.name = "handleFailure"
        BY DEF Command
      <3> HIDE DEF a, b
      <3>2. IsQueue(<<a, b>>) /\ Range(<<a, b>>) = {a, b}
        BY TwoQueued
      <3> QED
        BY <3>1, <3>2 DEF Quiet
    <2> HIDE DEF a, b
    <2>5. \A u \in Live \ gone : tokens'[u] = tokens[u] \/ u \notin waiting
      <3>1. t \notin waiting
        <4>1. Kind(t) \in Scopes
          BY <1>1, <1>3, HeadFits, TokenFacts DEF HeadIs, CommandOK, TokenShaped
        <4> QED
          BY <4>1, NotAtGateway DEF Scopes, Gateways
      <3>2. ASSUME NEW u \in Live \ gone, u # t PROVE tokens'[u] = tokens[u]
        <4>1. Without(gone)[u] = tokens[u] /\ u \in DOMAIN Without(gone)
          BY <3>2 DEF Without
        <4> QED
          BY <2>3, <3>2, <4>1
      <3> QED
        BY <3>1, <3>2
    <2>6. ASSUME NEW u \in waiting, NEW c \in Left(gone, shut), u \in gone, ParallelMerge(c)
          PROVE  c.for # tokens[u].owner \/ Emptied(c.for)'
      <3>1. c.for \notin shut
        BY <2>6 DEF Left, Stays, ByScope, ParallelMerge
      <3>2. u \in Members(t) \/ tokens[u].owner \in gone
        BY <2>1, <2>6, WithinScopes
      <3>3. CASE u \in Members(t) /\ Kind(t) = "process"
        <4>1. Emptied(t)'
          BY <1>1, <1>3, <2>1, <3>3, ProcessEmptied
        <4> QED
          BY <3>3, <4>1 DEF Members
      <3> QED
        BY <2>2, <3>1, <3>2, <3>3 DEF Members
    <2>7. PICK q : q = <<a, b>>
      OBVIOUS
    <2>8. Quiet(q) /\ commands' = Purged(Tail(commands), gone, shut) \o q
      BY <2>3, <2>4, <2>7, Zenon
    <2>9. waiting' = waiting \ gone /\ model' = model
      BY <2>3
    <2>10. QueueStep(gone, shut, q)
      BY <1>1, <2>8, LapseQuiet
    <2>11. \A c \in Range(q) : ~ParallelMerge(c) /\ c.name # "shutdown"
      BY <2>8 DEF Quiet, ParallelMerge
    <2> QED
      BY <2>5, <2>6, <2>9, <2>10, <2>11, JoinsTrimmed
  <1> QED
    BY <1>2, <1>3

LEMMA PlainlyWithdrawnJoins ==
  ASSUME IInv, JoinsOK, StepKept, commands # <<>>, NEW gone, tokens' = Without(gone), model' = model,
         Removing(gone, <<>>),
         \A u \in waiting : u \in gone => tokens[u].owner \in gone
  PROVE  JoinsOK'
  <1>1. /\ waiting' = waiting \ gone
        /\ commands' = Purged(Tail(commands), gone, gone) \o <<>>
        /\ \A u \in Live \ gone : tokens'[u] = tokens[u]
    BY DEF Removing, Without
  <1>2. \A u \in waiting, c \in Left(gone, gone) :
          u \in gone /\ ParallelMerge(c) => c.for # tokens[u].owner \/ Emptied(c.for)'
    BY DEF Left, Stays, ParallelMerge, ByScope
  <1> QED
    BY <1>1, <1>2, QuietNone, WithdrawnJoins

LEMMA InstanceDeletedJoins ==
  ASSUME IInv, JoinsOK, StepKept, NEW t, HeadIs("deleteInstance", t), DeleteInstance(t)
  PROVE  JoinsOK'
  <1>1. commands # <<>> /\ Kind(t) = "process"
    BY HeadFits DEF HeadIs, CommandOK, TokenFits
  <1>2. t \notin waiting
    BY <1>1, NotAtGateway DEF Gateways
  <1>3. PICK gone : gone = Within({t})
    OBVIOUS
  <1>4. \A u \in waiting : u \in gone => tokens[u].owner \in gone
    BY <1>2, <1>3, WithinScopes
  <1>5. tokens' = Without(gone) /\ model' = model /\ Removing(gone, <<>>)
    BY <1>3 DEF DeleteInstance, environment
  <1> QED
    BY <1>1, <1>4, <1>5, PlainlyWithdrawnJoins

LEMMA AttachedDoNotWait ==
  ASSUME IInv, NEW a, NEW b \in Attached(a)
  PROVE  b \notin waiting
  <1>1. Kind(b) \notin Gateways
    BY DEF Attached, Boundaries, Gateways
  <1> QED
    BY <1>1, NotAtGateway

LEMMA BoundaryDeletedJoins ==
  ASSUME IInv, JoinsOK, StepKept, commands # <<>>, NEW s, NEW a, DeleteBoundary(s, a)
  PROVE  JoinsOK'
  <1>1. CASE Abort
    BY <1>1, AbortJoins
  <1>2. CASE ~Abort
    <2>1. PICK gone : gone = Attached(a)
      OBVIOUS
    <2>2. \A u \in waiting : u \notin gone
      BY <2>1, AttachedDoNotWait
    <2>3. tokens' = Without(gone) /\ model' = model /\ Removing(gone, <<>>)
      BY <1>2, <2>1 DEF DeleteBoundary, environment
    <2> QED
      BY <2>2, <2>3, PlainlyWithdrawnJoins
  <1> QED
    BY <1>1, <1>2

LEMMA InterruptedJoins ==
  ASSUME IInv, JoinsOK, StepKept, commands # <<>>, NEW a, InterruptActivity(a)
  PROVE  JoinsOK'
  <1>1. CASE Kind(a) \notin ActivityKinds
    BY <1>1, AbortJoins DEF InterruptActivity
  <1>2. CASE Kind(a) \in ActivityKinds
    <2>1. PICK gone : gone = Within({a}) \union Attached(a)
      OBVIOUS
    <2>2. a \notin waiting
      BY <1>2, NotAtGateway DEF ActivityKinds, Gateways
    <2>3. ASSUME NEW u \in waiting, u \in gone PROVE tokens[u].owner \in gone
      <3>1. u \in Within({a})
        BY <2>1, <2>3, AttachedDoNotWait
      <3>2. tokens[u].owner \in Within({a})
        BY <2>2, <3>1, WithinScopes
      <3> QED
        BY <2>1, <3>2
    <2>4. tokens' = Without(gone) /\ model' = model /\ Removing(gone, <<>>)
      BY <1>2, <2>1 DEF InterruptActivity, environment
    <2> QED
      BY <2>3, <2>4, PlainlyWithdrawnJoins
  <1> QED
    BY <1>1, <1>2

LEMMA ShutdownJoins ==
  ASSUME IInv, JoinsOK, StepKept, NEW s, HeadIs("shutdown", s), Shutdown(s)
  PROVE  JoinsOK'
  <1>1. commands # <<>> /\ Head(commands) \in Queued
    BY HeadFits DEF HeadIs
  <1>2. CASE Members(s) = {}
    BY <1>2, AbortJoins DEF Shutdown
  <1>3. CASE Members(s) # {}
    <2>1. PICK gone : gone = Members(s)
      OBVIOUS
    <2> DEFINE q == <<Command("advanceToCompleted", s)>>
    <2>2. /\ tokens' = Without(gone) /\ waiting' = waiting \ gone /\ model' = model
          /\ commands' = Purged(Tail(commands), gone, gone) \o q
      BY <1>3, <2>1 DEF Shutdown, Removing, environment
    <2>3. Quiet(q)
      BY QuietOne DEF Command
    <2> HIDE DEF q
    <2>4. \A u \in Live \ gone : tokens'[u] = tokens[u] \/ u \notin waiting
      BY <2>2 DEF Without
    <2>5. ASSUME NEW u \in waiting, NEW c \in Left(gone, gone), u \in gone, ParallelMerge(c)
          PROVE  c.for # tokens[u].owner \/ Emptied(c.for)'
      <3>1. c \in Queued
        BY RestQueued DEF Left, IInv, Typed
      <3>2. c.for # s
        BY <1>1, <2>5, <3>1 DEF JoinsOK, JoinAlone, HeadIs
      <3> QED
        BY <2>1, <2>5, <3>2 DEF Members
    <2> QED
      BY <1>1, <2>2, <2>3, <2>4, <2>5, WithdrawnJoins
  <1> QED
    BY <1>2, <1>3

LEMMA AlternativesDoNotWait ==
  ASSUME IInv, NEW u \in Live, Alternative(u)
  PROVE  u \notin waiting
  <1>1. PICK g : g = tokens[u].link
    OBVIOUS
  <1>2. g \in Live /\ Kind(g) = "eventBased" /\ Node(u) \in {Node(g)} \union FlowsFrom(model, Node(g))
    BY <1>1 DEF IInv, AlternativesOK, AlternativePlaced, Rests
  <1>3. Node(g) \in Nodes /\ model \in Models
    BY <1>2, TokenFacts DEF IInv, Typed
  <1>4. \A k \in FlowsFrom(model, Node(g)) : model.kind[k] \in {"timerCatch", "signalCatch"}
    BY <1>2, <1>3, FlowAssumption DEF GatewaysFit, Nodes, Kind
  <1>5. Kind(u) \in {"eventBased", "timerCatch", "signalCatch"}
    BY <1>2, <1>4 DEF Kind
  <1> QED
    BY <1>5 DEF IInv, WaitingOK, Gateways

LEMMA GatewayActivatedJoins ==
  ASSUME IInv, JoinsOK, StepKept, NEW t, HeadIs("handleEventBasedGatewayActivation", t),
         HandleEventBasedGatewayActivation(t)
  PROVE  JoinsOK'
  <1>1. commands # <<>> /\ t \in Live /\ Kind(t) \notin Boundaries
    BY HeadFits DEF HeadIs, CommandOK, TokenFits
  <1>2. CASE tokens[t].link \notin Live
    BY <1>2, AbortJoins DEF HandleEventBasedGatewayActivation
  <1>3. CASE tokens[t].link \in Live
    <2>1. PICK gone : gone = Losers(t)
      OBVIOUS
    <2>2. tokens[t].link # None
      BY <1>3, FlowAssumption DEF IInv, Typed, Ids, None
    <2>3. Alternative(t)
      BY <1>1, <2>2 DEF Alternative
    <2>4. t \notin waiting /\ tokens[t].link \notin waiting
      <3>1. Kind(tokens[t].link) = "eventBased"
        BY <1>1, <2>3 DEF IInv, AlternativesOK, AlternativePlaced, Rests
      <3> QED
        BY <1>1, <2>3, <3>1, AlternativesDoNotWait DEF IInv, WaitingOK
    <2>5. ASSUME NEW u \in waiting PROVE u \notin gone
      <3>1. \A c \in Alternatives(tokens[t].link) : c \in Live /\ Alternative(c)
        BY <2>2 DEF Alternatives, Alternative
      <3> QED
        BY <2>1, <2>4, <3>1, AlternativesDoNotWait DEF Losers
    <2>6. /\ tokens' = [Without(gone) EXCEPT ![t].link = None] /\ model' = model
          /\ Removing(gone, <<>>)
      BY <1>3, <2>1 DEF HandleEventBasedGatewayActivation, environment
    <2>7. \A u \in Live \ gone : tokens'[u] = tokens[u] \/ u \notin waiting
      <3>1. \A u \in Live \ gone : u # t => tokens'[u] = Without(gone)[u]
        BY <2>6 DEF Without
      <3> QED
        BY <2>4, <3>1 DEF Without
    <2> QED
      BY <1>1, <2>5, <2>6, <2>7, QuietNone, WithdrawnJoins DEF Removing
  <1> QED
    BY <1>2, <1>3

-----------------------------------------------------------------------------
LEMMA DivergedJoins ==
  ASSUME IInv, JoinsOK, StepKept, NEW t, HeadIs("handleDivergingGateway", t), HandleDivergingGateway(t)
  PROVE  JoinsOK'
  <1>1. t \in Live /\ t \notin waiting /\ commands # <<>>
    BY HeadMoves DEF Main, Moving, HeadIs
  <1>2. PICK out \in Branches(t) :
          LET k == Len(out)
              copy == [tokens[t] EXCEPT !.link = IF Kind(t) = "eventBased" THEN t ELSE None,
                                        !.flow = <<>>]
              keep == IF Kind(t) = "eventBased" THEN {} ELSE {t}
          IN
          /\ created + k <= MaxTokens
          /\ tokens' = Added(Without(keep), [i \in 1..k |-> copy])
          /\ created' = created + k
          /\ commands' = Purged(Tail(commands), keep, {}) \o
                           [i \in 1..k |-> With("advanceToDeparted", NewId(i), <<Node(t), out[i]>>)]
          /\ UNCHANGED <<environment, registers, aborted>>
    BY DEF HandleDivergingGateway
  <1>3. PICK k, gone, copy :
          /\ k = Len(out) /\ gone = IF Kind(t) = "eventBased" THEN {} ELSE {t}
          /\ copy = [tokens[t] EXCEPT !.link = IF Kind(t) = "eventBased" THEN t ELSE None,
                                      !.flow = <<>>]
    OBVIOUS
  <1>4. PICK new, q :
          /\ new = [i \in 1..k |-> copy]
          /\ q = [i \in 1..k |-> With("advanceToDeparted", NewId(i), <<Node(t), out[i]>>)]
    OBVIOUS
  <1>5. /\ tokens' = Added(Without(gone), new) /\ model' = model /\ waiting' = waiting
        /\ commands' = Purged(Tail(commands), gone, {}) \o q
    BY <1>2, <1>3, <1>4 DEF environment, registers
  <1>6. k \in Nat
    BY <1>1, <1>3, BranchesFollowFlows
  <1>7. Quiet(q)
    <2>1. /\ DOMAIN q = 1..k /\ q = [i \in 1..k |-> q[i]]
          /\ \A i \in 1..k : q[i].name \notin {"createMergedToken", "shutdown"}
      BY <1>4 DEF With
    <2> QED
      BY <1>6, <2>1, FunctionQuiet
  <1>8. MadeFrom(gone, k, new)
    <2>1. DOMAIN new = 1..k /\ new = [i \in 1..k |-> new[i]]
      BY <1>4
    <2>2. Len(new) = k
      BY <1>6, <2>1, FunctionQueued
    <2> QED
      BY <1>1, <1>3, <1>5, <1>6, <2>2 DEF MadeFrom
  <1>9. QueueStep(gone, {}, q)
    BY <1>1, <1>5, <1>7, LapseQuiet
  <1>10. gone \subseteq Live /\ \A u \in waiting : u \notin gone
    BY <1>1, <1>3
  <1> QED
    BY <1>1, <1>5, <1>7, <1>8, <1>9, <1>10, CreatedJoins

LEMMA BroadcastJoins ==
  ASSUME IInv, JoinsOK, StepKept, commands # <<>>, BroadcastSignal
  PROVE  JoinsOK'
  <1>1. PICK q : q = [i \in DOMAIN listening |-> Command("advanceToCompleted", listening[i])]
    OBVIOUS
  <1>2. PICK k \in Nat : DOMAIN listening = 1..k
    BY DEF IInv, Typed, IsQueue
  <1>3. Quiet(q)
    <2>1. /\ DOMAIN q = 1..k /\ q = [i \in 1..k |-> q[i]]
          /\ \A i \in 1..k : q[i].name \notin {"createMergedToken", "shutdown"}
      BY <1>1, <1>2 DEF Command
    <2> QED
      BY <2>1, FunctionQuiet
  <1>4. Enqueue(q) /\ UNCHANGED <<model, tokens, waiting>>
    BY <1>1 DEF BroadcastSignal, environment
  <1> QED
    BY <1>3, <1>4, NothingJoins

\* A scope is shut down when its last token is done, and none of it waits.
LEMMA DoneJoins ==
  ASSUME IInv, JoinsOK, StepKept, NEW t, HeadIs("advanceToDone", t), AdvanceToDone(t)
  PROVE  JoinsOK'
  <1>1. t \in Live /\ t \notin waiting /\ commands # <<>>
    BY HeadMoves DEF Main, Moving, HeadIs
  <1>2. PICK s : s = tokens[t].owner
    OBVIOUS
  <1>3. /\ \A u \in Live : u # t => tokens'[u] = tokens[u]
        /\ model' = model /\ waiting' = waiting
    BY DEF AdvanceToDone, Set, environment, registers, Live
  <1>4. CASE Enqueue(<<>>)
    BY <1>1, <1>3, <1>4, QuietNone, JoinsInPlace
  <1>5. CASE Enqueue(<<Command("deleteInstance", t)>>)
    <2>1. Quiet(<<Command("deleteInstance", t)>>)
      BY QuietOne DEF Command
    <2> QED
      BY <1>1, <1>3, <1>5, <2>1, JoinsInPlace
  <1>6. CASE /\ \A u \in Members(s) \ {t} : State(u) = "DONE"
             /\ Enqueue(<<With("shutdown", s, None)>>)
    <2>1. PICK c : c = With("shutdown", s, None)
      OBVIOUS
    <2>2. c.name = "shutdown" /\ c.for = s /\ Enqueue(<<c>>)
      BY <1>6, <2>1 DEF With
    <2>3. PICK none : none = {}
      OBVIOUS
    <2>4. QueueStep(none, none, <<c>>) /\ Range(<<c>>) = {c}
      BY <1>1, <2>2, <2>3, EnqueueOne
    <2>5. ASSUME NEW d \in Left(none, none), ParallelMerge(d), d.for = s PROVE FALSE
      <3>1. d \in Queued
        BY RestQueued DEF Left, IInv, Typed
      <3>2. JoinReady(d)
        BY <1>1, <1>2, <2>5, <3>1 DEF JoinsOK, Emptied, Members
      <3>3. PICK u \in waiting : tokens[u].owner = s
        BY <2>5, <3>2 DEF JoinReady
      <3>4. u \in Members(s) \ {t} /\ State(u) = "WAITING"
        BY <1>1, <3>3, WaitingFacts DEF Members
      <3> QED
        BY <1>6, <3>4
    <2>6. NewJoins(none, none, <<c>>)
      BY <2>2, <2>4, <2>5 DEF NewJoins, ParallelMerge
    <2>7. /\ waiting \ none \subseteq waiting' /\ \A u \in waiting' : u \in waiting \ none
          /\ \A u \in waiting \ none : tokens'[u] = tokens[u]
      BY <1>1, <1>3, <2>3 DEF IInv, Typed
    <2>8. \A u \in waiting, d \in Left(none, none) :
            u \in none /\ ParallelMerge(d) /\ d.for = tokens[u].owner => d.arg # Node(u)
      BY <2>3
    <2> QED
      BY <1>3, <2>4, <2>6, <2>7, <2>8, JoinsStay
  <1> QED
    BY <1>2, <1>4, <1>5, <1>6 DEF AdvanceToDone

\* As many tokens as there are flows, no two of them on one, are on all of them.
LEMMA AllHaveCome ==
  ASSUME IInv, NEW n \in Nodes, NEW there, NEW f \in [there -> Sources(n)],
         \A u, v \in there : f[u] = f[v] => u = v,
         Cardinality(there) = Cardinality(Sources(n))
  PROVE  \A m \in Sources(n) : \E u \in there : f[u] = m
  <1>1. IsFiniteSet(Sources(n))
    <2>1. IsFiniteSet(Nodes)
      BY ModelFits DEF IsModel, Nodes
    <2> QED
      BY <2>1, FS_Subset DEF Sources, FlowsTo, Nodes
  <1>2. f \in Injection(there, Sources(n))
    BY DEF Injection, IsInjective
  <1>3. f \in Surjection(there, Sources(n))
    BY <1>1, <1>2, FS_Injection
  <1> QED
    BY <1>3 DEF Surjection

LEMMA ArrivedJoins ==
  ASSUME IInv, JoinsOK, StepKept, OneTokenPerFlow', NEW t, HeadIs("advanceToArrived", t), AdvanceToArrived(t)
  PROVE  JoinsOK'
  <1>1. t \in Live /\ TokenFits("advanceToArrived", t) /\ t \notin waiting /\ commands # <<>>
    BY HeadMoves DEF Main, Moving, HeadIs
  <1>2. PICK n, s : n = tokens[t].flow[2] /\ s = tokens[t].owner
    OBVIOUS
  <1>3. /\ tokens[t].flow = <<Node(t), n>> /\ Node(t) \in Sources(n) /\ n \in Nodes
    <2>1. PICK m \in Nodes : \E k \in FlowsFrom(model, m) : tokens[t].flow = <<m, k>>
      BY <1>1 DEF TokenFits, IsFlow
    <2>2. PICK k \in FlowsFrom(model, m) : tokens[t].flow = <<m, k>>
      BY <2>1
    <2>3. m = Node(t) /\ k = n
      BY <1>1, <1>2, <2>2 DEF TokenFits
    <2>4. n \in Nodes
      BY <2>2, <2>3, ModelFits DEF IsModel, FlowsFrom, Range, Nodes
    <2> QED
      BY <2>2, <2>3, <2>4 DEF Sources, FlowsTo, Nodes
  <1>4. model' = model /\ \A u \in Live : u # t => tokens'[u] = tokens[u]
    BY DEF AdvanceToArrived, environment, Live
  <1>5. CASE waiting' = waiting /\ Enqueue(<<>>)
    BY <1>1, <1>4, <1>5, QuietNone, JoinsInPlace
  <1>6. CASE waiting' = waiting /\ Enqueue(<<Command("advanceToEntered", t)>>)
    <2>1. Quiet(<<Command("advanceToEntered", t)>>)
      BY QuietOne DEF Command
    <2> QED
      BY <1>1, <1>4, <1>6, <2>1, JoinsInPlace
  <1>7. ASSUME Cardinality(Sources(n)) > 1, waiting' = waiting \union {t},
               tokens' = [tokens EXCEPT ![t].node = n, ![t].state = "WAITING",
                                        ![t].flow = tokens[t].flow],
               NEW new, Enqueue(new),
               \/ new = <<>>
               \/ /\ model.kind[n] = "parallel" /\ new = <<With("createMergedToken", s, n)>>
                  /\ JoinComplete({u \in waiting : tokens[u].owner = s /\ Node(u) = n} \union {t}, n)
        PROVE  JoinsOK'
    <2>1. PICK none : none = {}
      OBVIOUS
    <2>2. /\ Node(t)' = n /\ tokens'[t].flow = <<Node(t), n>> /\ tokens'[t].owner = s
      <3>1. tokens[t] \in Records
        BY <1>1, TokenFacts
      <3>2. PICK r : r = [tokens[t] EXCEPT !.node = n, !.state = "WAITING", !.flow = tokens[t].flow]
        OBVIOUS
      <3>3. tokens'[t] = r
        BY <1>1, <1>7, <3>2 DEF Live
      <3>4. r.node = n /\ r.flow = tokens[t].flow /\ r.owner = tokens[t].owner
        BY <3>1, <3>2 DEF Records
      <3> QED
        BY <1>2, <1>3, <3>3, <3>4 DEF Node
    <2>3. HasCome(t)'
      BY <1>3, <1>4, <2>2 DEF HasCome, Sources
    <2>4. /\ waiting \ none \subseteq waiting'
          /\ \A u \in waiting' : u \in waiting \ none \/ HasCome(u)'
          /\ \A u \in waiting \ none : u \in Live /\ u # t /\ tokens'[u] = tokens[u]
      BY <1>1, <1>4, <1>7, <2>1, <2>3 DEF IInv, Typed
    <2>5. \A u \in waiting, d \in Left(none, none) :
            u \in none /\ ParallelMerge(d) /\ d.for = tokens[u].owner => d.arg # Node(u)
      BY <2>1
    <2>6. CASE new = <<>>
      <3>1. QueueStep(none, none, new) /\ Range(new) = {}
        BY <1>1, <1>7, <2>1, <2>6, EnqueueNone
      <3>2. NewJoins(none, none, new)
        BY <3>1 DEF NewJoins
      <3> QED
        BY <1>4, <2>4, <2>5, <3>1, <3>2, JoinsStay
    <2>7. CASE /\ model.kind[n] = "parallel" /\ new = <<With("createMergedToken", s, n)>>
               /\ JoinComplete({u \in waiting : tokens[u].owner = s /\ Node(u) = n} \union {t}, n)
      <3>1. PICK c : c = With("createMergedToken", s, n)
        OBVIOUS
      <3>2. c.name = "createMergedToken" /\ c.for = s /\ c.arg = n /\ new = <<c>>
        BY <2>7, <3>1 DEF With
      <3>3. QueueStep(none, none, new) /\ Range(new) = {c}
        BY <1>1, <1>7, <2>1, <3>2, EnqueueOne
      <3>4. PICK there : there = {u \in waiting : tokens[u].owner = s /\ Node(u) = n} \union {t}
        OBVIOUS
      <3>5. \A u \in there : /\ u \in waiting' /\ Node(u)' = n /\ tokens'[u].owner = s /\ HasCome(u)'
                             /\ Kind(u)' = "parallel"
        <4>1. ASSUME NEW u \in there, u # t
              PROVE  /\ u \in waiting' /\ Node(u)' = n /\ tokens'[u].owner = s /\ HasCome(u)'
          <5>1. u \in waiting /\ tokens[u].owner = s /\ Node(u) = n /\ HasCome(u)
            BY <3>4, <4>1 DEF JoinsOK
          <5>2. tokens'[u] = tokens[u] /\ u \in waiting'
            BY <1>7, <2>1, <2>4, <5>1
          <5> QED
            BY <1>4, <5>1, <5>2 DEF HasCome, Node, Sources
        <4>2. \A u \in there : Node(u)' = n => Kind(u)' = "parallel"
          BY <1>4, <2>7 DEF Kind
        <4> QED
          BY <1>7, <2>2, <2>3, <4>1, <4>2
      <3>6. \A u \in there : \E m \in Sources(n) : tokens'[u].flow = <<m, n>>
        BY <1>4, <3>5 DEF HasCome, Sources
      <3>7. ASSUME NEW u \in there, NEW v \in waiting', tokens'[v].owner = s,
                   tokens'[u].flow = tokens'[v].flow
            PROVE  u = v
        BY <3>5, <3>7 DEF OneTokenPerFlow
      <3>8. PICK f : f = [u \in there |-> CHOOSE m \in Sources(n) : tokens'[u].flow = <<m, n>>]
        OBVIOUS
      <3>9. f \in [there -> Sources(n)] /\ \A u \in there : tokens'[u].flow = <<f[u], n>>
        BY <3>6, <3>8
      <3>10. \A u, v \in there : f[u] = f[v] => u = v
        BY <3>5, <3>7, <3>9
      <3>11. Cardinality(there) = Cardinality(Sources(n))
        BY <2>7, <3>4 DEF JoinComplete
      <3>12. \A m \in Sources(n) : \E u \in there : f[u] = m
        BY <1>3, <3>9, <3>10, <3>11, AllHaveCome
      <3>13. JoinReady(c)'
        <4>1. ASSUME NEW m \in Sources(n)
              PROVE  \E u \in waiting' : tokens'[u].owner = s /\ tokens'[u].flow = <<m, n>>
          BY <3>5, <3>9, <3>12
        <4> QED
          BY <1>3, <1>4, <3>2, <4>1 DEF JoinReady, Sources
      <3>14. ASSUME NEW d \in Left(none, none)
             PROVE  /\ ParallelMerge(d) => <<d.for, d.arg>> # <<c.for, c.arg>>
                    /\ d.name = "shutdown" => d.for # c.for
        <4>1. d \in Rest /\ d \in Queued
          BY RestQueued DEF Left, IInv, Typed
        <4>2. ASSUME ParallelMerge(d), d.for = s, d.arg = n PROVE FALSE
          <5> JoinReady(d)
            BY <1>1, <1>2, <4>1, <4>2 DEF JoinsOK, Emptied, Members
          <5>1. PICK u \in waiting : tokens[u].owner = s /\ tokens[u].flow = <<Node(t), n>>
            BY <1>3, <4>2 DEF JoinReady
          <5>2. /\ u \in waiting' /\ tokens'[u].owner = s
                /\ tokens'[u].flow = tokens'[t].flow /\ u # t
            BY <1>7, <2>1, <2>2, <2>4, <5>1
          <5> QED
            BY <3>4, <3>7, <5>2
        <4>3. d.name = "shutdown" => d.for # s
          <5>1. InOrder(Head(commands), d)
            BY <1>1, <4>1, HeadFits
          <5> QED
            BY <1>2, <5>1 DEF InOrder, HeadIs, Main, Moving
        <4> QED
          BY <3>2, <4>2, <4>3
      <3>15. NewJoins(none, none, new)
        BY <3>2, <3>3, <3>13, <3>14 DEF NewJoins
      <3> QED
        BY <1>4, <2>4, <2>5, <3>3, <3>15, JoinsStay
    <2> QED
      BY <1>7, <2>6, <2>7
  <1>8. CASE /\ Cardinality(Sources(n)) > 1
             /\ tokens' = [tokens EXCEPT ![t].node = n, ![t].state = "WAITING",
                                         ![t].flow = tokens[t].flow]
             /\ waiting' = waiting \union {t}
             /\ \/ Enqueue(<<>>)
                \/ /\ model.kind[n] = "parallel" /\ Enqueue(<<With("createMergedToken", s, n)>>)
                   /\ JoinComplete({u \in waiting : tokens[u].owner = s /\ Node(u) = n} \union {t}, n)
    BY <1>7, <1>8
  <1> QED
    BY <1>2, <1>5, <1>6, <1>8 DEF AdvanceToArrived

\* The tokens merged are awaited by no other merge.
LEMMA MergedJoins ==
  ASSUME IInv, JoinsOK, StepKept, NEW s, HeadIs("createMergedToken", s),
         CreateMergedToken(s, Head(commands).arg)
  PROVE  JoinsOK'
  <1>1. PICK n : n = Head(commands).arg
    OBVIOUS
  <1>2. PICK there, gone, first : Merging(s, n, there, gone, first)
    BY <1>1, MergeConsumes
  <1>3. there = {t \in waiting : tokens[t].owner = s /\ Node(t) = n} /\ gone \subseteq there
    BY <1>2 DEF Merging
  <1>5. /\ commands # <<>> /\ Head(commands) \in Queued
        /\ Head(commands).name = "createMergedToken" /\ Head(commands).for = s
    BY HeadFits DEF HeadIs
  <1>6. ASSUME NEW d \in Rest, ParallelMerge(d), d.for = s PROVE d.arg # n
    <2> SUFFICES ASSUME d.arg = n PROVE FALSE
      OBVIOUS
    <2>1. ParallelMerge(Head(commands)) /\ Ahead(Head(commands), d) /\ d \in Queued
      BY <1>1, <1>5, <1>6, RestQueued DEF ParallelMerge, IInv, Typed
    <2>2. JoinAlone(Head(commands))
      BY <1>5, <2>1 DEF JoinsOK
    <2> QED
      BY <1>1, <1>5, <1>6, <2>1, <2>2 DEF JoinAlone
  <1>7. gone \subseteq waiting /\ gone \subseteq Live
        /\ \A u \in gone : tokens[u].owner = s /\ Node(u) = n
    BY <1>3 DEF IInv, Typed
  <1>8. CASE there = {}
    <2>1. Abort
      BY <1>2, <1>8 DEF Merging
    <2> QED
      BY <2>1, AbortJoins
  <1>9. ASSUME model' = model, waiting' = waiting \ gone,
               \A u \in waiting \ gone : tokens'[u] = tokens[u],
               NEW lapsed, NEW c, c.name = "advanceToEntered", QueueStep(lapsed, lapsed, <<c>>)
        PROVE  JoinsOK'
    <2>1. Range(<<c>>) = {c}
      BY OneQueued
    <2>2. NewJoins(lapsed, lapsed, <<c>>)
      BY <1>9, <2>1 DEF NewJoins, ParallelMerge
    <2>3. \A u \in waiting, d \in Left(lapsed, lapsed) :
            u \in gone /\ ParallelMerge(d) /\ d.for = tokens[u].owner => d.arg # Node(u)
      BY <1>6, <1>7 DEF Left
    <2>4. waiting \ gone \subseteq waiting' /\ \A u \in waiting' : u \in waiting \ gone
      BY <1>9
    <2> QED
      BY <1>9, <2>2, <2>3, <2>4, JoinsStay
  <1>10. CASE there # {} /\ gone = {first}
    <2>1. PICK c : c = Command("advanceToEntered", first)
      OBVIOUS
    <2>2. /\ tokens' = [tokens EXCEPT ![first].flow = <<>>] /\ model' = model
          /\ waiting' = waiting \ gone /\ Enqueue(<<c>>)
      BY <1>2, <1>10, <2>1 DEF Merging, environment
    <2>3. c.name = "advanceToEntered"
      BY <2>1 DEF Command
    <2>4. \A u \in waiting \ gone : tokens'[u] = tokens[u]
      BY <1>10, <2>2 DEF IInv, Typed, Live
    <2>5. PICK none : none = {}
      OBVIOUS
    <2>6. QueueStep(none, none, <<c>>)
      BY <1>5, <2>2, <2>5, EnqueueOne
    <2> QED
      BY <1>9, <2>2, <2>3, <2>4, <2>6
  <1>11. CASE there # {} /\ gone # {first}
    <2>1. PICK c, new : /\ c = Command("advanceToEntered", NewId(1))
                        /\ new = <<Token(n, "WAITING", s, None)>>
      OBVIOUS
    <2>2. /\ tokens' = Added(Without(gone), new) /\ model' = model
          /\ Removing(gone, <<c>>)
      BY <1>2, <1>11, <2>1 DEF Merging, environment
    <2>3. c.name = "advanceToEntered"
      BY <2>1 DEF Command
    <2>4. MadeFrom(gone, 1, new)
      BY <1>7, <2>1, <2>2 DEF MadeFrom
    <2>5. \A u \in waiting \ gone : tokens'[u] = tokens[u]
      BY <2>4, AddedTokens DEF IInv, Typed
    <2>6. QueueStep(gone, gone, <<c>>)
      BY <1>5, <2>2, OneQueued, RemovalQueued DEF Removing
    <2>7. waiting' = waiting \ gone
      BY <2>2 DEF Removing
    <2> QED
      BY <1>9, <2>2, <2>3, <2>5, <2>6, <2>7
  <1> QED
    BY <1>8, <1>10, <1>11

-----------------------------------------------------------------------------
\* The first commands come: no parallel gateway is activated by them.
LEMMA BegunJoins ==
  ASSUME IInv, JoinsOK, StepKept, commands = <<>>, model' = model, waiting' = waiting,
         NEW t, t \notin waiting, \A u \in Live : u # t => tokens'[u] = tokens[u],
         NEW q, commands' = q, \A c \in Range(q) : ~ParallelMerge(c) /\ c.name # "shutdown"
  PROVE  JoinsOK'
  <1>1. IsQueue(q)
    BY DEF StepKept, IInv, Typed
  <1>2. PICK none : none = {}
    OBVIOUS
  <1>3. QueueStep(none, none, q)
    BY <1>1, <1>2, CommandsBegin
  <1> QED
    BY <1>3, JoinsUntouched

LEMMA ChosenJoins ==
  ASSUME IInv, JoinsOK, StepKept, commands = <<>>, model' = model, waiting' = waiting,
         NEW t, t \notin waiting, \A u \in Live : u # t => tokens'[u] = tokens[u],
         NEW c, commands' = <<c>>, c.name \notin {"createMergedToken", "shutdown"}
  PROVE  JoinsOK'
  <1>1. \A d \in Range(<<c>>) : ~ParallelMerge(d) /\ d.name # "shutdown"
    BY OneQueued DEF ParallelMerge
  <1>2. PICK q : q = <<c>>
    OBVIOUS
  <1> QED
    BY <1>1, <1>2, BegunJoins

LEMMA EventJoins ==
  ASSUME IInv, JoinsOK, StepKept, Activate \/ Decision \/ (\E t \in Live : ErrorEvent(t))
                                \/ SignalBroadcastEvent \/ ClockTickEvent
  PROVE  JoinsOK'
  <1>1. None \notin waiting
    BY DEF IInv, Typed, None
  <1>2. PICK q : q = commands'
    OBVIOUS
  <1>3. CASE Activate
    <2>1. /\ commands = <<>> /\ UNCHANGED <<model, tokens, waiting>>
          /\ q \in Orderings(Activations)
      BY <1>2, <1>3 DEF Activate, environment, registers
    <2>2. Range(q) \subseteq Activations
      BY <2>1 DEF Orderings, Range
    <2>3. ASSUME NEW c \in Activations PROVE ~ParallelMerge(c) /\ c.name # "shutdown"
      <3>1. PICK w \in waiting : /\ Activatable(tokens[w].owner, Node(w))
                                 /\ c = With("createMergedToken", tokens[w].owner, Node(w))
        BY DEF Activations
      <3> QED
        BY <3>1 DEF Activatable, With, ParallelMerge
    <2> QED
      BY <1>1, <1>2, <2>1, <2>2, <2>3, BegunJoins
  <1>4. CASE ClockTickEvent
    <2>1. PICK S, due : /\ S = {Command("advanceToCompleted", t) : t \in due}
                        /\ due = {t \in Live : /\ Kind(t) \in Timers /\ State(t) = "BUSY"
                                               /\ trigger[Node(t)] <= now + 1}
      OBVIOUS
    <2>2. /\ commands = <<>> /\ UNCHANGED <<model, tokens, waiting>> /\ q \in Orderings(S)
      BY <1>2, <1>4, <2>1 DEF ClockTickEvent, Settled, registers
    <2>3. Range(q) \subseteq S
      BY <2>2 DEF Orderings, Range
    <2>4. ASSUME NEW c \in S PROVE ~ParallelMerge(c) /\ c.name # "shutdown"
      BY <2>1 DEF Command, ParallelMerge
    <2> QED
      BY <1>1, <1>2, <2>2, <2>3, <2>4, BegunJoins
  <1>5. CASE SignalBroadcastEvent
    <2>1. /\ commands = <<>> /\ UNCHANGED <<model, tokens, waiting>>
          /\ commands' = <<Broadcast>>
      BY <1>5 DEF SignalBroadcastEvent, Settled, registers
    <2>2. Broadcast.name = "broadcastSignal"
      BY DEF Broadcast, Command
    <2> QED
      BY <1>1, <2>1, <2>2, ChosenJoins
  <1>6. ASSUME NEW t \in Live, ReadyEvent(t) PROVE JoinsOK'
    <2>1. /\ commands = <<>> /\ model' = model /\ waiting' = waiting
          /\ Kind(t) \in ActivityKinds /\ \A u \in Live : u # t => tokens'[u] = tokens[u]
          /\ commands' = <<Command("advanceToReady", t)>>
      BY <1>6 DEF ReadyEvent, Settled, environment, registers, Live
    <2>2. t \notin waiting
      BY <2>1, NotAtGateway DEF ActivityKinds, Gateways
    <2>3. Command("advanceToReady", t).name = "advanceToReady"
      BY DEF Command
    <2> QED
      BY <2>1, <2>2, <2>3, ChosenJoins
  <1>7. ASSUME NEW t \in Live, NEW name \in {"advanceToEntered", "advanceToCompleted", "advanceToFailed"},
               commands = <<>>, UNCHANGED <<environment, created, tokens, registers, aborted>>,
               commands' = <<Command(name, t)>>
        PROVE  JoinsOK'
    <2>1. UNCHANGED <<model, tokens, waiting>>
      BY <1>7 DEF environment, registers
    <2>2. Command(name, t).name = name
      BY DEF Command
    <2> QED
      BY <1>1, <1>7, <2>1, <2>2, ChosenJoins
  <1>8. ASSUME NEW t \in Live, EntryEvent(t) PROVE JoinsOK'
    BY <1>7, <1>8 DEF EntryEvent, Settled
  <1>9. ASSUME NEW t \in Live, CompletionEvent(t) PROVE JoinsOK'
    BY <1>7, <1>9 DEF CompletionEvent, Settled
  <1>10. ASSUME NEW t \in Live, ErrorEvent(t) PROVE JoinsOK'
    BY <1>7, <1>10 DEF ErrorEvent, Settled, Fails
  <1> QED
    BY <1>3, <1>4, <1>5, <1>6, <1>8, <1>9, <1>10 DEF Decision

\* The command at the head of the queue is executed.
LEMMA ExecuteJoins ==
  ASSUME IInv, JoinsOK, StepKept, OneTokenPerFlow', Execute
  PROVE  JoinsOK'
  <1>1. PICK t, name : t = Head(commands).for /\ name = Head(commands).name
    OBVIOUS
  <1>2. commands # <<>> /\ HeadIs(name, t)
    BY <1>1 DEF Execute, HeadIs
  <1>3. CASE name = "advanceToReady" /\ AdvanceToReady(t)
    BY <1>2, <1>3, ReadyJoins
  <1>4. CASE name = "advanceToEntered" /\ AdvanceToEntered(t)
    BY <1>2, <1>4, EnteredJoins
  <1>5. CASE name = "advanceToBusy" /\ AdvanceToBusy(t)
    BY <1>2, <1>5, BusyJoins
  <1>6. CASE name = "run" /\ Run(t)
    BY <1>2, <1>6, RunJoins
  <1>7. CASE name = "advanceToCompleted" /\ AdvanceToCompleted(t, Tail(commands))
    BY <1>2, <1>7, CompleteJoins
  <1>8. CASE name = "advanceFromCompleted" /\ AdvanceFromCompleted(t)
    BY <1>2, <1>8, FromCompletedJoins
  <1>9. CASE name = "advanceToDone" /\ AdvanceToDone(t)
    BY <1>2, <1>9, DoneJoins
  <1>10. CASE name = "advanceToDeparted" /\ AdvanceToDeparted(t, Head(commands).arg)
    BY <1>2, <1>10, DepartedJoins
  <1>11. CASE name = "advanceToArrived" /\ AdvanceToArrived(t)
    BY <1>2, <1>11, ArrivedJoins
  <1>12. CASE name = "advanceToFailed" /\ AdvanceToFailed(t)
    BY <1>2, <1>12, FailedJoins
  <1>13. CASE name = "terminate" /\ Terminate(t)
    BY <1>2, <1>13, TerminatedJoins
  <1>14. CASE name = "updateFailed" /\ UpdateFailed(t)
    BY <1>2, <1>14, UpdateFailedJoins
  <1>15. CASE name = "handleFailure" /\ HandleFailure(t)
    BY <1>2, <1>15, HandleFailureJoins
  <1>16. CASE name = "deleteInstance" /\ DeleteInstance(t)
    BY <1>2, <1>16, InstanceDeletedJoins
  <1>17. CASE name = "shutdown" /\ Shutdown(t)
    BY <1>2, <1>17, ShutdownJoins
  <1>18. CASE name = "initiateBoundaryEvents" /\ InitiateBoundaryEvents(t)
    BY <1>2, <1>18, InitiateAllJoins
  <1>19. CASE name = "initiateBoundaryEvent" /\ InitiateBoundaryEvent(t, Head(commands).arg)
    BY <1>2, <1>19, InitiateJoins
  <1>20. CASE name = "deleteBoundary" /\ DeleteBoundary(t, Head(commands).arg)
    BY <1>2, <1>20, BoundaryDeletedJoins
  <1>21. CASE name = "interruptActivity" /\ InterruptActivity(t)
    BY <1>2, <1>21, InterruptedJoins
  <1>22. CASE name = "handleDivergingGateway" /\ HandleDivergingGateway(t)
    BY <1>2, <1>22, DivergedJoins
  <1>23. CASE name = "handleEventBasedGatewayActivation" /\ HandleEventBasedGatewayActivation(t)
    BY <1>2, <1>23, GatewayActivatedJoins
  <1>24. CASE name = "createMergedToken" /\ CreateMergedToken(t, Head(commands).arg)
    BY <1>2, <1>24, MergedJoins
  <1>25. CASE name = "broadcastSignal" /\ BroadcastSignal
    BY <1>2, <1>25, BroadcastJoins
  <1>26. CASE name = "advanceToDeparting" /\ AdvanceToDeparting(t)
    BY <1>2, <1>26, DepartingJoins
  <1> QED
    BY <1>1, <1>3, <1>4, <1>5, <1>6, <1>7, <1>8, <1>9, <1>10, <1>11, <1>12, <1>13, <1>14, <1>15,
       <1>16, <1>17, <1>18, <1>19, <1>20, <1>21, <1>22, <1>23, <1>24, <1>25, <1>26 DEF Execute

LEMMA StutterJoins ==
  ASSUME JoinsOK, UNCHANGED vars
  PROVE  JoinsOK'
  <1>1. commands' = commands /\ model' = model /\ tokens' = tokens /\ waiting' = waiting
    BY DEF vars
  <1>2. Queued' = Queued /\ \A t : HasCome(t)' <=> HasCome(t)
    BY <1>1 DEF Queued, HasCome, Node, Sources
  <1>3. \A c : /\ ParallelMerge(c)' <=> ParallelMerge(c)
               /\ JoinReady(c) => JoinReady(c)'
               /\ Emptied(c.for) => Emptied(c.for)'
    BY <1>1 DEF ParallelMerge, JoinReady, Sources, Emptied, Kind, Node, Members, Live, vars
  <1>4. \A c : JoinAlone(c) => JoinAlone(c)'
    BY <1>1, <1>2, <1>3 DEF JoinAlone, Ahead
  <1> QED
    BY <1>1, <1>2, <1>3, <1>4 DEF JoinsOK

\* A parallel gateway releases a token only when one has come along each of its
\* incoming sequence flows, as long as no two tokens of a scope wait on the same
\* flow: that the code counts the tokens (attemptGatewayActivation) goes wrong in
\* this case only.  Whatever is executed between the activation and the merge,
\* the tokens activating it are there still, unless the process is terminated.
THEOREM ParallelGatewaysSynchronise == Spec /\ []OneTokenPerFlow => []JoinsSynchronise
  <1>1. Init => JoinsOK
    <2> SUFFICES ASSUME Init PROVE JoinsOK
      OBVIOUS
    <2>1. PICK c : c = Command("advanceToEntered", 1)
      OBVIOUS
    <2>2. waiting = {} /\ Queued = {c} /\ c.name = "advanceToEntered"
      BY <2>1, OneQueued DEF Init, Queued, Command
    <2> QED
      BY <2>2 DEF JoinsOK, ParallelMerge
  <1>2. IInv /\ JoinsOK /\ OneTokenPerFlow' /\ [Next]_vars => JoinsOK'
    BY StepsKeep, ExecuteJoins, EventJoins, StutterJoins DEF Next, StepKept
  <1>3. IInv /\ JoinsOK => JoinsSynchronise
    <2> SUFFICES ASSUME IInv, JoinsOK, NEW s \in Live, NEW g \in Nodes, Merges(s, g, "parallel"),
                        Members(s) # {}
        PROVE  \A n \in Sources(g) :
                 \E t \in waiting : tokens[t].owner = s /\ tokens[t].flow = <<n, g>>
      BY DEF JoinsSynchronise
    <2>1. PICK c : c = Head(commands)
      OBVIOUS
    <2>2. c \in Queued
      BY <2>1, RestQueued DEF Merges, IInv, Typed
    <2>3. c.name = "createMergedToken" /\ c.for = s /\ c.arg = g
      BY <2>1 DEF Merges, With
    <2>4. JoinReady(c)
      BY <2>2, <2>3 DEF JoinsOK, ParallelMerge, Merges, Emptied
    <2> QED
      BY <2>3, <2>4 DEF JoinReady
  <1> QED
    BY <1>1, <1>2, <1>3, InvariantHolds, PTL DEF Spec

=============================================================================
