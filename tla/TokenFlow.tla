------------------------------ MODULE TokenFlow ------------------------------
(***************************************************************************)
(* The flow of the tokens of a process instance through sequence flows,    *)
(* gateways, activities with boundary events, catch and throw events and   *)
(* nested subprocesses.                                                    *)
(*                                                                         *)
(* Engine, StateMachine and Token advance by commands.  An event processed *)
(* enqueues commands, each command executed may enqueue others behind what *)
(* is queued, and the next event comes when none is left.  One action      *)
(* executes one command: what two tokens do in the same round interleaves  *)
(* command by command.  A command whose token or state machine is gone is  *)
(* skipped; here it is taken off the queue when they go.                   *)
(*                                                                         *)
(* A state machine is named by the token owning it.  Conditions and        *)
(* restrictions are left open: they may or may not be satisfied.           *)
(***************************************************************************)
EXTENDS Integers, Sequences, FiniteSets, Functions, CommandQueue

CONSTANTS
  Models,       \* the process models
  MaxTokens,    \* bound on the tokens created
  MaxTime,      \* bound on the clock
  MaxSignals    \* bound on the signals broadcast by the environment

None == 0
Ids == 1..MaxTokens

Scopes == {"process", "subprocess"}
ActivityKinds == {"task", "subprocess"}
Timers == {"timerCatch", "timerBoundary"}
Signals == {"signalCatch", "signalBoundary"}
Boundaries == {"timerBoundary", "signalBoundary", "errorBoundary"}
CatchEvents == Boundaries \union {"start", "timerCatch", "signalCatch"}
Throws == {"end", "signalThrow", "errorEnd"}
Gateways == {"exclusive", "parallel", "inclusive", "eventBased"}

States == {"CREATED", "READY", "ENTERED", "BUSY", "COMPLETED", "DEPARTED",
           "ARRIVED", "WAITING", "DONE", "FAILED", "FAILING"}

Kinds == Scopes \union ActivityKinds \union CatchEvents \union Throws \union Gateways

\* A model gives every node its kind, the node of its scope and the targets of
\* its outgoing sequence flows; every activity its boundary events; and the
\* nodes with an interrupting event, and with restrictions that may be violated.
FlowsFrom(m, n) == Range(m.out[n])
FlowsTo(m, n) == {k \in DOMAIN m.kind : n \in FlowsFrom(m, k)}

IsModel(m) ==
  LET nodes == DOMAIN m.kind IN
  /\ IsFiniteSet(nodes) /\ DOMAIN m.scope = nodes /\ DOMAIN m.out = nodes
  /\ DOMAIN m.boundary \subseteq nodes
  /\ m.interrupting \subseteq nodes /\ m.restricted \subseteq nodes
  /\ \A n \in nodes : m.kind[n] \in Kinds /\ m.out[n] \in Seq(nodes)
  /\ \E n \in nodes : m.kind[n] = "process"

\* Every scope has a start event.  Boundary events are those of activities,
\* each listed once; an error interrupts.  No sequence flow leads to a boundary
\* event or a process.
ScopesStart(m) ==
  \A n \in DOMAIN m.kind : m.kind[n] \in Scopes =>
    \E s \in DOMAIN m.kind : m.kind[s] = "start" /\ m.scope[s] = n
BoundariesFit(m) ==
  /\ \A n \in DOMAIN m.boundary :
       /\ m.kind[n] \in ActivityKinds
       /\ m.boundary[n] \in Seq({b \in DOMAIN m.kind : m.kind[b] \in Boundaries})
       /\ \A i, j \in DOMAIN m.boundary[n] : m.boundary[n][i] = m.boundary[n][j] => i = j
  /\ \A b \in DOMAIN m.kind : m.kind[b] = "errorBoundary" => b \in m.interrupting
  /\ \A n \in DOMAIN m.kind : \A k \in FlowsFrom(m, n) :
       m.kind[k] \notin Boundaries \union {"process"}

\* Only gateways split and join (Token.cpp:1072 and 1126).  An event-based
\* gateway is followed by catch events, each of them by that gateway only.
GatewaysFit(m) ==
  /\ \A n \in DOMAIN m.kind : Len(m.out[n]) > 1 => m.kind[n] \in Gateways
  /\ \A n \in DOMAIN m.kind :
       Cardinality(FlowsTo(m, n)) > 1 => m.kind[n] \in Gateways \ {"eventBased"}
  /\ \A n \in DOMAIN m.kind : m.kind[n] = "eventBased" =>
       \A k \in FlowsFrom(m, n) :
         m.kind[k] \in {"timerCatch", "signalCatch"} /\ FlowsTo(m, k) = {n}

\* Models are acyclic: among any nodes are some that no other one leads to, and
\* some that lead to no other one.
Acyclic(m) ==
  \A S \in (SUBSET DOMAIN m.kind) \ {{}} :
    /\ \E n \in S : FlowsTo(m, n) \intersect S = {}
    /\ \E n \in S : FlowsFrom(m, n) \intersect S = {}

ASSUME FlowAssumption ==
  /\ MaxTokens \in Nat \ {0} /\ MaxTime \in Nat /\ MaxSignals \in Nat
  /\ \A m \in Models :
       IsModel(m) /\ ScopesStart(m) /\ BoundariesFit(m) /\ GatewaysFit(m) /\ Acyclic(m)

VARIABLES
  model,      \* the process model, fixed for the run
  trigger,    \* when the timers of the model trigger
  now,        \* SystemState::currentTime
  signals,    \* signals the environment has broadcast
  created,    \* number of tokens created so far, which gives each its identity
  tokens,     \* the tokens that exist
  listening,  \* tokensAwaitingSignal
  waiting,    \* tokens in tokensAwaitingGatewayActivation
  commands,   \* Engine::commands
  aborted     \* an assertion of the code has failed

registers == <<listening, waiting>>
environment == <<model, trigger, now, signals>>
vars == <<model, trigger, now, signals, created, tokens, listening, waiting,
          commands, aborted>>

-----------------------------------------------------------------------------
Nodes == DOMAIN model.kind
Outgoing(n) == model.out[n]
Sources(n) == FlowsTo(model, n)
BoundaryEvents(n) == IF n \in DOMAIN model.boundary THEN model.boundary[n] ELSE <<>>
TimerNodes(m) == {n \in DOMAIN m.kind : m.kind[n] \in Timers}

Live == DOMAIN tokens
Node(t) == tokens[t].node
Kind(t) == model.kind[Node(t)]
State(t) == tokens[t].state
Members(s) == {t \in Live : tokens[t].owner = s}

\* tokensAwaitingBoundaryEvent of the token at an activity.
Attached(a) == {b \in Live : tokens[b].link = a /\ Kind(b) \in Boundaries}

\* tokensAwaitingEvent of the token at an event-based gateway.
Alternatives(g) == {c \in Live : tokens[c].link = g /\ Kind(c) \notin Boundaries}

\* A token with the tokens at the scopes around it.
Lineage(t) ==
  LET up[u \in Live] ==
        {u} \union (IF tokens[u].owner \in Live THEN up[tokens[u].owner] ELSE {})
  IN up[t]

\* Mutant of Within: the tokens in the scopes of inner scopes are left.
WithinDirectly(S) == S \union {t \in Live : tokens[t].owner \in S}

\* The tokens of a set with those in the scopes they own.
Within(S) == {t \in Live : Lineage(t) \intersect S # {}}

\* A command is given the token it is for; those in ByScope the token owning
\* the state machine, and what it is to handle.
Command(name, t) == [name |-> name, for |-> t, arg |-> None]
With(name, t, arg) == [name |-> name, for |-> t, arg |-> arg]
ByScope == {"run", "createMergedToken", "shutdown", "deleteBoundary"}
Broadcast == Command("broadcastSignal", None)

\* The sequences holding every element of a set once.
Orderings(S) ==
  {q \in [1..Cardinality(S) -> S] :
     /\ \A e \in S : \E k \in DOMAIN q : q[k] = e
     /\ \A j, k \in DOMAIN q : q[j] = q[k] => j = k}

\* The commands left for the tokens and the state machines that remain.
Purged(q, gone, shut) ==
  Kept(q, {i \in DOMAIN q : /\ q[i].for \notin gone
                            /\ ~(q[i].name \in ByScope /\ q[i].for \in shut)})

Token(node, state, owner, link) ==
  [node |-> node, state |-> state, owner |-> owner, link |-> link,
   flow |-> <<>>, owned |-> FALSE]

\* The tokens with some of them removed, and a sequence of them added.
Without(gone) == [t \in Live \ gone |-> tokens[t]]
Added(have, new) ==
  [t \in DOMAIN have \union (created + 1)..(created + Len(new)) |->
     IF t \in DOMAIN have THEN have[t] ELSE new[t - created]]
NewId(i) == created + i

\* The tokens listening, without those removed.
StillListening(gone) ==
  Kept(listening, {i \in DOMAIN listening : listening[i] \notin gone})

\* Mutant of Removing: a token removed is still held to await its signal.
RemovingUnnoticed(gone, cmds) ==
  /\ waiting' = waiting \ gone
  /\ commands' = Purged(Tail(commands), gone, gone) \o cmds
  /\ UNCHANGED listening

\* Tokens are removed: they leave every register, and their commands lapse.
Removing(gone, cmds) ==
  /\ listening' = StillListening(gone)
  /\ waiting' = waiting \ gone
  /\ commands' = Purged(Tail(commands), gone, gone) \o cmds

Set(t, state) == tokens' = [tokens EXCEPT ![t].state = state]
Enqueue(cmds) == commands' = Tail(commands) \o cmds
Fails(t) == <<Command("advanceToFailed", t)>>

\* An assertion of the code does not hold.
Abort ==
  /\ aborted' = TRUE
  /\ commands' = <<>>
  /\ UNCHANGED <<environment, created, tokens, registers>>

-----------------------------------------------------------------------------
\* advanceToDeparting, or advanceToDone without an outgoing sequence flow: the
\* commands that may be enqueued, an exclusive gateway choosing a flow.
Departure(t) ==
  LET n == Node(t)
      out == Outgoing(n) IN
  IF out = <<>> THEN {<<Command("advanceToDone", t)>>}
  ELSE IF Len(out) = 1 \/ Kind(t) = "exclusive"
  THEN {<<With("advanceToDeparted", t, <<n, target>>)>> : target \in Range(out)}
  ELSE {<<Command("handleDivergingGateway", t)>>}

AdvanceToReady(t) ==
  /\ Set(t, "READY")
  /\ Enqueue(<<>>)
  /\ UNCHANGED <<environment, created, registers, aborted>>

\* What entering a node enqueues.
EntryCommands(t) ==
  LET busy == <<Command("advanceToBusy", t)>>
      boundary == IF BoundaryEvents(Node(t)) = <<>> THEN <<>>
                  ELSE <<Command("initiateBoundaryEvents", t)>>
  IN
  CASE Kind(t) \in ActivityKinds ->
         {boundary \o busy} \union
           (IF Kind(t) = "task" /\ Node(t) \in model.restricted
            THEN {boundary \o Fails(t)} ELSE {})
    [] Kind(t) \in CatchEvents \union {"process", "eventBased"} -> {busy}
    [] Kind(t) = "errorEnd" -> {Fails(t)}
    [] Kind(t) = "signalThrow" -> {<<Broadcast>> \o d : d \in Departure(t)}
    [] OTHER -> Departure(t)

AdvanceToEntered(t) ==
  /\ Set(t, "ENTERED")
  /\ \E cmds \in EntryCommands(t) : Enqueue(cmds)
  /\ UNCHANGED <<environment, created, registers, aborted>>

\* A token at a timer or signal event awaits it; a timer already due triggers.
AdvanceToBusy(t) ==
  LET complete == <<Command("advanceToCompleted", t)>> IN
  /\ Set(t, "BUSY")
  /\ Enqueue(CASE Kind(t) \in Scopes -> <<With("run", t, None)>>
               [] Kind(t) = "eventBased" -> <<Command("advanceToDeparting", t)>>
               [] Kind(t) = "start" -> complete
               [] Kind(t) \in Timers /\ trigger[Node(t)] <= now -> complete
               [] OTHER -> <<>>)
  /\ listening' = IF Kind(t) \in Signals THEN Append(listening, t) ELSE listening
  /\ UNCHANGED <<environment, created, waiting, aborted>>

\* The token at an event-based gateway departs; it stays where no flow leads on.
AdvanceToDeparting(t) ==
  /\ \E cmds \in IF Outgoing(Node(t)) = <<>> THEN {<<>>} ELSE Departure(t) : Enqueue(cmds)
  /\ UNCHANGED <<environment, created, tokens, registers, aborted>>

\* A state machine is run: a token is created and entered at its start event.
Run(s) ==
  LET start == CHOOSE n \in Nodes : model.kind[n] = "start" /\ model.scope[n] = Node(s) IN
  /\ created + 1 <= MaxTokens
  /\ tokens' = Added(tokens, <<Token(start, "ENTERED", s, None)>>)
  /\ created' = created + 1
  /\ Enqueue(<<Command("advanceToBusy", NewId(1))>>)
  /\ UNCHANGED <<environment, registers, aborted>>

\* Mutant of Consequence: an interrupting event does not interrupt.
ConsequenceRearming(t) ==
  IF Kind(t) \in Boundaries
  THEN <<With("initiateBoundaryEvent", tokens[t].link, Node(t))>>
  ELSE IF tokens[t].link # None
  THEN <<Command("handleEventBasedGatewayActivation", t)>>
  ELSE <<>>

\* What a completed event does to the activity or the gateway it is linked to.
Consequence(t) ==
  IF Kind(t) \in Boundaries
  THEN IF Node(t) \in model.interrupting
       THEN <<Command("interruptActivity", tokens[t].link)>>
       ELSE <<With("initiateBoundaryEvent", tokens[t].link, Node(t))>>
  ELSE IF tokens[t].link # None
  THEN <<Command("handleEventBasedGatewayActivation", t)>>
  ELSE <<>>

\* The activity a boundary event is attached to has gone, and left it behind.
Dangling(t) == Kind(t) \in Boundaries /\ tokens[t].link \notin Live

CompletedFeasibly(t, before) ==
  IF Dangling(t) THEN Abort
  ELSE /\ tokens' = [tokens EXCEPT ![t].state = "COMPLETED",
                                   ![t].link = IF Kind(t) \in Boundaries THEN None ELSE @]
       /\ \E onward \in CASE Kind(t) \in ActivityKinds -> {<<Command("advanceFromCompleted", t)>>}
                          [] Kind(t) = "process" -> {<<Command("advanceToDone", t)>>}
                          [] OTHER -> Departure(t) :
            commands' = before \o Consequence(t) \o onward
       /\ UNCHANGED <<environment, created, registers, aborted>>

CompletedInfeasibly(t, before) ==
  /\ Node(t) \in model.restricted
  /\ Set(t, "COMPLETED")
  /\ commands' = before \o Fails(t)
  /\ UNCHANGED <<environment, created, registers, aborted>>

AdvanceToCompleted(t, before) == CompletedFeasibly(t, before) \/ CompletedInfeasibly(t, before)

\* Mutant of BoundaryRemoval: the tokens at the boundary events are left.
BoundaryLeft(t) == <<>>

\* The removal of the tokens at the boundary events of a completed activity.
BoundaryRemoval(t) ==
  IF BoundaryEvents(Node(t)) = <<>> THEN <<>>
  ELSE <<With("deleteBoundary", tokens[t].owner, t)>>

\* The activity is left for good: its state machine is cleared.
AdvanceFromCompleted(t) ==
  /\ tokens' = [tokens EXCEPT ![t].owned = FALSE]
  /\ \E d \in Departure(t) :
       commands' = Purged(Tail(commands), {}, {t}) \o BoundaryRemoval(t) \o d
  /\ UNCHANGED <<environment, created, registers, aborted>>

\* attemptShutdown: the state machine is shut down with its last token done.
AdvanceToDone(t) ==
  LET s == tokens[t].owner IN
  /\ Set(t, "DONE")
  /\ IF Kind(t) = "process" THEN Enqueue(<<Command("deleteInstance", t)>>)
     ELSE IF \A u \in Members(s) \ {t} : State(u) = "DONE"
     THEN Enqueue(<<With("shutdown", s, None)>>)
     ELSE Enqueue(<<>>)
  /\ UNCHANGED <<environment, created, registers, aborted>>

AdvanceToDeparted(t, flow) ==
  /\ tokens' = [tokens EXCEPT ![t].state = "DEPARTED", ![t].flow = flow]
  /\ Enqueue(<<Command("advanceToArrived", t)>>)
  /\ UNCHANGED <<environment, created, registers, aborted>>

\* Mutant of JoinComplete: a token on any flow activates the gateway.
JoinWithAny(arrived, n) == arrived # {}

\* attemptGatewayActivation for a parallel gateway: the code counts the tokens
\* waiting at the gateway.
JoinComplete(arrived, n) == Cardinality(arrived) = Cardinality(Sources(n))

AdvanceToArrived(t) ==
  LET n == tokens[t].flow[2]
      kind == model.kind[n]
      s == tokens[t].owner
      there == {u \in waiting : tokens[u].owner = s /\ Node(u) = n} \union {t}
      moved(state, flow) ==
        tokens' = [tokens EXCEPT ![t].node = n, ![t].state = state, ![t].flow = flow]
  IN
  /\ \/ /\ Cardinality(Sources(n)) > 1 /\ kind # "exclusive"
        /\ moved("WAITING", tokens[t].flow)
        /\ waiting' = waiting \union {t}
        /\ Enqueue(IF kind = "parallel" /\ JoinComplete(there, n)
                   THEN <<With("createMergedToken", s, n)>> ELSE <<>>)
     \/ /\ Cardinality(Sources(n)) = 1 \/ kind = "exclusive"
        /\ kind \in ActivityKinds
        /\ moved("ARRIVED", tokens[t].flow)
        /\ Enqueue(<<>>)
        /\ UNCHANGED waiting
     \/ /\ Cardinality(Sources(n)) = 1 \/ kind = "exclusive"
        /\ kind \notin ActivityKinds
        /\ moved("ARRIVED", <<>>)
        /\ Enqueue(<<Command("advanceToEntered", t)>>)
        /\ UNCHANGED waiting
  /\ UNCHANGED <<environment, created, listening, aborted>>

\* A scope that fails is terminated first.
AdvanceToFailed(t) ==
  /\ IF Kind(t) \in Scopes /\ tokens[t].owned /\ (Members(t) # {} \/ State(t) = "COMPLETED")
     THEN Set(t, "FAILING") /\ Enqueue(<<Command("terminate", t)>>)
     ELSE Set(t, "FAILED") /\ Enqueue(<<Command("handleFailure", t)>>)
  /\ UNCHANGED <<environment, created, registers, aborted>>

\* The tokens within the scope are withdrawn and its state machine is deleted,
\* that of a process excepted, which holds the data of the instance: what is
\* queued for it is executed still.
Terminate(t) ==
  LET gone == Within(Members(t))
      shut == IF Kind(t) = "process" THEN gone ELSE {t} \union gone IN
  IF ~tokens[t].owned THEN Abort
  ELSE /\ tokens' = [Without(gone) EXCEPT ![t].owned = Kind(t) = "process"]
       /\ listening' = StillListening(gone)
       /\ waiting' = waiting \ gone
       /\ commands' = Purged(Tail(commands), gone, shut)
                        \o <<Command("updateFailed", t), Command("handleFailure", t)>>
       /\ UNCHANGED <<environment, created, aborted>>

UpdateFailed(t) ==
  /\ Set(t, "FAILED")
  /\ Enqueue(<<>>)
  /\ UNCHANGED <<environment, created, registers, aborted>>

\* The failure is caught by an error boundary event, ends the instance or fails
\* the token at the enclosing scope.
HandleFailure(t) ==
  LET catchers == {b \in Attached(t) : Kind(b) = "errorBoundary"} IN
  \/ \E b \in catchers : AdvanceToCompleted(b, Tail(commands))
  \/ /\ catchers = {}
     /\ Enqueue(IF Kind(t) = "process" THEN <<Command("deleteInstance", t)>>
                ELSE <<Command("advanceToFailed", tokens[t].owner)>>)
     /\ UNCHANGED <<environment, created, tokens, registers, aborted>>

DeleteInstance(t) ==
  /\ tokens' = Without(Within({t}))
  /\ Removing(Within({t}), <<>>)
  /\ UNCHANGED <<environment, created, aborted>>

\* The tokens of a state machine have all reached their final state.
Shutdown(s) ==
  IF Members(s) = {} THEN Abort
  ELSE /\ tokens' = Without(Members(s))
       /\ Removing(Members(s), <<Command("advanceToCompleted", s)>>)
       /\ UNCHANGED <<environment, created, aborted>>

-----------------------------------------------------------------------------
\* A token is created and entered at each boundary event, unless they exist.
InitiateBoundaryEvents(a) ==
  LET events == BoundaryEvents(Node(a))
      k == Len(events) IN
  \/ Attached(a) # {} /\ Enqueue(<<>>) /\ UNCHANGED <<created, tokens>>
     /\ UNCHANGED <<environment, registers, aborted>>
  \/ /\ Attached(a) = {}
     /\ created + k <= MaxTokens
     /\ tokens' = Added(tokens, [i \in 1..k |->
                          Token(events[i], "ENTERED", tokens[a].owner, a)])
     /\ created' = created + k
     /\ Enqueue([i \in 1..k |-> Command("advanceToBusy", NewId(i))])
     /\ UNCHANGED <<environment, registers, aborted>>

InitiateBoundaryEvent(a, node) ==
  /\ created + 1 <= MaxTokens
  /\ tokens' = Added(tokens, <<Token(node, "ENTERED", tokens[a].owner, a)>>)
  /\ created' = created + 1
  /\ Enqueue(<<Command("advanceToBusy", NewId(1))>>)
  /\ UNCHANGED <<environment, registers, aborted>>

\* In a process terminated meanwhile the tokens listed for the activity have been
\* freed, and withdrawing them is undefined.
DeleteBoundary(s, a) ==
  \/ /\ tokens' = Without(Attached(a))
     /\ Removing(Attached(a), <<>>)
     /\ UNCHANGED <<environment, created, aborted>>
  \/ Members(s) = {} /\ Abort

\* The token at the activity is withdrawn, with the tokens within it and those
\* still waiting at its boundary events.
InterruptActivity(a) ==
  LET gone == Within({a}) \union Attached(a) IN
  IF Kind(a) \notin ActivityKinds THEN Abort
  ELSE /\ tokens' = Without(gone)
       /\ Removing(gone, <<>>)
       /\ UNCHANGED <<environment, created, aborted>>

\* The outgoing sequence flows along which copies of a token depart: all of
\* them or, at an inclusive gateway, those whose conditions are satisfied.
Branches(t) ==
  LET out == Outgoing(Node(t)) IN
  IF Kind(t) = "inclusive"
  THEN {Kept(out, chosen) : chosen \in (SUBSET DOMAIN out) \ {{}}}
  ELSE {out}

HandleDivergingGateway(t) ==
  \E out \in Branches(t) :
    LET k == Len(out)
        copy == [tokens[t] EXCEPT !.link = IF Kind(t) = "eventBased" THEN t ELSE None,
                                  !.flow = <<>>]
        keep == IF Kind(t) = "eventBased" THEN {} ELSE {t}
    IN
    /\ created + k <= MaxTokens
    /\ tokens' = Added(Without(keep), [i \in 1..k |-> copy])
    /\ created' = created + k
    /\ commands' = Purged(Tail(commands), keep, {}) \o
                     [i \in 1..k |-> With("advanceToDeparted", NewId(i), <<Node(t), out[i]>>)]
    /\ UNCHANGED <<environment, registers, aborted>>

\* Mutant of Losers: the copies at the other catch events stay.
NoLosers(t) == {tokens[t].link}

\* The copies at the other catch events and the token at the gateway.
Losers(t) == (Alternatives(tokens[t].link) \ {t}) \union {tokens[t].link}

HandleEventBasedGatewayActivation(t) ==
  IF tokens[t].link \notin Live THEN Abort
  ELSE /\ tokens' = [Without(Losers(t)) EXCEPT ![t].link = None]
       /\ Removing(Losers(t), <<>>)
       /\ UNCHANGED <<environment, created, aborted>>

\* A token is consumed from each incoming flow that has one; a single token is
\* released, several are merged.
CreateMergedToken(s, gateway) ==
  LET there == {t \in waiting : tokens[t].owner = s /\ Node(t) = gateway}
      consumed == {t \in there : \A u \in there : tokens[u].flow = tokens[t].flow => t <= u}
      first == CHOOSE t \in consumed : \A u \in consumed : t <= u
  IN
  IF there = {} THEN Abort
  ELSE IF consumed = {first}
  THEN /\ tokens' = [tokens EXCEPT ![first].flow = <<>>]
       /\ waiting' = waiting \ consumed
       /\ Enqueue(<<Command("advanceToEntered", first)>>)
       /\ UNCHANGED <<environment, created, listening, aborted>>
  ELSE /\ created + 1 <= MaxTokens
       /\ tokens' = Added(Without(consumed), <<Token(gateway, "WAITING", s, None)>>)
       /\ created' = created + 1
       /\ Removing(consumed, <<Command("advanceToEntered", NewId(1))>>)
       /\ UNCHANGED <<environment, aborted>>

\* Every token awaiting the signal is advanced, in the order they came to wait.
BroadcastSignal ==
  /\ listening' = <<>>
  /\ Enqueue([i \in DOMAIN listening |-> Command("advanceToCompleted", listening[i])])
  /\ UNCHANGED <<environment, created, tokens, waiting, aborted>>

-----------------------------------------------------------------------------
\* The command at the head of the queue is executed.
Execute ==
  LET c == Head(commands) IN
  /\ commands # <<>>
  /\ \/ c.name = "advanceToReady" /\ AdvanceToReady(c.for)
     \/ c.name = "advanceToEntered" /\ AdvanceToEntered(c.for)
     \/ c.name = "advanceToBusy" /\ AdvanceToBusy(c.for)
     \/ c.name = "advanceToDeparting" /\ AdvanceToDeparting(c.for)
     \/ c.name = "run" /\ Run(c.for)
     \/ c.name = "advanceToCompleted" /\ AdvanceToCompleted(c.for, Tail(commands))
     \/ c.name = "advanceFromCompleted" /\ AdvanceFromCompleted(c.for)
     \/ c.name = "advanceToDone" /\ AdvanceToDone(c.for)
     \/ c.name = "advanceToDeparted" /\ AdvanceToDeparted(c.for, c.arg)
     \/ c.name = "advanceToArrived" /\ AdvanceToArrived(c.for)
     \/ c.name = "advanceToFailed" /\ AdvanceToFailed(c.for)
     \/ c.name = "terminate" /\ Terminate(c.for)
     \/ c.name = "updateFailed" /\ UpdateFailed(c.for)
     \/ c.name = "handleFailure" /\ HandleFailure(c.for)
     \/ c.name = "deleteInstance" /\ DeleteInstance(c.for)
     \/ c.name = "shutdown" /\ Shutdown(c.for)
     \/ c.name = "initiateBoundaryEvents" /\ InitiateBoundaryEvents(c.for)
     \/ c.name = "initiateBoundaryEvent" /\ InitiateBoundaryEvent(c.for, c.arg)
     \/ c.name = "deleteBoundary" /\ DeleteBoundary(c.for, c.arg)
     \/ c.name = "interruptActivity" /\ InterruptActivity(c.for)
     \/ c.name = "handleDivergingGateway" /\ HandleDivergingGateway(c.for)
     \/ c.name = "handleEventBasedGatewayActivation"
          /\ HandleEventBasedGatewayActivation(c.for)
     \/ c.name = "createMergedToken" /\ CreateMergedToken(c.for, c.arg)
     \/ c.name = "broadcastSignal" /\ BroadcastSignal

\* Mutant of Predecessors: only the nodes next to the gateway.
AdjacentPredecessors(g) == Sources(g)

\* The nodes from which the gateway can be reached, the model being acyclic.
Predecessors(g) ==
  LET before[n \in Nodes] == Sources(n) \union UNION {before[m] : m \in Sources(n)}
  IN before[g]

\* Where a token is on its way to.
Position(t) == IF State(t) = "DEPARTED" THEN tokens[t].flow[2] ELSE Node(t)

\* attemptGatewayActivation for an inclusive gateway.
Activatable(s, g) ==
  /\ model.kind[g] = "inclusive"
  /\ \A u \in Members(s) :
       \/ Node(u) = g \/ State(u) = "DONE" \/ Kind(u) \in Boundaries
       \/ Position(u) \notin Predecessors(g)

\* The merges of the inclusive gateways that can be activated.
Activations ==
  {With("createMergedToken", tokens[t].owner, Node(t)) :
     t \in {w \in waiting : Activatable(tokens[w].owner, Node(w))}}

\* processCommands: converging inclusive gateways are activated once the
\* commands have settled, in the order of an unordered map.
Activate ==
  /\ commands = <<>> /\ ~aborted
  /\ Activations # {}
  /\ commands' \in Orderings(Activations)
  /\ UNCHANGED <<environment, created, tokens, registers, aborted>>

-----------------------------------------------------------------------------
\* The commands have settled, and the engine takes the next event.
Settled == commands = <<>> /\ Activations = {} /\ ~aborted

\* The data of a scope is made with the ready event, and its state machine.
ReadyEvent(t) ==
  /\ Settled
  /\ State(t) = "ARRIVED" /\ Kind(t) \in ActivityKinds
  /\ tokens' = [tokens EXCEPT ![t].owned = Kind(t) = "subprocess"]
  /\ commands' = <<Command("advanceToReady", t)>>
  /\ UNCHANGED <<environment, created, registers, aborted>>

EntryEvent(t) ==
  /\ Settled
  /\ State(t) = "READY" /\ Kind(t) \in ActivityKinds
  /\ commands' = <<Command("advanceToEntered", t)>>
  /\ UNCHANGED <<environment, created, tokens, registers, aborted>>

CompletionEvent(t) ==
  /\ Settled
  /\ State(t) = "BUSY" /\ Kind(t) = "task"
  /\ commands' = <<Command("advanceToCompleted", t)>>
  /\ UNCHANGED <<environment, created, tokens, registers, aborted>>

ErrorEvent(t) ==
  /\ Settled
  /\ State(t) = "BUSY" /\ Kind(t) = "task" /\ Node(t) \in model.restricted
  /\ commands' = Fails(t)
  /\ UNCHANGED <<environment, created, tokens, registers, aborted>>

SignalBroadcastEvent ==
  /\ Settled
  /\ Live # {} /\ signals < MaxSignals
  /\ signals' = signals + 1
  /\ commands' = <<Broadcast>>
  /\ UNCHANGED <<model, trigger, now, created, tokens, registers, aborted>>

\* The timers due are triggered together.
ClockTickEvent ==
  /\ Settled
  /\ Live # {} /\ now < MaxTime
  /\ now' = now + 1
  /\ LET due == {t \in Live : /\ Kind(t) \in Timers /\ State(t) = "BUSY"
                              /\ trigger[Node(t)] <= now + 1}
     IN commands' \in Orderings({Command("advanceToCompleted", t) : t \in due})
  /\ UNCHANGED <<model, trigger, signals, created, tokens, registers, aborted>>

-----------------------------------------------------------------------------
\* The ready event of the process instance has been processed: the token at
\* the process, owning the state machine of the instance, enters.
Init ==
  /\ model \in Models
  /\ trigger \in [TimerNodes(model) -> 0..MaxTime]
  /\ now = 0 /\ signals = 0 /\ created = 1
  /\ tokens = [t \in {1} |->
       [Token(CHOOSE n \in DOMAIN model.kind : model.kind[n] = "process", "READY", None, None)
          EXCEPT !.owned = TRUE]]
  /\ listening = <<>> /\ waiting = {}
  /\ commands = <<Command("advanceToEntered", 1)>>
  /\ aborted = FALSE

Decision == \E t \in Live : ReadyEvent(t) \/ EntryEvent(t) \/ CompletionEvent(t)

Next ==
  \/ Execute
  \/ Activate
  \/ Decision
  \/ \E t \in Live : ErrorEvent(t)
  \/ SignalBroadcastEvent
  \/ ClockTickEvent

Spec == Init /\ [][Next]_vars

\* The engine executes its commands, activities are made ready, entered and
\* completed in time, and the clock ticks.  No signal and no error need come.
FairSpec ==
  /\ Spec
  /\ WF_vars(Execute) /\ WF_vars(Activate)
  /\ WF_vars(Decision) /\ WF_vars(ClockTickEvent)

-----------------------------------------------------------------------------
\* Every variable has the values its place in the code can hold.
TypeOK ==
  /\ model \in Models /\ now \in 0..MaxTime /\ signals \in 0..MaxSignals
  /\ trigger \in [TimerNodes(model) -> 0..MaxTime]
  /\ created \in Ids /\ Live \subseteq 1..created
  /\ \A t \in Live :
       /\ tokens[t].node \in Nodes /\ tokens[t].state \in States
       /\ tokens[t].owner \in 0..created /\ tokens[t].link \in 0..created
       /\ tokens[t].owned \in BOOLEAN
       /\ tokens[t].flow \in {<<>>} \union (Nodes \X Nodes)
  /\ Range(listening) \subseteq Live /\ waiting \subseteq Live
  /\ \A t \in Live : t \in waiting => State(t) = "WAITING" /\ Kind(t) \in Gateways
  /\ aborted \in BOOLEAN

\* No assertion of the engine fails: a scope is terminated once, an activity is
\* interrupted where it is, a scope shut down and a gateway activated with the
\* tokens they need (asserts of Token::terminate, StateMachine::shutdown,
\* interruptActivity, createMergedToken and handleEventBasedGatewayActivation).
NeverAborts == ~aborted

\* No token outlives its scope: whatever interrupts, fails or completes a
\* scope, at whatever depth, withdraws the tokens within it, so that every
\* token is in a state machine owned by a token that is busy or failing.
ScopesKept ==
  \A t \in Live : Kind(t) # "process" =>
    /\ tokens[t].owner \in Live
    /\ tokens[tokens[t].owner].owned
    /\ State(tokens[t].owner) \in {"BUSY", "FAILING"}

\* Between two events, every busy activity has a token awaiting each of its
\* boundary events, whichever of them have been triggered before.
BoundaryArmed ==
  Settled => \A a \in Live : Kind(a) \in ActivityKinds /\ State(a) = "BUSY" =>
    \A n \in Range(BoundaryEvents(Node(a))) :
      Cardinality({b \in Attached(a) : Node(b) = n /\ State(b) = "BUSY"}) = 1

\* Between two events, no token awaits a boundary event of an activity that
\* has been left: all are withdrawn with the activity, however it was left.
BoundaryWithdrawn ==
  Settled => \A b \in Live : Kind(b) \in Boundaries /\ State(b) = "BUSY" =>
    /\ tokens[b].link \in Live
    /\ State(tokens[b].link) = "BUSY"
    /\ Node(b) \in Range(BoundaryEvents(Node(tokens[b].link)))

BoundaryExact == BoundaryArmed /\ BoundaryWithdrawn

\* A merge at the head of the queue of a scope at a gateway of some kind.
Merges(s, g, kind) ==
  /\ commands # <<>> /\ Head(commands) = With("createMergedToken", s, g)
  /\ model.kind[g] = kind

\* A converging parallel gateway releases a token only when a token has arrived
\* on each of its incoming sequence flows.  A merge left in the queue when its
\* process is terminated releases none: NeverAborts is about those.
JoinsSynchronise ==
  \A s \in Live, g \in Nodes : Merges(s, g, "parallel") /\ Members(s) # {} =>
    \A n \in Sources(g) :
      \E t \in waiting : tokens[t].owner = s /\ tokens[t].flow = <<n, g>>

\* The nodes a token may reach along the sequence flows.
Reachable(n) ==
  LET after[m \in Nodes] == {m} \union UNION {after[k] : k \in Range(Outgoing(m))}
  IN after[n]

\* A converging inclusive gateway releases a token only when no other token of
\* the scope can still reach it.  Tokens awaiting a boundary event are on no
\* sequence flow.
InclusiveAwaits ==
  \A s \in Live, g \in Nodes : Merges(s, g, "inclusive") =>
    \A u \in Members(s) :
      \/ Node(u) = g /\ State(u) = "WAITING"
      \/ Kind(u) \in Boundaries \/ State(u) = "DONE"
      \/ g \notin Reachable(Node(u))

\* Whoever is linked to an event-based gateway has the token there, which still
\* awaits the first event, and has not gone beyond the catch event behind it: as
\* one alternative is taken the token at the gateway and all the others are
\* withdrawn, and none of them goes on whatever is queued for it.
AlternativesWithdrawn ==
  \A u \in Live : tokens[u].link # None /\ Kind(u) \notin Boundaries =>
    LET g == tokens[u].link IN
    /\ g \in Live /\ Kind(g) = "eventBased" /\ State(g) = "BUSY"
    /\ tokens[g].owner = tokens[u].owner
    /\ Node(u) \in {Node(g)} \union FlowsFrom(model, Node(g))
    /\ State(u) = "DEPARTED" => Node(u) = Node(g)

\* Every instance comes to its end, completed or failed, and leaves no token,
\* nothing listening and nothing waiting behind.
EventuallyOver ==
  <>[](Live = {} /\ listening = <<>> /\ waiting = {} /\ commands = <<>>)
=============================================================================
