# BPMNOS engine: TLA+ models and proofs

BPMNOS executes BPMN models with data, decisions and messages. `Engine`
(`execution/engine`) moves tokens through processes; a data provider
(`execution/data`) says when instances begin, activities become ready and tasks
complete; a controller (`execution/controller`) takes decisions. The engine is
single-threaded: what makes it hard is not threads but the order in which
events, commands and withdrawals meet. This directory models that order,
checks it with TLC, and proves what holds in general with TLAPS.

Run a model with `tlc -config TokenFlow.cfg MCTokenFlow.tla`; prove with
`tlapm EngineRunProofs.tla`.

## Inventory

**Engine** (`Engine.cpp`, `Environment.cpp`). State: the clock, the system
state, the queue of commands, the environment's queue of events. Each round
(`Engine::advance`) takes one event: from the environment if one is due, else
from a dispatcher of the controller, else the environment advances, with a
clock tick or a termination. Processing an event enqueues commands, bound to
tokens and state machines by weak pointers; `processCommands` drains them, and
each may enqueue more behind what is queued. Correct when: no event is lost,
repeated, early or late; stale events and commands have no effect; runs end.

**Data providers** (`StaticDataProvider`, `DynamicDataProvider`). State: the
calendar `scheduledEvents`. They notice tokens changing state, clock ticks and
installed states. Correct when the calendar and queue hold exactly what tokens
await, also for a forked state.

**Tokens and state machines** (`Token.cpp`, `StateMachine.cpp`,
`SystemState.cpp`). State: the tokens of every scope, the state machine each
owns, and registers of tokens waiting for a timer, signal, message, gateway
activation, boundary event, event-based gateway or compensation. Correct when
joins synchronise, scopes end exactly when their tokens have, withdrawal
reaches everything within a scope, and the registers agree with the tokens.

**Sequential performer** (`Token.cpp`, `SequentialAdHocSubProcess.h`). State:
`performing`, `pendingSequentialEntries` and the decision requests of waiting
children. Correct when one child at a time is performed and nobody is forgotten.

**Scope lifecycle** (`StateMachine.cpp`): event subprocesses, multi-instance
activities, loops, escalation and compensation, each with tokens of its own to
create, to await and to withdraw.

**Messages** (`Message.cpp`, `Token::sendMessage`, `StateMachine::registerRecipient`,
`withdrawMessages`): outbox, inbox, unsent, archive and send tasks awaiting
their delivery.

**Controller** (`Candidates`, `CachedCandidates`, dispatchers, evaluators):
candidate decisions with cached evaluations, invalidated by ticks and data.
Correct when every decision that can be made is a candidate, once, and what is
compared is evaluated on present data.

**Conditional events** (`ConditionalEventObserver.cpp`): tokens registered for
the attributes their condition reads, told of data updates. Correct when no
token waits while its condition holds.

**Instance data** (`InstanceDataReader.cpp`, `StochasticDataProvider.cpp`,
`InstanceValues.cpp`): the rows of a table, the scenarios sampled from them, and
forks of scenarios. Correct when an instance is given what the scenario holds,
not before it is disclosed, and a fork agrees with the run on its past.

**Observers**, **BPMN model** (graph, expressions, validation), **application**:
see `PROJECT.json`.

Interactions: the engine notifies observers (environment, candidates) of every
token update, event and request, synchronously; the environment answers by
enqueuing events; decisions hold weak pointers to the requests they answer.

The behaviours that are hard to test, each at its line with the properties that
cover it or the reason none does yet, are the `hazards` of `PROJECT.json`.

## Modules

| Module | Models |
|---|---|
| `EngineRun` | rounds of the engine, event queue, calendar, forks |
| `Timetable` | what a run promises of time: abstract specification of `EngineRun` |
| `SequentialPerformer` | one performer shared by ad-hoc subprocesses |
| `TokenFlow` | commands, sequence flows, gateways, scopes, boundary events, failure |
| `ScopeLifecycle` | event subprocesses, multi-instance activities, loops, escalation, failure, compensation, copies |
| `MessageFlows` | message flows and candidates of a collaboration |
| `MessageExchange` | sending, registering, delivering, withdrawing and copying messages (extends `MessageFlows`) |
| `DecisionCandidates` | the greedy controller and conditional events (extends `MessageExchange`) |
| `InstanceTable` | reading a table of instance data |
| `InstanceScenarios` | scenarios, forks, and what instances are given of them (extends `InstanceTable`) |
| `CommandQueue` | a queue from which some elements are taken |
| `MC...` | instances for TLC |
| `EngineRunProofs` | theorems about `EngineRun`; that it implements `Timetable` |
| `SequentialPerformerProofs` | theorems about `SequentialPerformer` |
| `TokenFlowProofs`, `TokenFlowBoundaryProofs` | theorems about `TokenFlow`; those about boundary events |
| `DecisionCandidatesProofs`, `MessageExchangeProofs` | theorems about `DecisionCandidates`: the controller; the messages |
| `InstanceScenariosProofs` | theorems about `InstanceScenarios` and the table it extends |
| `IterationTheorems` | what is computed step by step, for proofs about recursive functions |

### EngineRun

One action is one round: `Initialize` is `Engine::initialize`; the actions
under `ProcessEvent` handle the first event of the queue that has not expired;
`DecideEntry` and `BroadcastSignal` are events a dispatcher supplies when the
environment has none (`AtDecision`); `ClockTick` and `Terminate` are the two
events of `StaticDataProvider::advance`. `Plan` is `schedule`: due now means
enqueued, else into the calendar. `Fork` installs a copy of the run's own state
and has the provider plan anew (`Recovered`, `RebuiltQueue`, `RebuiltSchedule`).

The work of an instance is reduced to what gives rise to events: ready event of
the process, then for each activity a ready event, an entry decision and a
completion, with an interrupting timer boundary event that may replace the
token, and an interrupting event subprocess ending the instance on a signal.
Tokens are numbered, so that an event of a withdrawn token is distinguished
from one of its successor. Times are instants of the clock; an event due
between two is due at the later. Events due at one instant come in any order.

`EngineRun.cfg`: two instances, two activities, instants 0 to 2, every choice of
disclosure times, durations and triggers. That is enough for an event to be due
at once, at a tick, together with the timer that makes it stale, and after the
end time, and for two instances to interleave in queue and calendar. The run
also shows that `EngineRun` implements `Timetable`, mapping what is awaited and when
it is due (`DueTimes`) and the steps left (`StepCounts`): a refinement that queue,
calendar, stale entries and forks are invisible to.
Deadlock is not checked, as a terminated run stops.

Two further runs show where the code departs from what its comments say:
`EngineRunForkEnd.cfg` (a fork may end before the run it forks, which still
counts stale entries) and `EngineRunAnyFork.cfg` (a fork taken between any two
rounds loses instances whose instantiation is enqueued; forks taken when a
controller is asked do not, by `ForkAgrees`).

### SequentialPerformer

Tokens at the child activities of several ad-hoc subprocesses that share a
performer. An event is processed with `Settled`; the commands it enqueues
execute one action each. `Occupy`, `Release`, `AwaitEntry` and `Withdraw` are
the functions of `Token` they are named for. `former` remembers that a
controller may hold a decision built on a request that has been destroyed: such
a decision must be recognised (`Expired`) even when the token has a new request.
`Trigger` is a tick or signal that interrupts children, withdraws ad-hoc
subprocesses and completes or fails what is busy, in any order of commands.

`SequentialPerformer.cfg`: two ad-hoc subprocesses, with two children and one.
Two children of one scope compete and are withdrawn together; the third
competes from another scope. At most two triggers happen at once.

### TokenFlow

One action executes one command (`Execute`); `Activate` is the second part of
`processCommands`, activating converging inclusive gateways when the commands
have settled; the events of the environment come when nothing is left
(`Settled`). `tokens` holds the existing tokens with node, state, owner (the
token owning their state machine), `link` (the activity of a boundary event, or
the event-based gateway a copy awaits an event for), flow and whether they own a
state machine. `listening` and `waiting` are the registers for signals and
gateways; timers are found by their trigger time. Commands of removed tokens
and state machines are taken off the queue, which is what skipping them does.
A process that is terminated loses its tokens but keeps its state machine until
the instance is deleted (`Terminate`), so that commands for the state machine are
executed still. An assertion that fails sets `aborted`.

Leaving an event-based gateway is a command of its own (`AdvanceToDeparting`).
Conditions of gateways and restrictions are nondeterministic. There is one
signal. Models are acyclic, as `Model` requires for inclusive gateways. The
process token starts at its entry. Standard loops, event subprocesses,
multi-instance and compensation activities are in `ScopeLifecycle`; messages,
send and receive tasks in `MessageExchange`; conditional events in
`DecisionCandidates`.

`TokenFlow.cfg` runs three processes of `MCTokenFlow`, with timers due at 0, 1
or 2 and up to two broadcast signals: nested inclusive splits and joins; a
parallel split and join over an exclusive choice and an event-based gateway with
two timers and a signal; a subprocess in a subprocess with error, timer and
non-interrupting signal boundary events around a task and a timer that may fail.
`MaxTokens = 15` is never reached: a bound that blocked a token would violate
`EventuallyOver`. `MaxTime = 2` is the latest trigger. Deadlock is not checked,
as the end of the instance is the end of the run.

Most of the invariants are about what is queued for tokens that go or move on
before it is executed. `ScopesKept`: no token outlives its scope. `InclusiveAwaits`
and `JoinsSynchronise`: a converging gateway releases a token only when all have
come that can come. `AlternativesWithdrawn`: an event-based gateway goes one way,
and the alternatives not taken go with it. `BoundaryExact`: boundary events are
armed while, and only while, their activity is busy.

Three runs show departures. `TokenFlowJoin.cfg`: two tokens on the same flow
activate a parallel join. `TokenFlowFailures.cfg`: two failures in one
drain terminate a subprocess twice, failing an assertion.
`TokenFlowSignal.cfg`: a boundary event is armed again for an activity just
left, and its scope then never ends. `PROJECT.json` quotes the documentation
each one disagrees with.

### ScopeLifecycle

Executes commands as `TokenFlow` does, with explicit state machines: `machines`
gives each its scope, the token owning it, and for an event subprocess the state
machine hosting it and whether it is pending, interrupting, non-interrupting or a
compensation event subprocess. A token is in the scope, among the compensation
tokens, or holds a completed subprocess that can be compensated (`place`);
`link`, `successor` and `waiter` are the registers of boundary events, instances,
sequential instances and awaited compensations. Numbers are never reused, so a
number not in use is a dangling pointer, and using one is `Abort`, as is a
failing assertion. `CopyState` is the copy constructor of `StateMachine`: the
copy has the tokens of the original, and looks for what they refer to by node,
aborting where the counterpart of a link is not found.

`ScopeLifecycle.cfg` runs eight processes: a parallel multi-instance task with an
interrupting boundary event and an event subprocess catching failures; a
sequential multi-instance subprocess throwing escalations; three with a subprocess in
which a task loops beside a non-interrupting event subprocess, triggered again and
again, until the subprocess ends, throws an escalation or fails, the latter two
triggering an interrupting event subprocess while the other listens and runs; compensation activities, one of which may fail, triggered by a throw event or by
a failure; and two processes with a compensation event subprocess compensating
in turn. Three instances or iterations are the fewest with a first, a middle and
a last. Three signals trigger an event subprocess while two of its instances
run. `MaxIds = 40` is never reached, or `EventuallyOver` would fail.

`NeverAborts` and `NothingDangles` say that removal along any path leaves no
reference behind; `EventSubProcessesListen` that each scope listens to each
trigger exactly once, and to none once it is interrupted; `InstancesExact` that the main token of a multi-instance
activity accounts for every instance; `CompensationsReversed` and
`WaitsForCompensation` that compensation is sequential, in reverse order, and
awaited. They hold for these processes; the constellations for which the code
does not keep them are left out of the models and listed as hazards:
two subprocesses of a scope with compensation event subprocesses, a compensation
event subprocess beside an interrupting one, two throw events of a scope, two
escalations in a drain, and a copy made while a compensation is awaited from
another state machine (`AwaitedWithin`).

### MessageFlows, MessageExchange, DecisionCandidates

`MessageFlows` holds the pure operators of `Model`: which catching nodes are
candidates of which throwing nodes, and which processes a message instantiates.
`MessageExchange` is the boxes of `SystemState`: `unsent` until the recipient is
registered, then `inbox`, and `outbox` by origin; a machine that ends withdraws
what is directed to it; a delivery completes the receiver and the send task.
Machines and tokens have fixed identities; `stage` and `at` say where each is in
its life. `Install` copies all of it as the copy constructor of `SystemState`
does, relating messages by origin and recipient.

`DecisionCandidates` adds data, conditional events, and what the greedy
controller holds: for entries, sequential entries and message deliveries, the
decisions `pending` an evaluation and those with an `evaluation`, represented by
the values it was based on, so that one is fresh when these are the present
values; the deliveries addressed directly; and what each collector has `heard`
of. `Dispatch` is `GreedyController::dispatchEvent`, best candidate and all.
`silent` remembers data written by choices without operators, which the code
announces to nobody; `Unnoticed` and `ConditionsNoticed` exempt these by name,
and what evaluations of deliveries read of the time, which they are not told of.

`DecisionCandidates.cfg` runs seven collaborations, each small and for one
constellation: two senders with the same order, messages to event subprocesses,
to instances of a multi-instance activity, messages creating instances that
answer, tasks competing for entry on local and global data, a choice announced
or not, sequential entries competing with deliveries. Two instants (and the
start) suffice for an evaluation to go stale twice; one installation, as a
copied state may be copied again but is then of the same form.
`PostedOnce` and `SendersExact` state where each message is and that a send task
waits exactly for its own; `CandidatesExact`, `EvaluationsFresh`,
`ConditionsNoticed` and `EventuallyServed` are about what is noticed in time.
`DecisionCandidatesCopy.cfg` shows that a state whose send task has lost its
message to a recipient that ended cannot be copied.

### InstanceTable, InstanceScenarios

`InstanceTable` reads a table: form of all rows (`Parse`), then globals and rows
one by one, each accepted (`ReadRow`) or refused (`RefuseRow`), as the static,
expected value, dynamic and stochastic providers do. An expression is what it
reads and the numbers it may add; an attribute of an instance stands before a
global one (`View`). `InstanceDataReader` writes values to their index (`Slot`),
which attributes of sibling nodes share, so that one may be read for another
(`ReadBack`); what it writes beyond the attributes of a node is taken to have no
effect. A row may initialise what a scope around its node
declares. The disclosure of a process is at least zero, as both providers start
from it. `InstanceScenarios` samples a scenario (`Samples`: the rows in order, each
drawn, or kept from the run forked), runs the instances as far as the provider sees
them, and forks it at any time. `Lowest` is a constant: the lowest `number`, a
scenario without disclosures starting there.

`InstanceScenarios.cfg`: two instances of a process with activities, twenty-five
tables, fifteen of them to be refused by a provider that reads what they hold, four providers, instants 0 to 4 and two
forks, the second a fork of the first. That is enough for a disclosure, an
instantiation and a fork to fall on one instant in each order.
`GivenAgrees` says that tokens hold what the scenario they are in says, disclosed
by then. It exempts by name the values that the node or its ready expressions
determine, and those of rows that name a node within the scope declaring the
attribute, as in table `Outer`: the scope is given such a value before the row is
disclosed. `InstancesExact` says that no instance is lost or doubled by forks and that
an accepted table can be sampled; `ForkKeepsThePast` that a fork is later
indistinguishable from the run in what was disclosed.

## Fairness

`EngineRun`: `Engine::loop` performs round after round, so what a round does is
weakly fair; decisions and signals are not. `SequentialPerformer`: the command
queue is drained, busy activities complete, and, for starvation only, the
controller keeps entering children, in the order listed as `InstantEntry` does.
`TokenFlow`: commands are executed, gateways activated, activities made ready,
entered and completed, and the clock ticks; errors and signals need not come.
`ScopeLifecycle`: the same, without a clock. `DecisionCandidates`: commands are
executed and the controller is asked when none is left, in every round of
`Engine::loop`; nothing obliges a token to arrive or an instance to end.
`InstanceScenarios` states no liveness.

## Proofs

Each theorem holds for every value of the constants that satisfies the named
assumptions. No safety property below is inductive; each proof finds a
strengthening that every step preserves, with a lemma for each kind of step, and
derives the property from it. The strengthenings were checked by TLC first.

### EngineRun: `EngineRunProofs`

For any number of instances and activities, any data and any end time
(`RunAssumption`: there is an activity, and no time lies beyond `Horizon`):
`TypesCorrect`, `HeldExactlyOnce`, `ObsoleteExpired`, `NothingLeftBehind`,
`DueComesFirst`, `CompleteAtEnd` and `ForkPlansTheRest` prove the seven invariants
of `EngineRun.cfg`.

They rest on `IInv` (`Consistent`). At its heart is `HeldConsistently`, as an event
withdrawn from a token stays where it is: what is awaited is enqueued once it is
due and in the calendar until then (`AwaitedPlaced`), once (`LiveOnce`), whatever
else is held is expired (`OthersExpired`) and concerns no token still to come
(`TokensPast`), so that nothing expired is ever taken for the event of a later
token. `PhaseFitsToken` and `RunStages` tie tokens, timers and the stage of the
run to the progress of each instance. `FiniteCalendar` is needed where a tick
releases events in some order.

`RunKeepsTimetable` is the refinement: the initial state of a run is one of
`Timetable`, and each round is a step of it or a stutter: an event processed is
`Happen` for the instance that awaited it, an entry decision `Decide`, a signal
`Cancel`, a tick `Pass` and the termination `End`; a fork, which rebuilds queue and
calendar, is a stutter.

### SequentialPerformer: `SequentialPerformerProofs`

For every finite set of tokens and scopes, however they share the performer
(`PerformerAssumption`: each token is in a scope, and `None` is none of them):
`TypesCorrect`, `PerformedExclusively`, `RequestsExact`, `BusyHolds` and
`EachListedOnce` prove the five invariants of `SequentialPerformer.cfg`.

`IInv` strengthens mutual exclusion with what it rests on: decisions are
requested only while the performer is idle and only for waiting tokens
(`RequestedWhenIdle`), so that an entry finds it idle; at most one queued command
moves a token (`OneMoving`), and finds it in a state it was enqueued for
(`MovingExpected`), so that no command lets a token be performed that has released
the performer; and a command that enters a token is alone in the queue, its token
performing already (`EnterAlone`). `Served` adds the converse: every ready token
not performing is listed, and while the performer is idle a request exists for
all those listed, between commands as well as when they have settled. `Held`
adds that the performer is held by an activity that is busy or has a command
enqueued that moves it on (`Occupied`), and that the list names nobody twice and
only who awaits entry (`ListedWaiting`).

### TokenFlow: `TokenFlowProofs`, `TokenFlowBoundaryProofs`

For every set of models that fit what `Model` and the assertions of `Token`
require, any number of tokens and signals, and any times of the timers:
`TypesHold`, `ScopesAreKept`, `InclusiveGatewaysAwait` and
`AlternativesAreWithdrawn` prove `TypeOK`, `ScopesKept`, `InclusiveAwaits` and
`AlternativesWithdrawn`. `FlowAssumption` says what fits: each scope has a start
event, boundary events are those of activities, each listed once, and no sequence
flow leads to them, only gateways split and join, an event-based gateway leads to catch events
that nothing else leads to, and sequence flows are acyclic.

These hold whatever the conditions of gateways and restrictions turn out to be,
and also where the code leaves a boundary event behind or lets a parallel join go
with two tokens of one flow. Where an assertion fails nothing follows it.

The difficulty is that a command is executed long after it was enqueued, and that
other commands are executed in between. `IInv` (`InvariantHolds`) therefore says
what the queue can hold:

* `CommandsOK`: a queued command finds its token as it needs it: alive, at a node
  and in a state it is meant for, without tokens in its scope when it leaves it
  (`TokenFits`), and with an argument that fits (`ArgumentFits`, `BoundaryFits`).
* `OrderOK`: what cannot be queued behind what. A token has one command at a time
  that moves it on; a scope is shut down, and boundary events are initiated, only
  behind what their tokens have still to do; a token that fails or is withdrawn
  from an event-based gateway has nothing before that moves it (`InOrder`).
  `NoneFails`: nor does a scope fail while it is being entered.
* `ListeningOK`, `WaitingOK`, `DoneOK`: a token that is registered or done is at
  rest: no command moves it before an event or an activation does. `OnTheMove` is the
  converse: no token departs or comes to an inclusive gateway without a command
  that takes it on.
* `AlternativesOK`: a copy of an event-based gateway's token is linked to a token
  that rests there, and moves on only behind the command that withdraws the others.
* `MergesOK`: merges at inclusive gateways come first in the queue, and no other
  token of the scope is at a node before the gateway. The gateway awaits the
  `Predecessors` the code computes backwards; the property speaks of `Reachable`,
  forwards. `ReachedFromPredecessors` shows that they agree, for acyclic flows.

`ParallelGatewaysSynchronise` proves `JoinsSynchronise` on a condition: that no two
tokens of a scope ever wait on one incoming flow of a parallel gateway
(`OneTokenPerFlow`). This is a condition on behaviours, as the code counts the
tokens that wait and not the flows they came along (`attemptGatewayActivation`); every
state of the models of `TokenFlow.cfg` meets it, and `TokenFlowJoin.cfg` shows a model
that does not, where the join goes wrong. The strengthening is `JoinsOK`: a waiting
token has come along a flow to its node, and a merge that is queued is ready, on
every flow, and alone: no other merge of the gateway and no shutdown of its scope is
queued. So what the activation has counted is still there when the merge is executed,
unless its process was terminated: then no token is left in it (`Emptied`), none
comes again (`EmptiedStay`), and the merge finds nobody waiting, where the code
throws an exception or fails an assertion (`CreateMergedToken` aborts). So it does when
one token of a process fails while the merge of two others is queued.

`BoundaryTokensAreExact` proves `BoundaryExact`, on a condition again: when an
`initiateBoundaryEvent` is executed, its activity is busy or about to go on from its
completion (`RearmedInTime`). The code asks nothing of the activity there;
`TokenFlowSignal.cfg` shows what follows if it has been left, and every state of the
models of `TokenFlow.cfg` meets the condition. Where all boundary events interrupt it
cannot fail (`InterruptingBoundariesAreExact`). Between two events the property is
simple; the strengthening, `BoundariesOK`, says what holds while commands are queued:

* `BoundaryBound`: a token at a boundary event not completed belongs to an activity
  of its scope with that event, and awaits it unless it or its scope fails.
* `ActivityBound`: an activity with such tokens is in a state between entry and
  completion, and if it is not busy something queued will take it on, fail it or
  withdraw it (`GoesAhead`). It has at most one token for each event; entered or
  busy it has one for each, or the command that creates it is queued (`Armed`).
* `MoveBound`, `FailureBound`, `InitiationBound` and `RemovalBound` say the same of
  the commands: an activity is left only once its tokens are withdrawn or the
  withdrawal is queued before (`OrderBound`); what fails is not also moved on; an
  event is armed for an activity without a token there.

`BoundStep` says what a step must do to keep these, and `ExecuteBound` that every
command does so.

`StepOK` collects what a step does to the queue and the tokens, and a lemma for
each command shows it of that command (`ExecuteKeeps`, `StepsKeep`).
`IterationTheorems` says what `Kept` keeps, and in which order.

### DecisionCandidates: `DecisionCandidatesProofs`

For every set of collaborations, any clock and any number of installed states:
`NoConditionMissed`, `GatheredExactly` and `ComparesThePresent` prove
`ConditionsNoticed`, `CandidatesExact` and `EvaluationsFresh`.

* `Lifecycle` and `Advances`: tokens and messages pass through their states in one
  direction, so that a request or a message that is gone does not come back and a
  weak reference to it stays expired; and no step brings both a request and a
  message, so that collecting by notices compares every pair once.
* `Gathered`: each collector has heard of exactly the requests and messages there
  are (`HeardAll`); a cache holds what can be decided, each once, and besides that
  only what was possible earlier (`CacheExact`, `DirectExact`).
* `Fresh`: an evaluation is based on the present value of each attribute it is
  known to depend on, except where a choice was silent, and on the time of the
  last tick its cache has seen, which is not later than the clock (`Clocks`).
* `Conditions`: who waits is at a conditional event and was told of every write.

### MessageExchange: `MessageExchangeProofs`

In the same runs, `DeliveredOnce` and `FoundByRecipient` prove `SendersExact` and
`PostedOnce`. Every step is one of the exchange or an installation (`NextExchanges`,
which needs `Gathered`: a round delivers what the controller has gathered, and only
for pairs that match). `Exchanged` says that lists hold only messages sent, an
inbox only those of its machine (`Lists`); that a queued command to complete a
send task is about one that is through (`CommandsBound`), so that none completes
without its delivery; how sender and message go together (`SendTasks`); and that
no two receivers hold one message, while each one delivered without instantiating
a process has a receiver (`Received`). `Posted` adds that a machine not started is
unknown and a living one is known (`Known`), which is what makes sending, registering
and withdrawing agree on the list a message is in (`AtRecipient`).

### InstanceScenarios: `InstanceScenariosProofs`

For every model and set of tables, whatever is drawn and however often the run is
forked, `GivenStays`, `InstancesComeOnce` and `ForksKeepThePast` prove the three
properties of `InstanceScenarios.cfg`. They rest on `RunInv` (`RunInvariant`):

* `TableRead` is about reading: a row accepted reads only what has a value by then
  (`RowsRead`), so that sampling never fails, whichever value
  of one index is read (`ViewsTyped`); what has a row is disclosed (`ShownRead`); in the end every
  instance has a timestamp (`AllRead`).
* `Sound` is about a scenario sampled or forked: all attributes of a row have a value,
  a node is disclosed with the last of its rows, a process with one of them exactly or
  at zero (`NodesSoFar`): a fork can neither make an instance known that was still
  to come nor hide one that was known (`ForksKnow`), which is what
  `StaticDataProvider::notice` relies on when it instantiates those known later.
* `Arrivals`, `Nested`, `Awaited`, `Shown`, `Given` and `Stamped` are about the run: who
  is held and who is to come, at what time; who has begun is within what has begun;
  who waits does so until its disclosure; and what has begun is disclosed, keeps what
  it was given and did not begin before its instance was due.

What sampling makes of a scenario (`SamplesKeep`) is shown row by row, with
`SampledSoFar` as the invariant of the rows sampled and `IterationTheorems` for the
recursive function: a function computed from each number to the next exists, and
what each step keeps holds in the end. The same goes for the initial values of a scope,
its ready expressions and the global attributes.

The assumptions are what the code establishes: each attribute is declared by one node,
the model does not assign the timestamp of a process, a scope is not within itself
(`ScopesNest`), and spreads are finite (`ModelAssumption`, `TableAssumption`).

### Assumptions about collaborations

`CollaborationsAssumption` says what `Model` and `Token` establish: tokens are
finitely many, each in a machine and addressed to a machine or nobody; the
candidates of nodes are those `Model` computes, and a message instantiating a
process is caught nowhere else (`ValidTriggers`, the errors `Model` throws); no
token of the exchange is at the start event of a process, as the message that
instantiates it is consumed (`Token.cpp:616`). `AttributesAssumption`: what a node
reads is declared. TLC evaluates all assumptions in the runs.

### Model-checked only

* All liveness properties, for which the provers have no rules.
* Of `TokenFlow`, `NeverAborts` holds for the models of `TokenFlow.cfg` and, as
  `TokenFlowFailures.cfg` shows, not for all; a theorem would need to exclude two
  failures in one drain, and a failure of a process while a merge is queued, which
  are conditions on behaviours. That `OneTokenPerFlow` and
  `RearmedInTime`, the conditions of `ParallelGatewaysSynchronise` and
  `BoundaryTokensAreExact`, hold is known of these models only.
* The invariants of `ScopeLifecycle`: they hold for the eight processes of the run,
  and the constellations named with that module violate them.

## Plan

1. Runs for the hazards without a property, which need models of their own:
   two interrupting boundary events in a drain, a process failing while a merge is
   queued, two compensated subprocesses, a copy while a compensation is awaited from another state machine.
2. Proofs about `ScopeLifecycle`: type correctness, and `InstancesExact` for
   models without compensation.
3. The alternatives of a choice and how dispatchers enumerate or bisect them.
4. Copies of event-based and converging gateways.

## Not modelled

Parsing of BPMN and of tables as text, expressions and their arithmetic, random
generators and their seeds, sizes of objects, recording and the command line:
computations and I/O whose correctness is not a matter of order. Evaluators
appear by what they read and are told of, not by the numbers they compute.
The choices a dispatcher makes among alternatives of a decision task, and the
other controllers built from the same parts (bisection, random choice, first
matching delivery, myopic termination), are left out; a choice takes any value.
