---------------------------- MODULE ScopeLifecycle ----------------------------
(***************************************************************************)
(* The life of the scopes of a process instance: event subprocesses that   *)
(* are armed, triggered and armed again, multi-instance activities and     *)
(* standard loops, escalations and failures looking for a catcher, and the *)
(* compensation of what has completed, by compensation activities and by   *)
(* compensation event subprocesses.                                        *)
(*                                                                         *)
(* As in TokenFlow, one action executes one command of the engine, and an  *)
(* event comes when none is left.  State machines are explicit: a scope    *)
(* has one, and so has every event subprocess of it.  Tokens and state     *)
(* machines are numbered from one counter; a number that is no longer in   *)
(* use stands for a dangling pointer.                                      *)
(***************************************************************************)
EXTENDS Integers, Sequences, FiniteSets, Functions, TLC

CONSTANTS
  Models,       \* the process models
  Instances,    \* cardinality of multi-instance activities, maximum of loops
  MaxIds,       \* bound on the tokens and state machines created
  MaxSignals    \* bound on the signals broadcast

\* A model gives every node its kind, its scope and its successor, if any; the
\* activities with a loop its characteristics; the boundary events of an
\* activity; the event subprocesses of a scope; the activity a compensate
\* boundary event is attached to; and what an activity is compensated by.
ASSUME ScopeAssumption ==
  /\ Instances \in Nat \ {0} /\ MaxIds \in Nat \ {0} /\ MaxSignals \in Nat
  /\ \A m \in Models :
       /\ DOMAIN m.scope = DOMAIN m.kind /\ DOMAIN m.next = DOMAIN m.kind
       /\ \A n \in DOMAIN m.next : Len(m.next[n]) <= 1
       /\ Range(m.loop) \subseteq {"standard", "parallel", "sequential"}
       /\ DOMAIN m.loop \intersect DOMAIN m.compensatedBy = {}
       /\ m.interrupting \subseteq DOMAIN m.kind
       /\ m.restricted \subseteq DOMAIN m.kind

None == 0
NoNode == "-"   \* no node of a model

Activities == {"task", "subprocess"}
Boundaries == {"signalBoundary", "errorBoundary", "escalationBoundary"}
Triggers == {"signalStart", "errorStart", "escalationStart"}
Signals == {"signalBoundary", "signalStart"}
Catching == Boundaries \union Triggers \union {"start"}

States == {"CREATED", "ARRIVED", "READY", "ENTERED", "BUSY", "COMPLETED",
           "WAITING", "DEPARTED", "DONE", "FAILED", "FAILING"}

VARIABLES
  model,      \* the process model, fixed for the run
  signals,    \* signals the environment has broadcast
  created,    \* tokens and state machines created so far
  tokens,     \* the tokens that exist, wherever they are held
  machines,   \* the state machines that exist
  commands,   \* Engine::commands
  aborted     \* an assertion has failed, an exception has been thrown

vars == <<model, signals, created, tokens, machines, commands, aborted>>

-----------------------------------------------------------------------------
Nodes == DOMAIN model.kind
Live == DOMAIN tokens
Machines == DOMAIN machines

Node(t) == tokens[t].node
Kind(t) == model.kind[Node(t)]
State(t) == tokens[t].state
Owner(t) == tokens[t].owner

At(f, x, default) == IF x \in DOMAIN f THEN f[x] ELSE default
BoundaryEvents(n) == At(model.boundary, n, <<>>)
EventSubProcesses(n) == At(model.eventSubProcesses, n, <<>>)
CompensatedBy(n) == At(model.compensatedBy, n, NoNode)
Loop(n) == At(model.loop, n, "none")
MultiInstance(n) == Loop(n) \in {"parallel", "sequential"}
ForCompensation(n) ==
  model.kind[n] \in Activities /\ n \in Range(model.compensatedBy)
ByEventSubProcess(n) ==
  n \in DOMAIN model.compensatedBy
    /\ model.kind[model.compensatedBy[n]] = "eventSubProcess"

\* The elements of a set of numbers in ascending order: the order of creation.
Ascending(S) ==
  CHOOSE q \in [1..Cardinality(S) -> S] :
    \A i, j \in DOMAIN q : i < j => q[i] < q[j]

\* StateMachine::tokens, the tokens within the scope of a state machine.
Members(m) == {t \in Live : Owner(t) = m /\ tokens[t].place = "scope"}

\* The state machines held by another one in one of the roles: pending,
\* interrupting, nonInterrupting and compensation event subprocesses.
Hosted(m, roles) == {e \in Machines : machines[e].host = m /\ machines[e].role \in roles}
Running == {"pending", "interrupting", "nonInterrupting"}

\* The state machine holding a token in its compensationTokens: a token at a
\* compensate start event is owned by the event subprocess, but held around it.
HeldBy(t) ==
  IF machines[Owner(t)].role = "compensation" /\ Kind(t) = "compensateStart"
  THEN machines[Owner(t)].host ELSE Owner(t)

\* StateMachine::compensationTokens.
Compensations(m) == {t \in Live : tokens[t].place = "compensation" /\ HeldBy(t) = m}

\* StateMachine::compensableSubProcesses, by the completed state machines owned.
Compensable(m) ==
  {tokens[t].owned : t \in {c \in Live : Owner(c) = m /\ tokens[c].place = "compensable"}}

\* The tokens withdrawn by withdrawCompensationTokens, those within completed
\* subprocesses that can still be compensated included.
Withdrawable(m) ==
  LET inner[x \in Machines] == {x} \union UNION {inner[y] : y \in Compensable(x)}
  IN UNION {Compensations(x) : x \in inner[m]}

\* What a token or state machine exists within, itself included.
Lineage(x) ==
  LET all == Live \union Machines
      around(y) == IF y \in Live THEN Owner(y)
                   ELSE IF machines[y].host # None THEN machines[y].host
                   ELSE machines[y].parent
      up[y \in all] == {y} \union (IF around(y) \in all THEN up[around(y)] ELSE {})
  IN up[x]

\* The tokens and state machines of a set, and all that exist within them.
Within(S) == {x \in Live \union Machines : Lineage(x) \intersect S # {}}

\* What clearing the tokens of a state machine removes, and what is removed
\* when its event subprocesses are withdrawn as well.
Obsolete(m) == Within(Members(m))
AllObsolete(m) == Within(Members(m) \union Hosted(m, Running))

\* tokensAwaitingBoundaryEvent of the token at an activity, and
\* tokensAtActivityInstance of the main token of a multi-instance activity.
Attached(a) == {b \in Live : tokens[b].link = a /\ Kind(b) \in Boundaries}
ActiveInstances(a) == {i \in Live : tokens[i].link = a /\ Kind(i) \in Activities}

Command(name, for) == [name |-> name, for |-> for, arg |-> None]
With(name, for, arg) == [name |-> name, for |-> for, arg |-> arg]
Fails(t) == <<Command("advanceToFailed", t)>>

NewToken(n, state, owner, link) ==
  [node |-> n, state |-> state, owner |-> owner, owned |-> None, place |-> "scope",
   link |-> link, successor |-> None, waiter |-> None, index |-> 0]
NewMachine(n, parent, host, role) ==
  [scope |-> n, parent |-> parent, host |-> host, role |-> role, waiter |-> None]
NewId(i) == created + i

\* Records added to a function under the next numbers, after a number of others.
Add(f, skip, new) ==
  [x \in DOMAIN f \union {NewId(skip + i) : i \in DOMAIN new} |->
     IF x \in DOMAIN f THEN f[x] ELSE new[x - created - skip]]

\* A command has been executed: what is gone is removed with its commands, and
\* further commands are enqueued.  k numbers have been used.
Becomes(toks, machs, gone, k, cmds) ==
  /\ created + k <= MaxIds
  /\ created' = created + k
  /\ tokens' = [t \in DOMAIN toks \ gone |-> toks[t]]
  /\ machines' = [m \in DOMAIN machs \ gone |-> machs[m]]
  /\ commands' = SelectSeq(Tail(commands), LAMBDA c : c.for \notin gone) \o cmds
  /\ UNCHANGED <<model, signals, aborted>>

In(state, t) == [tokens EXCEPT ![t].state = state]
Moves(t, state, cmds) == Becomes(In(state, t), machines, {}, 0, cmds)

\* An assertion fails, an exception is thrown or a dangling pointer is used.
Abort ==
  /\ aborted' = TRUE
  /\ commands' = <<>>
  /\ UNCHANGED <<model, signals, created, tokens, machines>>

-----------------------------------------------------------------------------
\* advanceToDeparting, or advanceToDone without an outgoing sequence flow.
Departure(t, n) ==
  <<Command(IF model.next[n] = <<>> THEN "advanceToDone" ELSE "advanceToDeparted", t)>>

\* The same by a command of its own.
LaterDeparture(t, n) ==
  <<Command(IF model.next[n] = <<>> THEN "advanceToDone" ELSE "advanceToDeparting", t)>>

\* What entering a node enqueues.
EntryCommands(t, n) ==
  LET kind == model.kind[n]
      busy == <<Command("advanceToBusy", t)>>
      boundary == IF BoundaryEvents(n) = <<>> THEN <<>>
                  ELSE <<Command("initiateBoundaryEvents", t)>> IN
  CASE kind \in Activities ->
         {boundary \o busy} \union
           (IF kind = "task" /\ n \in model.restricted THEN {boundary \o Fails(t)} ELSE {})
    [] kind = "start" -> {<<Command("initiateEventSubprocesses", t)>> \o busy}
    [] kind \in (Catching \ {"start"}) \union {"process"} -> {busy}
    [] kind = "errorEnd" -> {Fails(t)}
    [] kind = "escalationThrow" -> {<<Command("handleEscalation", t)>> \o Departure(t, n)}
    [] OTHER -> {Departure(t, n)}

\* Mutant of Awaiting: all tokens are compensated at once.
AwaitingAll(toks, comps, waiting) ==
  [t \in DOMAIN toks |-> IF t \in comps
                         THEN [toks[t] EXCEPT !.waiter = waiting, !.place = "scope"]
                         ELSE toks[t]]

\* compensate: the tokens are compensated one after the other, the last first,
\* each awaiting the one after it, and then the waiting token.
Awaiting(toks, comps, waiting) ==
  LET q == Ascending(comps)
      waiter(t) == IF t = q[1] THEN waiting
                   ELSE q[CHOOSE i \in 1..Len(q) : q[i + 1] = t]
  IN [t \in DOMAIN toks |->
        IF t \notin comps THEN toks[t]
        ELSE [toks[t] EXCEPT !.waiter = IF Kind(t) = "compensateStart" THEN @ ELSE waiter(t),
                             !.place = IF t = q[Len(q)] THEN "scope" ELSE @]]
AwaitingMachines(comps, waiting) ==
  LET q == Ascending(comps)
      waiter(t) == IF t = q[1] THEN waiting
                   ELSE q[CHOOSE i \in 1..Len(q) : q[i + 1] = t]
  IN [m \in Machines |->
        IF \E t \in comps : Owner(t) = m /\ Kind(t) = "compensateStart"
        THEN [machines[m] EXCEPT !.waiter =
                waiter(CHOOSE t \in comps : Owner(t) = m /\ Kind(t) = "compensateStart")]
        ELSE machines[m]]
Last(comps) == CHOOSE t \in comps : \A u \in comps : u <= t

\* getCompensationTokens: of one activity, or of all activities.
CompensationTokens(m, activity) ==
  {t \in Compensations(m) : activity \in
     {NoNode, IF Kind(t) = "compensateStart" THEN model.scope[model.scope[Node(t)]]
            ELSE model.attachedTo[Node(t)]}}

\* A compensate throw event compensates in the scope owned by its parent token.
ThrowCompensation(t) ==
  LET context == tokens[machines[Owner(t)].parent].owned
      comps == CompensationTokens(context, At(model.compensates, Node(t), NoNode)) IN
  IF comps = {} THEN Moves(t, "ENTERED", Departure(t, Node(t)))
  ELSE Becomes(Awaiting(In("ENTERED", t), comps, t), AwaitingMachines(comps, t), {}, 0,
               <<Command("updateBusy", t), Command("advanceToCompleted", Last(comps))>>)

AdvanceToEntered(t) ==
  IF Kind(t) = "compensateThrow" THEN ThrowCompensation(t)
  ELSE \E cmds \in EntryCommands(t, Node(t)) :
         Becomes([In("ENTERED", t) EXCEPT ![t].index =
                    IF Loop(Node(t)) = "standard" THEN @ + 1 ELSE @],
                 machines, {}, 0, cmds)

\* The main token of a multi-instance activity delegates to its instances; a
\* compensation activity is entered at once; others await their entry.
AdvanceToReady(t) ==
  IF ForCompensation(Node(t)) THEN AdvanceToEntered(t)
  ELSE IF MultiInstance(Node(t))
  THEN Moves(t, State(t), <<Command("createMultiInstanceActivityTokens", t)>>)
  ELSE Moves(t, "READY", <<>>)

AdvanceToBusy(t) ==
  Moves(t, "BUSY",
    CASE Kind(t) \in {"process", "subprocess"} -> <<Command("run", tokens[t].owned)>>
      [] Kind(t) = "start" -> <<Command("advanceToCompleted", t)>>
      [] OTHER -> <<>>)

\* run: a token is created and entered at the start event of the scope.
Run(m) ==
  LET start == CHOOSE n \in Nodes : model.kind[n] = "start" /\ model.scope[n] = machines[m].scope
  IN \E cmds \in EntryCommands(NewId(1), start) :
       Becomes(Add(tokens, 0, <<NewToken(start, "ENTERED", m, None)>>), machines, {}, 1, cmds)

StartOf(n) == CHOOSE s \in Nodes : model.scope[s] = n /\ model.kind[s] \in Triggers

\* initiateEventSubprocesses: each event subprocess of the scope gets a pending
\* instance, whose token is created and entered at the start event.
InitiateEventSubprocesses(t) ==
  LET m == Owner(t)
      events == EventSubProcesses(machines[m].scope)
      k == Len(events) IN
  Becomes(Add(tokens, k, [i \in 1..k |->
            NewToken(StartOf(events[i]), "ENTERED", NewId(i), None)]),
          Add(machines, 0, [i \in 1..k |->
            NewMachine(events[i], machines[m].parent, m, "pending")]),
          {}, 2 * k,
          [i \in 1..k |-> Command("advanceToBusy", NewId(k + i))])

-----------------------------------------------------------------------------
\* Mutant of IsReady: no instance follows another.
AllReady(n, i) == TRUE
IsReady(n, i) == Loop(n) = "parallel" \/ i = 1

\* createMultiInstanceActivityTokens: one token per instance, a subprocess with
\* a state machine of its own; they follow each other or are ready together.
CreateMultiInstanceActivityTokens(t) ==
  LET k == Instances
      n == Node(t)
      scope == Kind(t) = "subprocess"
      instance(i) ==
        [NewToken(n, IF IsReady(n, i) THEN "READY" ELSE "CREATED", Owner(t), t) EXCEPT
           !.owned = IF scope THEN NewId(k + i) ELSE None,
           !.successor = IF Loop(n) = "sequential" /\ i < k THEN NewId(i + 1) ELSE None]
  IN Becomes(Add(In("WAITING", t), 0, [i \in 1..k |-> instance(i)]),
             IF scope THEN Add(machines, k, [i \in 1..k |-> NewMachine(n, NewId(i), None, "main")])
             ELSE machines,
             {}, IF scope THEN 2 * k ELSE k, <<>>)

IsLastInstance(t) == ActiveInstances(tokens[t].link) = {t}

\* deleteMultiInstanceActivityToken: the next instance becomes ready, or the
\* main token departs when the last instance has completed.
DeleteMultiInstanceActivityToken(t) ==
  LET main == tokens[t].link
      next == tokens[t].successor
      gone == Within({t}) \union (IF IsLastInstance(t) THEN Attached(main) ELSE {})
      counted == [tokens EXCEPT ![main].index = @ + 1]
      toks == IF next = None THEN counted ELSE [counted EXCEPT ![next].state = "READY"]
  IN IF main \notin Live THEN Abort
     ELSE Becomes(toks, machines, gone, 0,
                  IF IsLastInstance(t) THEN LaterDeparture(main, Node(main)) ELSE <<>>)

\* The tokens at boundary events are created for the main token.
InitiateBoundaryEvents(t) ==
  LET a == IF MultiInstance(Node(t)) THEN tokens[t].link ELSE t
      events == BoundaryEvents(Node(t))
      k == Len(events) IN
  IF Attached(a) # {} THEN Moves(t, State(t), <<>>)
  ELSE Becomes(Add(tokens, 0, [i \in 1..k |-> NewToken(events[i], "ENTERED", Owner(t), a)]),
               machines, {}, k, [i \in 1..k |-> Command("advanceToBusy", NewId(i))])

InitiateBoundaryEvent(a, n) ==
  Becomes(Add(tokens, 0, <<NewToken(n, "ENTERED", Owner(a), a)>>), machines, {}, 1,
          <<Command("advanceToBusy", NewId(1))>>)

DeleteTokensAwaitingBoundaryEvent(a) == Becomes(tokens, machines, Attached(a), 0, <<>>)

\* Mutant of Interrupted: the instances of the activity are left.
InterruptedMain(a) == Within({a}) \union Attached(a)
Interrupted(a) == Within({a} \union ActiveInstances(a)) \union Attached(a)

InterruptActivity(a) ==
  IF MultiInstance(Node(a)) /\ ActiveInstances(a) = {} THEN Abort
  ELSE Becomes(tokens, machines, Interrupted(a), 0, <<>>)

-----------------------------------------------------------------------------
\* Completion.  The restrictions of a node may be violated by the new status.
Completions(t, cmds) == {cmds} \union (IF Node(t) \in model.restricted THEN {Fails(t)} ELSE {})

\* A token at a boundary event completes: its activity is interrupted, or the
\* event is armed again.  It may violate the restrictions instead, and is kept
\* with the activity.  What is gone has been removed before.
CompleteBoundary(b, gone) ==
  LET a == tokens[b].link
      next == IF Node(b) \in model.interrupting THEN Command("interruptActivity", a)
              ELSE With("initiateBoundaryEvent", a, Node(b)) IN
  IF a = None THEN Abort
  ELSE \/ Becomes([In("COMPLETED", b) EXCEPT ![b].link = None], machines, gone, 0,
                  <<next>> \o Departure(b, Node(b)))
       \/ Node(b) \in model.restricted /\ Becomes(In("COMPLETED", b), machines, gone, 0, Fails(b))

\* Mutant of Overruled: the other event subprocesses stay.
OverruledMembers(context, m) == Within(Members(context))

\* An interrupting event subprocess withdraws the tokens around it and all other
\* event subprocesses.
Overruled(context, m) == Within(Members(context) \union (Hosted(context, Running) \ {m}))

\* A non-interrupting event subprocess is followed by a new pending one.
Rearm(m, toks, machs, cmds) ==
  LET machine == machines[m] IN
  Becomes(toks @@ (NewId(2) :> NewToken(StartOf(machine.scope), "ENTERED", NewId(1), None)),
          machs @@ (NewId(1) :> [machine EXCEPT !.role = "pending"]),
          {}, 2, <<Command("advanceToBusy", NewId(2))>> \o cmds)

\* The start event of an event subprocess is triggered.
Trigger(t) ==
  LET m == Owner(t)
      become(role) == [machines EXCEPT ![m].role = role] IN
  IF machines[m].role # "pending" THEN Abort
  ELSE \E cmds \in Completions(t, Departure(t, Node(t))) :
         IF Node(t) \in model.interrupting
         THEN Becomes(In("COMPLETED", t), become("interrupting"), Overruled(machines[m].host, m), 0, cmds)
         ELSE Rearm(m, In("COMPLETED", t), become("nonInterrupting"), cmds)

\* What follows the completion of other tokens.
CompletionCommand(t) ==
  CASE Kind(t) = "process" -> <<Command("advanceToDone", t)>>
    [] Kind(t) = "compensateBoundary" -> <<Command("compensateActivity", t)>>
    [] Kind(t) \in Activities ->
         <<Command(IF ForCompensation(Node(t)) THEN "completeCompensationActivity"
                   ELSE "advanceFromCompleted", t)>>
    [] OTHER -> Departure(t, Node(t))

AdvanceToCompleted(t) ==
  CASE Kind(t) \in Boundaries -> CompleteBoundary(t, {})
    [] Kind(t) \in Triggers -> Trigger(t)
    [] OTHER -> \E cmds \in Completions(t, CompletionCommand(t)) : Moves(t, "COMPLETED", cmds)

\* awaitCompensation: what is to be created for the compensation of an activity.
AwaitCompensation(t) ==
  LET m == tokens[t].owned IN
  IF CompensatedBy(Node(t)) = NoNode THEN <<>>
  ELSE IF ByEventSubProcess(Node(t))
  THEN <<With("createCompensationEventSubProcess", Owner(t), machines[m].parent)>>
  ELSE <<With("createCompensationTokenForBoundaryEvent", Owner(t),
              CHOOSE b \in DOMAIN model.attachedTo : model.attachedTo[b] = Node(t))>>

\* What is removed with the state machine of an activity that is left.
Left(m, compensable) ==
  IF m = None THEN {} ELSE IF compensable THEN AllObsolete(m) ELSE Within({m})

\* Mutant of MayLoop: one iteration too many.
MayLoopAgain(t) == tokens[t].index <= Instances
MayLoop(t) == tokens[t].index < Instances

\* A standard loop may continue; an instance is removed; another activity is left.
AdvanceFromCompleted(t) ==
  LET m == tokens[t].owned
      n == Node(t)
      awaits == AwaitCompensation(t)
      boundary == IF BoundaryEvents(n) = <<>> THEN <<>>
                  ELSE <<With("deleteTokensAwaitingBoundaryEvent", Owner(t), t)>> IN
  IF ByEventSubProcess(n) /\ (m = None \/ machines[m].parent = t) THEN Abort
  ELSE \/ /\ Loop(n) = "standard" /\ MayLoop(t)
          /\ Moves(t, "READY", awaits)
       \/ /\ MultiInstance(n)
          /\ Moves(t, State(t), awaits \o <<Command("deleteMultiInstanceActivityToken", t)>>)
       \/ /\ ~MultiInstance(n)
          /\ Becomes([tokens EXCEPT ![t].owned = None], machines,
                     Left(m, ByEventSubProcess(n)), 0, awaits \o boundary \o Departure(t, n))

AdvanceToDeparted(t) == Moves(t, "DEPARTED", <<Command("advanceToArrived", t)>>)

\* Activities await their ready event, other nodes are entered.
AdvanceToArrived(t) ==
  LET n == Head(model.next[Node(t)]) IN
  Becomes([In("ARRIVED", t) EXCEPT ![t].node = n], machines, {}, 0,
          IF model.kind[n] \in Activities THEN <<>> ELSE <<Command("advanceToEntered", t)>>)

-----------------------------------------------------------------------------
\* The end of scopes.  attemptShutdown: when all tokens are done, no event
\* subprocess can be triggered any more; when none is running, the scope shuts
\* down.  What is gone has been removed before.
AttemptShutdown(m, toks, gone) ==
  LET over == /\ Hosted(m, {"interrupting"}) = {}
              /\ \A t \in Members(m) : toks[t].state = "DONE"
      idle == Hosted(m, {"nonInterrupting"}) \subseteq gone IN
  Becomes(toks, machines, gone \union (IF over THEN Within(Hosted(m, {"pending"})) ELSE {}), 0,
          IF over /\ idle THEN <<Command("shutdown", m)>> ELSE <<>>)

AdvanceToDone(t) ==
  IF Kind(t) = "process"
  THEN Becomes(In("DONE", t), machines, Withdrawable(tokens[t].owned), 0,
               <<Command("deleteInstance", t)>>)
  ELSE AttemptShutdown(Owner(t), In("DONE", t), {})

\* A token waiting for a compensation advances, what is gone having been removed.
\* A waiting compensation moves to the tokens of its scope; one at a compensate
\* start event is looked for among the compensations of its event subprocess,
\* which do not hold it.
AdvanceTokenWaitingForCompensation(w, gone, cmds) ==
  LET live == w \in Live \ gone
      busy == live /\ State(w) = "BUSY"
      failing == live /\ State(w) = "FAILING"
      held == \/ Kind(w) = "compensateThrow"
              \/ (Kind(w) = "compensateBoundary" /\ tokens[w].place = "compensation") IN
  IF busy /\ held
  THEN Becomes([tokens EXCEPT ![w].place = "scope"], machines, gone, 0,
               <<Command("advanceToCompleted", w)>> \o cmds)
  ELSE IF failing
  THEN Becomes(tokens, machines, gone, 0,
               <<Command("updateFailed", w), Command("handleFailure", w)>> \o cmds)
  ELSE Abort

CompleteCompensationActivity(t) ==
  AdvanceTokenWaitingForCompensation(tokens[t].waiter, {t}, <<>>)

\* Mutant of HoldCompensable: the completed subprocess remains with its token.
HoldByToken(m, gone, cmds) == Becomes(tokens, machines, gone, 0, cmds)

\* A completed subprocess with a compensation event subprocess is held by a copy
\* of its token.
HoldCompensable(m, gone, cmds) ==
  LET t == machines[m].parent
      copy == [tokens[t] EXCEPT !.place = "compensable", !.link = None, !.successor = None] IN
  Becomes(tokens @@ (NewId(1) :> copy), [machines EXCEPT ![m].parent = NewId(1)], gone, 1, cmds)

\* The scope of a state machine has completed.
Shutdown(m) ==
  LET parent == machines[m].parent
      context == tokens[parent].owned
      gone == Obsolete(m) \union
                (IF model.kind[machines[m].scope] = "eventSubProcess" THEN Withdrawable(m) ELSE {})
      completed == <<Command("advanceToCompleted", parent)>>
  IN
  IF Members(m) = {} THEN Abort
  ELSE
  CASE machines[m].role = "nonInterrupting" ->
         Becomes(tokens, machines, Withdrawable(m), 0,
                 <<Command("deleteNonInterruptingEventSubProcess", m)>>)
    [] machines[m].role = "compensation" ->
         AdvanceTokenWaitingForCompensation(machines[m].waiter,
           Withdrawable(m) \union Withdrawable(context),
           <<Command("deleteCompensationEventSubProcess", m)>>)
    [] machines[m].role = "main" /\ ByEventSubProcess(machines[m].scope) ->
         HoldCompensable(m, gone, completed)
    [] OTHER -> Becomes(tokens, machines, gone, 0, completed)

\* Mutant of DeleteNonInterruptingEventSubProcess: the scope is not shut down.
DeleteEventSubProcess(m) == Becomes(tokens, machines, Within({m}), 0, <<>>)

DeleteNonInterruptingEventSubProcess(m) ==
  AttemptShutdown(machines[m].host, tokens, Within({m}))

DeleteCompensationEventSubProcess(m) == Becomes(tokens, machines, Within({m}), 0, <<>>)

-----------------------------------------------------------------------------
\* Compensation.  A token is created at the compensate boundary event of an
\* activity that has completed, and awaits that compensation is triggered.
CreateCompensationTokenForBoundaryEvent(m, n) ==
  Becomes(tokens @@ (NewId(1) :> [NewToken(n, "BUSY", m, None) EXCEPT !.place = "compensation"]),
          machines, {}, 1, <<>>)

\* Likewise the compensation event subprocess of a subprocess held by a token.
CreateCompensationEventSubProcess(m, held) ==
  LET n == CompensatedBy(Node(held))
      start == CHOOSE s \in Nodes : model.kind[s] = "compensateStart" /\ model.scope[s] = n IN
  IF held \notin Live THEN Abort
  ELSE Becomes(tokens @@ (NewId(2) :> [NewToken(start, "BUSY", NewId(1), None) EXCEPT
                                         !.place = "compensation"]),
               machines @@ (NewId(1) :> NewMachine(n, held, m, "compensation")), {}, 2, <<>>)

CompensateActivity(t) ==
  Becomes([In("ARRIVED", t) EXCEPT ![t].node = CompensatedBy(model.attachedTo[Node(t)])],
          machines, {}, 0, <<>>)

-----------------------------------------------------------------------------
\* Failures and escalations.
PendingStart(m, kind) ==
  {t \in Live : Kind(t) = kind /\ Owner(t) \in Hosted(m, {"pending"})}
Catching1(S) == CHOOSE t \in S : \A u \in S : t <= u

IsInstance(t) == MultiInstance(Node(t)) /\ tokens[t].link # None

\* The token owning a scope; the subprocess compensated by an event subprocess
\* has completed, and what surrounds it is addressed.
UpperToken(m) ==
  LET parent == machines[m].parent IN
  IF machines[m].role = "compensation" THEN machines[Owner(parent)].parent ELSE parent

\* A failing scope is terminated first.
AdvanceToFailed(t) ==
  LET m == tokens[t].owned
      scope == m # None /\ ~ForCompensation(Node(t))
      terminating == scope /\ (\/ Members(m) # {} \/ Hosted(m, {"interrupting"}) # {}
                               \/ State(t) = "COMPLETED") IN
  IF terminating THEN Moves(t, "FAILING", <<Command("terminate", t)>>)
  ELSE IF scope /\ Hosted(m, {"pending", "nonInterrupting"}) \union Compensations(m) # {} THEN Abort
  ELSE Becomes([In("FAILED", t) EXCEPT ![t].owned = IF scope THEN @ ELSE None], machines,
               IF scope THEN {} ELSE Left(m, FALSE), 0, <<Command("handleFailure", t)>>)

\* Mutant of Terminate: a failing scope is not compensated.
TerminateUncompensated(t) ==
  Becomes(tokens, machines, AllObsolete(tokens[t].owned), 0,
          <<Command("updateFailed", t), Command("handleFailure", t)>>)

\* What is active within the scope is withdrawn, what has completed compensated.
Terminate(t) ==
  LET m == tokens[t].owned
      comps == Compensations(m)
      keeps == Kind(t) = "process" IN
  IF m = None THEN Abort
  ELSE IF comps # {}
  THEN Becomes(Awaiting(tokens, comps, t), AwaitingMachines(comps, t), AllObsolete(m), 0,
               <<Command("advanceToCompleted", Last(comps))>>)
  ELSE Becomes([tokens EXCEPT ![t].owned = IF keeps THEN @ ELSE None], machines,
               AllObsolete(m) \union (IF keeps THEN {} ELSE Within({m})), 0,
               <<Command("updateFailed", t), Command("handleFailure", t)>>)

\* A failure is caught at the activity, or by an event subprocess around it, or
\* fails what is around it; an instance fails its activity.
HandleFailure(t) ==
  LET m == Owner(t)
      withdrawn == IF ForCompensation(Node(t)) \/ Kind(t) = "compensateBoundary"
                   THEN Withdrawable(m) ELSE {}
      attached == {b \in Attached(t) : Kind(b) = "errorBoundary"}
      starts == PendingStart(m, "errorStart") IN
  CASE m = None -> Moves(t, State(t), <<Command("deleteInstance", t)>>)
    [] IsInstance(t) -> AdvanceToFailed(tokens[t].link)
    [] ~IsInstance(t) /\ attached # {} -> CompleteBoundary(Catching1(attached), withdrawn)
    [] OTHER ->
         IF starts # {}
         THEN Becomes(tokens, machines, Obsolete(m) \union withdrawn, 0,
                      <<Command("advanceToCompleted", Catching1(starts))>>)
         ELSE Becomes(tokens, machines, withdrawn, 0, Fails(UpperToken(m)))

\* An escalation is caught by an event subprocess around the token, or at the
\* activity, or handed to what is around it.
HandleEscalation(t) ==
  LET m == Owner(t)
      a == IF IsInstance(t) THEN tokens[t].link ELSE t
      attached == {b \in Attached(a) : Kind(b) = "escalationBoundary"}
      starts == PendingStart(m, "escalationStart") IN
  CASE m = None -> Moves(t, State(t), <<>>)
    [] m # None /\ starts # {} -> Trigger(Catching1(starts))
    [] m # None /\ starts = {} /\ attached # {} -> CompleteBoundary(Catching1(attached), {})
    [] OTHER -> Moves(t, State(t), <<Command("handleEscalation", UpperToken(m))>>)

DeleteInstance(t) == Becomes(tokens, machines, Live \union Machines, 0, <<>>)

-----------------------------------------------------------------------------
\* The copy of a state that a scenario is forked with.  Tokens and state machines
\* keep their numbers in the copy, what they await follows from their states, and
\* what relates them to each other is looked for again by the nodes.
Earliest(S) == CHOOSE t \in S : \A u \in S : t <= u
MembersAt(m, n) == {t \in Members(m) : Node(t) = n}

\* A token at a boundary event, and an instance of a multi-instance activity, are
\* related to the token found at the activity, and to the waiting one found there.
Linked(t) == tokens[t].link # None /\ (Kind(t) \in Boundaries => State(t) = "BUSY")
Counterparts(t) ==
  IF tokens[t].link \notin Live THEN {}
  ELSE IF Kind(t) \in Boundaries THEN MembersAt(Owner(t), Node(tokens[t].link))
  ELSE {u \in MembersAt(Owner(t), Node(t)) : State(u) = "WAITING"}
CopiedLink(t) == IF Linked(t) THEN Earliest(Counterparts(t)) ELSE None

\* findTokenByNode: among the tokens of the scope, then among its compensations.
FoundByNode(m, n) ==
  LET held == {t \in Compensations(m) : Node(t) = n} IN
  CASE MembersAt(m, n) # {} -> Earliest(MembersAt(m, n))
    [] MembersAt(m, n) = {} /\ held # {} -> Earliest(held)
    [] OTHER -> None

\* The token that awaits a compensation is looked for where the compensation is.
CopiedWaiter(m, w) == IF w = None THEN None ELSE FoundByNode(m, Node(w))
CopiedToken(t) ==
  LET m == Owner(t)
      same == {u \in Live : Owner(u) = m /\ tokens[u].waiter # None
                              /\ FoundByNode(m, Node(u)) = t} IN
  [tokens[t] EXCEPT !.link = CopiedLink(t),
     !.waiter = IF same = {} THEN None ELSE CopiedWaiter(m, tokens[Earliest(same)].waiter)]

\* A compensation event subprocess is copied with the token of the subprocess it
\* compensates, which its state machine must still hold.
CompensablesHeld ==
  \A e \in Machines : machines[e].role = "compensation" =>
    LET parent == machines[e].parent IN
    parent \in Live /\ Owner(parent) = machines[e].host /\ tokens[parent].place = "compensable"

\* A compensation and the token awaiting it belong to the same state machine.  The
\* copies of other states are left out of the model: they fail an assertion.
AwaitedWithin ==
  /\ \A t \in Live : tokens[t].waiter \in Live => Owner(tokens[t].waiter) = Owner(t)
  /\ \A e \in Machines : machines[e].waiter \in Live =>
       Owner(machines[e].waiter) # None /\ HeldBy(machines[e].waiter) = machines[e].host

CopyState ==
  /\ AwaitedWithin
  /\ IF \/ ~CompensablesHeld
        \/ \E t \in Live : Linked(t) /\ Counterparts(t) = {}
        \/ \E t \in Live : State(t) # "DONE" /\ tokens[t].waiter \notin Live \union {None}
     THEN Abort
     ELSE /\ tokens' = [t \in Live |-> CopiedToken(t)]
          /\ machines' = [m \in Machines |-> [machines[m] EXCEPT
                            !.waiter = CopiedWaiter(machines[m].host, @)]]
          /\ UNCHANGED <<model, signals, created, commands, aborted>>

-----------------------------------------------------------------------------
\* One command of the queue.
Execute ==
  /\ commands # <<>>
  /\ LET c == Head(commands) IN
     CASE c.name = "advanceToEntered" -> AdvanceToEntered(c.for)
       [] c.name = "advanceToReady" -> AdvanceToReady(c.for)
       [] c.name = "advanceToBusy" -> AdvanceToBusy(c.for)
       [] c.name = "updateBusy" -> Moves(c.for, "BUSY", <<>>)
       [] c.name = "run" -> Run(c.for)
       [] c.name = "initiateEventSubprocesses" -> InitiateEventSubprocesses(c.for)
       [] c.name = "createMultiInstanceActivityTokens" -> CreateMultiInstanceActivityTokens(c.for)
       [] c.name = "deleteMultiInstanceActivityToken" -> DeleteMultiInstanceActivityToken(c.for)
       [] c.name = "initiateBoundaryEvents" -> InitiateBoundaryEvents(c.for)
       [] c.name = "initiateBoundaryEvent" -> InitiateBoundaryEvent(c.for, c.arg)
       [] c.name = "deleteTokensAwaitingBoundaryEvent" -> DeleteTokensAwaitingBoundaryEvent(c.arg)
       [] c.name = "interruptActivity" -> InterruptActivity(c.for)
       [] c.name = "advanceToCompleted" -> AdvanceToCompleted(c.for)
       [] c.name = "advanceFromCompleted" -> AdvanceFromCompleted(c.for)
       [] c.name = "advanceToDeparting" ->
            Moves(c.for, State(c.for), <<Command("advanceToDeparted", c.for)>>)
       [] c.name = "advanceToDeparted" -> AdvanceToDeparted(c.for)
       [] c.name = "advanceToArrived" -> AdvanceToArrived(c.for)
       [] c.name = "advanceToDone" -> AdvanceToDone(c.for)
       [] c.name = "shutdown" -> Shutdown(c.for)
       [] c.name = "deleteNonInterruptingEventSubProcess" -> DeleteNonInterruptingEventSubProcess(c.for)
       [] c.name = "deleteCompensationEventSubProcess" -> DeleteCompensationEventSubProcess(c.for)
       [] c.name = "createCompensationTokenForBoundaryEvent" ->
            CreateCompensationTokenForBoundaryEvent(c.for, c.arg)
       [] c.name = "createCompensationEventSubProcess" -> CreateCompensationEventSubProcess(c.for, c.arg)
       [] c.name = "compensateActivity" -> CompensateActivity(c.for)
       [] c.name = "completeCompensationActivity" -> CompleteCompensationActivity(c.for)
       [] c.name = "advanceToFailed" -> AdvanceToFailed(c.for)
       [] c.name = "updateFailed" -> Moves(c.for, "FAILED", <<>>)
       [] c.name = "terminate" -> Terminate(c.for)
       [] c.name = "handleFailure" -> HandleFailure(c.for)
       [] c.name = "handleEscalation" -> HandleEscalation(c.for)
       [] c.name = "deleteInstance" -> DeleteInstance(c.for)

\* Between two events no command is left.
Settled == commands = <<>> /\ ~aborted

Event(cmds) ==
  /\ Settled
  /\ commands' = cmds
  /\ UNCHANGED <<model, created, tokens, machines, aborted>>

\* The ready event of a token at an activity; that of a subprocess brings its
\* state machine, except for the main token of a multi-instance subprocess.
ReadyEvent(t) ==
  /\ Settled
  /\ State(t) = "ARRIVED" /\ Kind(t) \in Activities
  /\ IF Kind(t) = "subprocess" /\ ~MultiInstance(Node(t))
     THEN /\ created < MaxIds /\ created' = created + 1
          /\ machines' = machines @@ (NewId(1) :> NewMachine(Node(t), t, None, "main"))
          /\ tokens' = [tokens EXCEPT ![t].owned = NewId(1)]
     ELSE UNCHANGED <<created, machines, tokens>>
  /\ commands' = <<Command("advanceToReady", t)>>
  /\ UNCHANGED <<model, signals, aborted>>

EntryEvent(t) ==
  /\ State(t) = "READY" /\ Kind(t) \in Activities
  /\ Event(<<Command("advanceToEntered", t)>>)
  /\ UNCHANGED signals

CompletionEvent(t) ==
  /\ State(t) = "BUSY" /\ Kind(t) = "task"
  /\ Event(<<Command("advanceToCompleted", t)>>)
  /\ UNCHANGED signals

\* A task fails while it is being performed.
ErrorEvent(t) ==
  /\ State(t) = "BUSY" /\ Kind(t) = "task" /\ Node(t) \in model.restricted
  /\ Event(Fails(t))
  /\ UNCHANGED signals

\* A signal is broadcast to the tokens awaiting it.
SignalBroadcastEvent ==
  LET catching == {t \in Live : Kind(t) \in Signals /\ State(t) = "BUSY"}
      q == Ascending(catching) IN
  /\ catching # {} /\ signals < MaxSignals
  /\ signals' = signals + 1
  /\ Event([i \in DOMAIN q |-> Command("advanceToCompleted", q[i])])

\* Between two events a controller may have the run forked, and continue the copy.
Fork == Settled /\ CopyState

-----------------------------------------------------------------------------
\* The process instance has been made ready: its token, in the global state
\* machine, enters.
Init ==
  /\ model \in Models
  /\ signals = 0 /\ aborted = FALSE
  /\ LET process == CHOOSE n \in DOMAIN model.kind : model.kind[n] = "process" IN
     /\ created = 2
     /\ tokens = (1 :> [NewToken(process, "READY", None, None) EXCEPT !.owned = 2])
     /\ machines = (2 :> NewMachine(process, 1, None, "main"))
     /\ commands = <<Command("advanceToEntered", 1)>>

Progress == \E t \in Live : ReadyEvent(t) \/ EntryEvent(t) \/ CompletionEvent(t)

Next ==
  \/ Execute
  \/ \E t \in Live : ReadyEvent(t)
  \/ \E t \in Live : EntryEvent(t)
  \/ \E t \in Live : CompletionEvent(t)
  \/ \E t \in Live : ErrorEvent(t)
  \/ SignalBroadcastEvent
  \/ Fork

Spec == Init /\ [][Next]_vars

\* The engine executes its commands, and activities are made ready, entered and
\* completed in time.  No signal and no error need come.
FairSpec == Spec /\ WF_vars(Execute) /\ WF_vars(Progress)

-----------------------------------------------------------------------------
\* Every variable has the values its place in the code can hold.
TypeOK ==
  /\ model \in Models /\ signals \in 0..MaxSignals /\ aborted \in BOOLEAN
  /\ created \in 0..MaxIds
  /\ Live \union Machines \subseteq 1..created /\ Live \intersect Machines = {}
  /\ \A t \in Live :
       /\ Node(t) \in Nodes /\ State(t) \in States
       /\ tokens[t].place \in {"scope", "compensation", "compensable"}
       /\ tokens[t].index \in 0..Instances
       /\ {Owner(t), tokens[t].owned, tokens[t].link, tokens[t].successor, tokens[t].waiter}
            \subseteq 0..created
  /\ \A m \in Machines :
       /\ machines[m].scope \in Nodes
       /\ machines[m].role \in Running \union {"main", "compensation"}
       /\ {machines[m].parent, machines[m].host, machines[m].waiter} \subseteq 0..created

\* No assertion of the engine fails, nothing is erased that is not there, and no
\* dangling pointer is used.
NeverAborts == ~aborted

\* Whatever exists belongs to the instance, and what one token refers to exists:
\* its owner, the state machine it owns, its main token or activity, its successor,
\* and the token awaiting the compensation it performs, unless that has failed.
NothingDangles ==
  /\ \A x \in (Live \union Machines) : 1 \in Lineage(x)
  /\ \A t \in Live :
       /\ tokens[t].owned \in Machines \union {None}
       /\ {tokens[t].link, tokens[t].successor} \subseteq Live \union {None}
       /\ State(t) # "FAILED" => tokens[t].waiter \in Live \union {None}
  /\ \A m \in Machines : machines[m].waiter \in Live \union {None}

\* Between two events, every scope with a token that is not done listens to each
\* trigger of its event subprocesses exactly once, unless one of them has
\* interrupted it: then nothing else of the scope is left.
EventSubProcessesListen ==
  Settled => \A m \in Machines :
    machines[m].role = "main" =>
      IF Hosted(m, {"interrupting"}) # {}
      THEN Members(m) \union Hosted(m, {"pending", "nonInterrupting"}) = {}
      ELSE (\E t \in Members(m) : State(t) \notin {"DONE", "FAILED"}) =>
             \A n \in Range(EventSubProcesses(machines[m].scope)) :
               Cardinality({t \in Live : /\ Owner(t) \in Hosted(m, {"pending"})
                                         /\ Node(t) = StartOf(n) /\ State(t) = "BUSY"}) = 1

\* A compensation has failed, or its event subprocess is about to be deleted.
IsOver(x) ==
  \/ \E t \in Live : State(t) = "FAILED" /\ (IF x \in Live THEN t = x ELSE Owner(t) = x)
  \/ x \in Machines /\ Members(x) # {} /\ \A t \in Members(x) : State(t) = "DONE"

\* The compensations of a scope that have been triggered and are not over, by the
\* number of the token or of the event subprocess, and those under way.
Triggered(m) ==
  {x \in {t \in Live : Owner(t) = m /\ tokens[t].waiter # None}
           \union {e \in Hosted(m, {"compensation"}) : machines[e].waiter # None} : ~IsOver(x)}
UnderWay(m) ==
  {x \in Triggered(m) : IF x \in Live THEN tokens[x].place = "scope"
                        ELSE ~\E t \in Compensations(m) : Owner(t) = x}

\* What has completed in a scope is compensated one after the other, in reverse
\* order: of the compensations triggered at most one is under way, the last.
CompensationsReversed ==
  \A m \in Machines :
    /\ Cardinality(UnderWay(m)) <= 1
    /\ \A x \in UnderWay(m), y \in Triggered(m) : y <= x

\* A scope that was failing has failed only when none of what completed within
\* it remains to be compensated, unless a compensation has failed, and a compensate throw event has completed
\* only when all it triggered has been compensated.
WaitsForCompensation ==
  [][\A t \in Live : t \in DOMAIN tokens' =>
       /\ (/\ State(t) = "FAILING" /\ tokens'[t].state = "FAILED"
           /\ tokens[t].owned # None) =>
            Compensations(tokens[t].owned) \union Triggered(tokens[t].owned) = {}
       /\ Kind(t) = "compensateThrow" /\ State(t) = "BUSY" /\ tokens'[t].state = "COMPLETED" =>
            ~\E u \in Live : tokens[u].waiter = t]_vars

\* The main token of a multi-instance activity waits for as many instances as
\* there are: those completed and those active; of a sequential activity, one
\* instance at most is past its creation, and the others follow it.
InstancesExact ==
  \A t \in Live : State(t) = "WAITING" =>
    /\ tokens[t].index + Cardinality(ActiveInstances(t)) = Instances
    /\ ActiveInstances(t) # {} \/ (\E c \in Range(commands) : c.for = t)
    /\ Loop(Node(t)) = "sequential" =>
         Cardinality({i \in ActiveInstances(t) : State(i) # "CREATED"}) <= 1

\* Every instance of the process comes to its end.
EventuallyOver == <>(Live = {} \/ aborted)
=============================================================================
