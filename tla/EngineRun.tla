------------------------------ MODULE EngineRun ------------------------------
(***************************************************************************)
(* The run of the engine: the rounds of Engine::advance, the event queue   *)
(* of the environment, and the calendar of events a static or dynamic data *)
(* provider keeps for a scenario.  A round is one action: the engine is    *)
(* single-threaded and drains its commands before it asks for an event.    *)
(*                                                                         *)
(* The work of an instance is abstracted to what gives rise to events: the *)
(* token at the process awaits its ready event, then one activity token    *)
(* at a time awaits a ready event, an entry decision and a completion      *)
(* event, and an interrupting timer boundary event may replace it.  Every  *)
(* instance also listens, with an interrupting event subprocess, for the   *)
(* one signal the environment of the run may broadcast.                    *)
(*                                                                         *)
(* Times are the integral instants the clock ticks through; an event due   *)
(* between two instants is due at the later one.  The order among events   *)
(* falling due at one instant is left open.                                *)
(***************************************************************************)
EXTENDS Integers, Sequences, FiniteSets

CONSTANTS
  NumInstances,    \* number of instances in the instance data
  NumActivities,   \* number of activities a token of an instance passes
  StartTime,       \* first instant of the run
  EndTime,         \* end time of the data provider
  Horizon          \* bound: no time given or computed lies beyond it

ASSUME RunAssumption ==
  /\ NumInstances \in Nat
  /\ NumActivities \in Nat \ {0}
  /\ StartTime \in Nat
  /\ EndTime \in Nat
  /\ Horizon \in Nat
  /\ StartTime <= EndTime
  /\ EndTime <= Horizon

Instances == 1..NumInstances
Activities == 1..NumActivities
Instants == 0..Horizon
Lowest == -1            \* numeric_limits::lowest(), the time of a run not begun
Never == Horizon + 1    \* later than any time: no timer is armed

Phases == {"declared", "created", "arrived", "ready", "busy", "gone"}

\* The event's token: 0 is the token at the process, the others are the
\* activity tokens of the instance, numbered in the order they come into being.
Event == [kind : {"instantiation", "ready", "completion"},
          instance : Instances, token : Nat]

InstanceData == [known : Instants, instantiation : Instants,
                 disclosure : [Activities -> Instants]]

VARIABLES
  data,        \* the instance data, fixed for the run
  run,         \* "new", "running" or "ended"
  now,         \* SystemState::currentTime
  phase,       \* progress of each instance
  at,          \* activity its token is at
  token,       \* the activity token alive, or the last one
  expected,    \* timestamp of the status of a busy token
  alarm,       \* trigger time in tokensAwaitingTimer, or Never
  queue,       \* Environment::enqueuedEvents
  scheduled    \* Scenario::scheduledEvents, by the instant they are due

work == <<phase, at, token, expected, alarm>>
vars == <<data, run, now, phase, at, token, expected, alarm, queue, scheduled>>

-----------------------------------------------------------------------------
Instantiation(i) == [kind |-> "instantiation", instance |-> i, token |-> 0]
Ready(i, t) == [kind |-> "ready", instance |-> i, token |-> t]
Completion(i, t) == [kind |-> "completion", instance |-> i, token |-> t]

ProcessReadyTime(i) ==
  IF data[i].known > data[i].instantiation THEN data[i].known
                                           ELSE data[i].instantiation

Awaiting == {i \in Instances : phase[i] \in {"declared", "created", "arrived", "busy"}}

\* The event an instance awaits, and the time at which it becomes due.
Awaited(i) ==
  CASE phase[i] = "declared" -> Instantiation(i)
    [] phase[i] = "created"  -> Ready(i, 0)
    [] phase[i] = "arrived"  -> Ready(i, token[i])
    [] OTHER                 -> Completion(i, token[i])

DueTime(i) ==
  CASE phase[i] = "declared" -> data[i].known
    [] phase[i] = "created"  -> ProcessReadyTime(i)
    [] phase[i] = "arrived"  -> data[i].disclosure[at[i]]
    [] OTHER                 -> expected[i]

\* Mutant of Expired: an event is taken for stale with its instance only.
ExpiredWithInstance(e) ==
  e.kind # "instantiation" /\ phase[e.instance] = "gone"

\* An event is stale once the token it concerns no longer exists.
Expired(e) ==
  /\ e.kind # "instantiation"
  /\ IF e.token = 0
     THEN phase[e.instance] = "gone"
     ELSE \/ token[e.instance] # e.token
          \/ phase[e.instance] = "gone"

\* The sequences holding every element of a set once.
Orderings(S) ==
  {q \in [1..Cardinality(S) -> S] :
     /\ \A e \in S : \E j \in DOMAIN q : q[j] = e
     /\ \A j, k \in DOMAIN q : q[j] = q[k] => j = k}

\* Mutant of FirstLive: an expired event at the front is not skipped.
FrontOnly == {k \in 1..Len(queue) : k = 1 /\ ~Expired(queue[k])}

\* The position of the event dequeueEvent returns; expired ones before it go.
FirstLive ==
  {k \in 1..Len(queue) : /\ ~Expired(queue[k])
                         /\ \A j \in 1..(k - 1) : Expired(queue[j])}

\* Mutant of After: the event is read without being removed.
From(k) == SubSeq(queue, k, Len(queue))

After(k) == SubSeq(queue, k + 1, Len(queue))

\* The environment supplies no event at the current time: the dispatchers of
\* the controller are asked, then the environment is asked to advance.
AtDecision == run = "running" /\ FirstLive = {}

\* Mutant of Plan: an event due right now is taken for one due later.
PlanStrictly(rest, e, due) ==
  IF due < now
  THEN queue' = Append(rest, e) /\ UNCHANGED scheduled
  ELSE queue' = rest /\ scheduled' = [scheduled EXCEPT ![due] = @ \union {e}]

\* An event due is enqueued behind the rest, any other is scheduled.
Plan(rest, e, due) ==
  IF due <= now
  THEN queue' = Append(rest, e) /\ UNCHANGED scheduled
  ELSE queue' = rest /\ scheduled' = [scheduled EXCEPT ![due] = @ \union {e}]

-----------------------------------------------------------------------------
DataOK ==
  \A i \in Instances :
    /\ \A a \in Activities : data[i].disclosure[a] >= data[i].known
    /\ StartTime <= ProcessReadyTime(i)

Init ==
  /\ data \in [Instances -> InstanceData]
  /\ DataOK
  /\ run = "new"
  /\ now = Lowest
  /\ phase = [i \in Instances |-> "declared"]
  /\ at = [i \in Instances |-> 1]
  /\ token = [i \in Instances |-> 0]
  /\ expected = [i \in Instances |-> 0]
  /\ alarm = [i \in Instances |-> Never]
  /\ queue = <<>>
  /\ scheduled = [d \in Instants |-> {}]

\* The installed state is announced at the lowest time, so that every
\* instantiation is scheduled, and the opening tick releases those due.
Initialize ==
  /\ run = "new"
  /\ run' = "running"
  /\ now' = StartTime
  /\ queue' \in Orderings({Instantiation(i) : i \in
                             {j \in Instances : data[j].known <= StartTime}})
  /\ scheduled' = [d \in Instants |->
                     {Instantiation(i) : i \in
                        {j \in Instances : data[j].known = d /\ d > StartTime}}]
  /\ UNCHANGED <<data, work>>

ProcessInstantiation ==
  \E k \in FirstLive :
    LET i == queue[k].instance IN
    /\ run = "running"
    /\ queue[k].kind = "instantiation"
    /\ phase' = [phase EXCEPT ![i] = "created"]
    /\ Plan(After(k), Ready(i, 0), ProcessReadyTime(i))
    /\ UNCHANGED <<data, run, now, at, token, expected, alarm>>

\* The instance is started and its token arrives at the first activity.
ProcessReadyOfProcess ==
  \E k \in FirstLive :
    LET i == queue[k].instance IN
    /\ run = "running"
    /\ queue[k].kind = "ready" /\ queue[k].token = 0
    /\ phase' = [phase EXCEPT ![i] = "arrived"]
    /\ token' = [token EXCEPT ![i] = 1]
    /\ Plan(After(k), Ready(i, 1), data[i].disclosure[at[i]])
    /\ UNCHANGED <<data, run, now, at, expected, alarm>>

ProcessReadyOfActivity ==
  \E k \in FirstLive :
    LET i == queue[k].instance IN
    /\ run = "running"
    /\ queue[k].kind = "ready" /\ queue[k].token # 0
    /\ phase' = [phase EXCEPT ![i] = "ready"]
    /\ queue' = After(k)
    /\ UNCHANGED <<data, run, now, at, token, expected, alarm, scheduled>>

\* The token moves on to the next activity, whose ready event is planned.
MoveOn(i, k) ==
  /\ at[i] < NumActivities
  /\ phase' = [phase EXCEPT ![i] = "arrived"]
  /\ at' = [at EXCEPT ![i] = @ + 1]
  /\ Plan(After(k), Ready(i, token[i]), data[i].disclosure[at[i] + 1])

\* Mutant of Finish: the token leaves the last activity on no sequence flow.
FinishMovingOn(i, k) ==
  /\ at[i] = NumActivities
  /\ phase' = [phase EXCEPT ![i] = "arrived"]
  /\ at' = [at EXCEPT ![i] = @ + 1]
  /\ queue' = After(k)
  /\ UNCHANGED scheduled

\* The instance ends and its token is removed.
Finish(i, k) ==
  /\ at[i] = NumActivities
  /\ phase' = [phase EXCEPT ![i] = "gone"]
  /\ queue' = After(k)
  /\ UNCHANGED <<at, scheduled>>

\* Mutant of RemoveTimer: the token at the boundary event keeps waiting.
KeepTimer(i) == UNCHANGED alarm

\* The tokens at the boundary events of a completed activity are removed.
RemoveTimer(i) == alarm' = [alarm EXCEPT ![i] = Never]

ProcessCompletion ==
  \E k \in FirstLive :
    LET i == queue[k].instance IN
    /\ run = "running"
    /\ queue[k].kind = "completion"
    /\ RemoveTimer(i)
    /\ MoveOn(i, k) \/ Finish(i, k)
    /\ UNCHANGED <<data, run, now, token, expected>>

\* A dispatcher of the controller supplies an entry decision: the task becomes
\* busy until the timestamp its operators give, and its boundary timer is armed.
DecideEntry(i) ==
  /\ AtDecision
  /\ phase[i] = "ready"
  /\ phase' = [phase EXCEPT ![i] = "busy"]
  /\ \E due \in now..Horizon, trigger \in (now + 1)..Never :
       /\ expected' = [expected EXCEPT ![i] = due]
       /\ alarm' = [alarm EXCEPT ![i] = trigger]
       /\ Plan(<<>>, Completion(i, token[i]), due)
  /\ UNCHANGED <<data, run, now, at, token>>

\* A dispatcher supplies the signal interrupting every started instance.
BroadcastSignal ==
  /\ AtDecision
  /\ LET hit == {i \in Instances : phase[i] \in {"arrived", "ready", "busy"}} IN
       /\ phase' = [i \in Instances |-> IF i \in hit THEN "gone" ELSE phase[i]]
       /\ alarm' = [i \in Instances |-> IF i \in hit THEN Never ELSE alarm[i]]
  /\ queue' = <<>>
  /\ UNCHANGED <<data, run, now, at, token, expected, scheduled>>

\* Mutant of Ending: what is scheduled is forgotten.
EndingIdle ==
  now >= EndTime \/ \A i \in Instances : phase[i] \in {"declared", "gone"}

\* No instance is left and nothing is scheduled, or the end time is reached.
Ending ==
  \/ now >= EndTime
  \/ /\ \A i \in Instances : phase[i] \in {"declared", "gone"}
     /\ \A d \in Instants : scheduled[d] = {}

\* Mutant of Unreleased: the released entries are not erased.
KeptAfterRelease(t) == scheduled

\* What remains scheduled once the events due at an instant are released.
Unreleased(t) == [scheduled EXCEPT ![t] = {}]

\* The events due at an instant: a ready event is built when it becomes due,
\* and not at all if its token no longer exists.
Released(t) == {e \in scheduled[t] : e.kind = "ready" => ~Expired(e)}

\* The clock tick is announced, which releases the events due, and then
\* processed, which triggers the timers due: a triggered timer withdraws the
\* busy token, and the token at the boundary event takes its place.
ClockTick ==
  /\ AtDecision
  /\ ~Ending
  /\ LET t == now + 1
         hit == {i \in Instances : alarm[i] <= t}
         moving == {i \in hit : at[i] < NumActivities}
         due(i) == data[i].disclosure[at[i] + 1]
         arrival(i) == Ready(i, token[i] + 1)
     IN
     /\ now' = t
     /\ phase' = [i \in Instances |->
                    IF i \in moving THEN "arrived"
                    ELSE IF i \in hit THEN "gone" ELSE phase[i]]
     /\ at' = [i \in Instances |-> IF i \in moving THEN at[i] + 1 ELSE at[i]]
     /\ token' = [i \in Instances |-> IF i \in hit THEN token[i] + 1 ELSE token[i]]
     /\ alarm' = [i \in Instances |-> IF i \in hit THEN Never ELSE alarm[i]]
     /\ \E released \in Orderings(Released(t)),
           arrived \in Orderings({arrival(i) : i \in {j \in moving : due(j) <= t}}) :
          queue' = released \o arrived
     /\ scheduled' = [d \in Instants |->
                        Unreleased(t)[d] \union
                          {arrival(i) : i \in {j \in moving : due(j) = d /\ d > t}}]
  /\ UNCHANGED <<data, run, expected>>

Terminate ==
  /\ AtDecision
  /\ Ending
  /\ run' = "ended"
  /\ queue' = <<>>
  /\ UNCHANGED <<data, now, work, scheduled>>

\* Mutant of Recovered: the busy tokens of an installed state are overlooked.
RecoveredReady ==
  {i \in Awaiting : \/ phase[i] \in {"created", "arrived"}
                    \/ phase[i] = "declared" /\ data[i].known > now}

\* What the data provider plans on being told of an installed state: the
\* instances it does not yet hold, and the events its tokens await.
Recovered == {i \in Awaiting : phase[i] # "declared" \/ data[i].known > now}
RebuiltSchedule ==
  [d \in Instants |-> {Awaited(i) : i \in {j \in Recovered : DueTime(j) = d /\ d > now}}]
RebuiltQueue == {Awaited(i) : i \in {j \in Recovered : DueTime(j) <= now}}

\* The run continues on a deep copy of its own state, installed with a fork of
\* its scenario by a controller that was asked for a decision.
InstallState ==
  /\ queue' \in Orderings(RebuiltQueue)
  /\ scheduled' = RebuiltSchedule
  /\ UNCHANGED <<data, run, now, work>>

Fork == AtDecision /\ InstallState

ProcessEvent ==
  \/ ProcessInstantiation
  \/ ProcessReadyOfProcess
  \/ ProcessReadyOfActivity
  \/ ProcessCompletion

Next ==
  \/ Initialize
  \/ ProcessEvent
  \/ \E i \in Instances : DecideEntry(i)
  \/ BroadcastSignal
  \/ ClockTick
  \/ Terminate
  \/ Fork

Spec == Init /\ [][Next]_vars

\* Engine::loop performs round after round, and time advances as the wall clock
\* does; controllers and callers owe the run nothing.
FairSpec == Spec /\ WF_vars(Initialize \/ ProcessEvent \/ ClockTick \/ Terminate)

-----------------------------------------------------------------------------
\* Types of all variables.
TypeOK ==
  /\ data \in [Instances -> InstanceData]
  /\ run \in {"new", "running", "ended"}
  /\ now \in {Lowest} \union Instants
  /\ phase \in [Instances -> Phases]
  /\ at \in [Instances -> Activities]
  /\ token \in [Instances -> Nat]
  /\ expected \in [Instances -> Instants]
  /\ alarm \in [Instances -> Instants \union {Never}]
  /\ queue \in Seq(Event)
  /\ scheduled \in [Instants -> SUBSET Event]

\* Where an event is held: positions of the queue, instants of the calendar.
Held(e) ==
  [queued |-> {k \in 1..Len(queue) : queue[k] = e},
   planned |-> {d \in Instants : e \in scheduled[d]}]

\* Every instance waiting for the environment has its event held exactly once,
\* in the queue or in the calendar, through interruption, tick and fork: a
\* missing one is a token stuck for good, a second one an event processed twice.
AwaitedHeldOnce ==
  run # "new" =>
    \A i \in Awaiting :
      LET h == Held(Awaited(i)) IN
      Cardinality(h.queued) + Cardinality(h.planned) = 1

\* No other event that is held could be dispatched: what an interruption, a
\* signal or a decision made obsolete is expired wherever it is still held.
\* In particular the completion of an interrupted task never reaches the next.
OthersExpired ==
  /\ \A k \in 1..Len(queue) :
       \/ Expired(queue[k])
       \/ queue[k].instance \in Awaiting /\ queue[k] = Awaited(queue[k].instance)
  /\ \A d \in Instants : \A e \in scheduled[d] :
       \/ Expired(e)
       \/ e.instance \in Awaiting /\ e = Awaited(e.instance) /\ d = DueTime(e.instance)

\* What is scheduled and which timers are armed lies strictly ahead of the
\* clock: nothing due is left behind in the calendar when time passes it.
CalendarAhead ==
  run # "new" =>
    /\ \A d \in Instants : scheduled[d] # {} => d > now
    /\ \A i \in Instances : alarm[i] > now

\* The controller is asked, time advances and the run ends only when all that
\* is due at the current time has been processed.
NothingDueAtDecision ==
  AtDecision \/ run = "ended" => \A i \in Awaiting : DueTime(i) > now

\* A run stops before its end time only with every instance complete, and then
\* having instantiated every instance of the data.
EndedComplete ==
  run = "ended" /\ now < EndTime => \A i \in Instances : phase[i] = "gone"

\* Installing a copy of the state a controller was shown plans exactly what the
\* run still has to come: a fork differs at most in entries already expired.
ForkAgrees ==
  AtDecision =>
    /\ RebuiltQueue = {}
    /\ \A d \in Instants : RebuiltSchedule[d] = {e \in scheduled[d] : ~Expired(e)}

\* Steps an instance has left: two before its first activity, and three at
\* each activity, of which those of the current one may already be done.
StepsLeft(i) ==
  LET rest == 3 * (NumActivities - at[i]) IN
  CASE phase[i] = "declared" -> rest + 5
    [] phase[i] = "created"  -> rest + 4
    [] phase[i] = "arrived"  -> rest + 3
    [] phase[i] = "ready"    -> rest + 2
    [] phase[i] = "busy"     -> rest + 1
    [] OTHER                 -> 0

\* What the run promises of time is read off the instances alone.
DueTimes == [i \in Instances |-> IF i \in Awaiting THEN DueTime(i) ELSE Never]
StepCounts == [i \in Instances |-> StepsLeft(i)]

Abstract == INSTANCE Timetable WITH due <- DueTimes, left <- StepCounts

\* The run, its queue, calendar, stale events and forks included, implements
\* the timetable: nothing awaited happens early, late, twice or never.
ImplementsTimetable == Abstract!TSpec

\* Every run is eventually terminated, whatever controllers decide or leave.
EventuallyEnds == <>(run = "ended")

\* What DataProvider.h says of the fork of a run whose future is certain: it
\* cannot differ from the run.  In particular it ends where the run ends.
ForkEndsWithRun ==
  AtDecision /\ now < EndTime =>
    (Ending <=> /\ \A i \in Instances : phase[i] \in {"declared", "gone"}
                /\ \A d \in Instants : RebuiltSchedule[d] = {})
=============================================================================
