------------------------------ MODULE Timetable ------------------------------
(***************************************************************************)
(* What a run promises of time, without queue, calendar or stale events:   *)
(* every instance waits for one thing at a time, what it waits for happens *)
(* neither before it is due nor after the clock has left the instant it is *)
(* due at, and alarms interrupt at their instant.                          *)
(***************************************************************************)
EXTENDS Integers

CONSTANTS Instances, StartTime, EndTime, Horizon

Lowest == -1
Never == Horizon + 1

VARIABLES
  run,     \* "new", "running" or "ended"
  now,
  due,     \* when what an instance waits for is due; Never if it waits for a
           \* decision or for nothing
  alarm,   \* when the instance is interrupted
  left     \* steps an instance has left at most

tvars == <<run, now, due, alarm, left>>
Times == 0..Never

Start ==
  /\ run = "new"
  /\ run' = "running" /\ now' = StartTime
  /\ UNCHANGED <<due, alarm, left>>

\* What an instance waits for happens once it is due, and brings it closer to
\* its end; the alarm of the step it leaves is cancelled.
Happen(i) ==
  /\ run = "running"
  /\ due[i] <= now
  /\ left[i] > 0
  /\ left' = [left EXCEPT ![i] = @ - 1]
  /\ \E d \in Times : due' = [due EXCEPT ![i] = d]
  /\ alarm' = [alarm EXCEPT ![i] = Never]
  /\ UNCHANGED <<run, now>>

Settled == \A i \in Instances : due[i] > now

\* A decision is taken only when nothing is due.
Decide(i) ==
  /\ run = "running" /\ Settled
  /\ due[i] = Never /\ left[i] > 0
  /\ left' = [left EXCEPT ![i] = @ - 1]
  /\ \E d \in now..Horizon, a \in (now + 1)..Never :
       /\ due' = [due EXCEPT ![i] = d]
       /\ alarm' = [alarm EXCEPT ![i] = a]
  /\ UNCHANGED <<run, now>>

\* A signal ends any number of instances at once.
Cancel ==
  /\ run = "running" /\ Settled
  /\ \E S \in SUBSET Instances :
       /\ left' = [i \in Instances |-> IF i \in S THEN 0 ELSE left[i]]
       /\ due' = [i \in Instances |-> IF i \in S THEN Never ELSE due[i]]
       /\ alarm' = [i \in Instances |-> IF i \in S THEN Never ELSE alarm[i]]
  /\ UNCHANGED <<run, now>>

\* Time leaves an instant only when nothing due at it remains, and alarms of
\* the next instant, and no other, interrupt as time enters it.
Pass ==
  /\ run = "running" /\ Settled
  /\ now < EndTime
  /\ now' = now + 1
  /\ \A i \in Instances :
       IF alarm[i] = now + 1
       THEN /\ alarm'[i] = Never /\ due'[i] \in Times /\ left'[i] < left[i]
       ELSE /\ alarm'[i] = alarm[i] /\ due'[i] = due[i] /\ left'[i] = left[i]
  /\ UNCHANGED run

\* The run ends at its end time or with nothing left, nothing due remaining.
End ==
  /\ run = "running" /\ Settled
  /\ now >= EndTime \/ \A i \in Instances : left[i] = 0
  /\ run' = "ended"
  /\ UNCHANGED <<now, due, alarm, left>>

TNext == Start \/ Cancel \/ Pass \/ End \/ \E i \in Instances : Happen(i) \/ Decide(i)

TInit ==
  /\ run = "new" /\ now = Lowest
  /\ alarm = [i \in Instances |-> Never]
  /\ due \in [Instances -> Times]

TSpec == TInit /\ [][TNext]_tvars
=============================================================================
