----------------------------- MODULE MCEngineRun -----------------------------
(***************************************************************************)
(* EngineRun for TLC, and a run that is forked between any two rounds.     *)
(***************************************************************************)
EXTENDS EngineRun

\* A caller advancing the run itself reads its state between any two rounds,
\* and not only when the controller is asked.
ForkBetweenRounds == run = "running" /\ InstallState

AnyForkSpec == Init /\ [][Next \/ ForkBetweenRounds]_vars

\* What Engine::initializeSystemState and StaticDataProvider::notice say of an
\* installed state: it holds every instance known up to its time, so that an
\* instance it does not hold is still to be instantiated.
NoInstanceLost ==
  run # "new" => \A i \in Instances :
    phase[i] = "declared" =>
      \/ \E k \in 1..Len(queue) : queue[k] = Instantiation(i)
      \/ \E d \in Instants : Instantiation(i) \in scheduled[d]
=============================================================================
