----------------------------- MODULE MCTokenFlow -----------------------------
(***************************************************************************)
(* Process models for TokenFlow.  The nodes of a model are given by scope, *)
(* as functions from a node to its kind and to the targets of its flows.   *)
(***************************************************************************)
EXTENDS TokenFlow, TLC

Flows(kinds, out) ==
  [n \in DOMAIN kinds |-> IF n \in DOMAIN out THEN out[n] ELSE <<>>]

InScopes(kinds, inner) ==
  [n \in DOMAIN kinds |-> IF kinds[n] = "process" THEN "-"
                          ELSE IF n \in DOMAIN inner THEN inner[n] ELSE "P"]

Process(kinds, inner, out, boundary, interrupting, restricted) ==
  [kind |-> kinds, scope |-> InScopes(kinds, inner), out |-> Flows(kinds, out),
   boundary |-> boundary, interrupting |-> interrupting, restricted |-> restricted]

NoNodes == [n \in {} |-> {}]

\* An inclusive split of a timer, a task and a task followed by another
\* inclusive split and join, all of them joined; the signal thrown is caught
\* by nobody.
InclusiveModel ==
  Process(("P" :> "process" @@ "s" :> "start" @@ "split" :> "inclusive"
             @@ "timer" :> "timerCatch" @@ "task" :> "task" @@ "inner" :> "inclusive"
             @@ "a" :> "signalThrow" @@ "b" :> "timerCatch" @@ "innerJoin" :> "inclusive"
             @@ "join" :> "inclusive" @@ "e" :> "end"),
          NoNodes,
          ("s" :> <<"split">> @@ "split" :> <<"timer", "task", "inner">>
             @@ "timer" :> <<"join">> @@ "task" :> <<"join">>
             @@ "inner" :> <<"a", "b">> @@ "a" :> <<"innerJoin">> @@ "b" :> <<"innerJoin">>
             @@ "innerJoin" :> <<"join">> @@ "join" :> <<"e">>),
          NoNodes, {}, {})

\* A parallel split and join, one branch with an exclusive choice, the other
\* with an event-based gateway awaiting a timer, a later timer or a signal.
EventModel ==
  Process(("P" :> "process" @@ "s" :> "start" @@ "fork" :> "parallel"
             @@ "choice" :> "exclusive" @@ "x" :> "task" @@ "y" :> "signalThrow"
             @@ "merge" :> "exclusive" @@ "event" :> "eventBased" @@ "t1" :> "timerCatch"
             @@ "t2" :> "timerCatch" @@ "sig" :> "signalCatch" @@ "after" :> "exclusive"
             @@ "join" :> "parallel" @@ "e" :> "end"),
          NoNodes,
          ("s" :> <<"fork">> @@ "fork" :> <<"choice", "event">> @@ "choice" :> <<"x", "y">>
             @@ "x" :> <<"merge">> @@ "y" :> <<"merge">> @@ "merge" :> <<"join">>
             @@ "event" :> <<"t1", "t2", "sig">> @@ "t1" :> <<"after">> @@ "t2" :> <<"after">>
             @@ "sig" :> <<"after">> @@ "after" :> <<"join">> @@ "join" :> <<"e">>),
          NoNodes, {}, {})

\* A subprocess with an error, a timer and a non-interrupting signal boundary
\* event around a task that may fail and another subprocess.
ScopeModel ==
  Process(("P" :> "process" @@ "s" :> "start" @@ "sub" :> "subprocess" @@ "e" :> "end"
             @@ "error" :> "errorBoundary" @@ "late" :> "timerBoundary"
             @@ "notice" :> "signalBoundary" @@ "e1" :> "end" @@ "e2" :> "errorEnd"
             @@ "e3" :> "end"
             @@ "s'" :> "start" @@ "task" :> "task" @@ "deep" :> "subprocess" @@ "e'" :> "end"
             @@ "s''" :> "start" @@ "wait" :> "timerCatch" @@ "e''" :> "end"),
          ("s'" :> "sub" @@ "task" :> "sub" @@ "deep" :> "sub" @@ "e'" :> "sub"
             @@ "s''" :> "deep" @@ "wait" :> "deep" @@ "e''" :> "deep"),
          ("s" :> <<"sub">> @@ "sub" :> <<"e">> @@ "error" :> <<"e1">> @@ "late" :> <<"e2">>
             @@ "notice" :> <<"e3">>
             @@ "s'" :> <<"task">> @@ "task" :> <<"deep">> @@ "deep" :> <<"e'">>
             @@ "s''" :> <<"wait">> @@ "wait" :> <<"e''">>),
          "sub" :> <<"error", "late", "notice">>, {"error", "late"}, {"task", "wait"})

SoundModels == {InclusiveModel, EventModel, ScopeModel}

\* A parallel join with an incoming flow from a non-interrupting boundary
\* event, which may be triggered more than once.
JoinModels ==
  {Process(("P" :> "process" @@ "s" :> "start" @@ "fork" :> "parallel" @@ "a" :> "task"
              @@ "b" :> "task" @@ "notice" :> "signalBoundary" @@ "join" :> "parallel"
              @@ "e" :> "end" @@ "e1" :> "end"),
           NoNodes,
           ("s" :> <<"fork">> @@ "fork" :> <<"a", "b">> @@ "a" :> <<"e1">>
              @@ "b" :> <<"join">> @@ "notice" :> <<"join">> @@ "join" :> <<"e">>),
           "a" :> <<"notice">>, {}, {})}

\* A subprocess in which two tokens fail at once.
FailureModels ==
  {Process(("P" :> "process" @@ "s" :> "start" @@ "sub" :> "subprocess" @@ "e" :> "end"
              @@ "s'" :> "start" @@ "fork" :> "parallel" @@ "x" :> "errorEnd"
              @@ "y" :> "errorEnd"),
           ("s'" :> "sub" @@ "fork" :> "sub" @@ "x" :> "sub" @@ "y" :> "sub"),
           ("s" :> <<"sub">> @@ "sub" :> <<"e">> @@ "s'" :> <<"fork">> @@ "fork" :> <<"x", "y">>),
           NoNodes, {}, {})}

\* A subprocess that completes while the signal of its non-interrupting
\* boundary event is thrown beside it.
SignalModels ==
  {Process(("P" :> "process" @@ "s" :> "start" @@ "fork" :> "parallel"
              @@ "sub" :> "subprocess" @@ "notice" :> "signalBoundary" @@ "e1" :> "end"
              @@ "timer" :> "timerCatch" @@ "pass" :> "exclusive" @@ "throw" :> "signalThrow"
              @@ "e2" :> "end" @@ "e3" :> "end"
              @@ "s'" :> "start" @@ "wait" :> "timerCatch" @@ "e'" :> "end"),
           ("s'" :> "sub" @@ "wait" :> "sub" @@ "e'" :> "sub"),
           ("s" :> <<"fork">> @@ "fork" :> <<"sub", "timer">> @@ "sub" :> <<"e1">>
              @@ "timer" :> <<"pass">> @@ "pass" :> <<"throw">> @@ "throw" :> <<"e2">>
              @@ "notice" :> <<"e3">> @@ "s'" :> <<"wait">> @@ "wait" :> <<"e'">>),
           "sub" :> <<"notice">>, {}, {})}
=============================================================================
