--------------------------- MODULE MCScopeLifecycle ---------------------------
(***************************************************************************)
(* Process models for ScopeLifecycle.  A model is given by the kinds of    *)
(* its nodes, the scopes of those not in the process, the sequence flows   *)
(* and whatever else is not empty.                                         *)
(***************************************************************************)
EXTENDS ScopeLifecycle

Empty == [n \in {} |-> {}]

Process(kinds, inner, flows, more) ==
  LET full == more @@ [loop |-> Empty, boundary |-> Empty, eventSubProcesses |-> Empty,
                       attachedTo |-> Empty, compensatedBy |-> Empty, compensates |-> Empty,
                       interrupting |-> {}, restricted |-> {}]
  IN full @@
     [kind |-> kinds,
      scope |-> [n \in DOMAIN kinds |-> IF kinds[n] = "process" THEN NoNode
                                        ELSE IF n \in DOMAIN inner THEN inner[n] ELSE "P"],
      next |-> [n \in DOMAIN kinds |-> IF n \in DOMAIN flows THEN <<flows[n]>> ELSE <<>>]]

\* A parallel multi-instance task that may fail, with an interrupting signal
\* boundary event that may fail itself, in a process with an interrupting event
\* subprocess catching errors.
ParallelModel ==
  Process("P" :> "process" @@ "s" :> "start" @@ "a" :> "task" @@ "e" :> "end"
            @@ "cancel" :> "signalBoundary" @@ "x" :> "end" @@ "after" :> "errorEnd"
            @@ "E" :> "eventSubProcess" @@ "error" :> "errorStart" @@ "h" :> "task",
          "error" :> "E" @@ "h" :> "E",
          "s" :> "a" @@ "a" :> "e" @@ "cancel" :> "after" @@ "error" :> "h",
          [loop |-> "a" :> "parallel", boundary |-> "a" :> <<"cancel">>,
           eventSubProcesses |-> "P" :> <<"E">>, interrupting |-> {"cancel", "error"},
           restricted |-> {"a", "cancel"}])

\* A sequential multi-instance subprocess throwing an escalation, caught by a
\* non-interrupting boundary event, and failing into an error boundary event.
SequentialModel ==
  Process("P" :> "process" @@ "s" :> "start" @@ "a" :> "subprocess" @@ "e" :> "end"
            @@ "notice" :> "escalationBoundary" @@ "n" :> "end"
            @@ "error" :> "errorBoundary" @@ "x" :> "end"
            @@ "s'" :> "start" @@ "w" :> "task" @@ "raise" :> "escalationThrow" @@ "e'" :> "end",
          "s'" :> "a" @@ "w" :> "a" @@ "raise" :> "a" @@ "e'" :> "a",
          "s" :> "a" @@ "a" :> "e" @@ "notice" :> "n" @@ "error" :> "x"
            @@ "s'" :> "w" @@ "w" :> "raise" @@ "raise" :> "e'",
          [loop |-> "a" :> "sequential", boundary |-> "a" :> <<"notice", "error">>,
           interrupting |-> {"error"}, restricted |-> {"w", "s'"}])

\* A looping task beside which a non-interrupting event subprocess is triggered
\* again and again, in a subprocess that ends, throws an escalation, or fails.
\* Then an interrupting event subprocess of it is triggered while the other one
\* listens and runs.
LoopModels ==
  LET Looping(i, extra, then, more) ==
        Process("P" :> "process" @@ "s" :> "start" @@ "sub" :> "subprocess" @@ "e" :> "end"
                  @@ "s'" :> "start" @@ "a" :> "task" @@ "e'" :> "end"
                  @@ "N" :> "eventSubProcess" @@ "signal" :> "signalStart" @@ "b" :> "task"
                  @@ "I" :> "eventSubProcess" @@ "i" :> i @@ "c" :> "task" @@ extra,
                [n \in {"s'", "a", "e'", "N", "I"} \union DOMAIN extra |-> "sub"]
                  @@ "signal" :> "N" @@ "b" :> "N" @@ "i" :> "I" @@ "c" :> "I",
                "s" :> "sub" @@ "sub" :> "e" @@ "s'" :> "a" @@ "signal" :> "b" @@ "i" :> "c" @@ then,
                [loop |-> "a" :> "standard", eventSubProcesses |-> "sub" :> <<"N", "I">>,
                 interrupting |-> {"i"}, restricted |-> {"c"} \union more]) IN
  {Looping("escalationStart", Empty, "a" :> "e'", {}),
   Looping("escalationStart", "raise" :> "escalationThrow", "a" :> "raise" @@ "raise" :> "e'", {}),
   Looping("errorStart", Empty, "a" :> "e'", {"a"})}

\* Two tasks with compensation activities, one of which may fail, followed by a
\* task that may fail the subprocess, and by a compensate throw event.
CompensationModel ==
  Process("P" :> "process" @@ "s" :> "start" @@ "sub" :> "subprocess" @@ "e" :> "end"
            @@ "error" :> "errorBoundary" @@ "x" :> "end"
            @@ "s'" :> "start" @@ "a" :> "task" @@ "b" :> "task" @@ "c" :> "task"
            @@ "throw" :> "compensateThrow"
            @@ "a-" :> "compensateBoundary" @@ "b-" :> "compensateBoundary"
            @@ "undo a" :> "task" @@ "undo b" :> "task",
          [n \in {"s'", "a", "b", "c", "throw", "a-", "b-", "undo a", "undo b"} |-> "sub"],
          "s" :> "sub" @@ "sub" :> "e" @@ "error" :> "x" @@ "s'" :> "a" @@ "a" :> "b"
            @@ "b" :> "c" @@ "c" :> "throw",
          [boundary |-> "sub" :> <<"error">>, attachedTo |-> "a-" :> "a" @@ "b-" :> "b",
           compensatedBy |-> "a" :> "undo a" @@ "b" :> "undo b",
           interrupting |-> {"error"}, restricted |-> {"c", "undo b", "sub"}])

\* A subprocess with a compensation event subprocess that compensates in turn
\* what completed within the subprocess, and a task after it that may fail.
\* Either an activity before it is compensated too, or its compensation may fail.
NestedModels ==
  LET kinds == "P" :> "process" @@ "s" :> "start" @@ "sub" :> "subprocess" @@ "c" :> "task"
                 @@ "E" :> "eventSubProcess" @@ "start" :> "compensateStart"
                 @@ "throw" :> "compensateThrow" @@ "h" :> "task"
                 @@ "s'" :> "start" @@ "a" :> "task" @@ "a-" :> "compensateBoundary"
                 @@ "undo a" :> "task"
      inner == "s'" :> "sub" @@ "a" :> "sub" @@ "a-" :> "sub" @@ "undo a" :> "sub" @@ "E" :> "sub"
                 @@ "start" :> "E" @@ "throw" :> "E" @@ "h" :> "E"
      flows == "sub" :> "c" @@ "s'" :> "a" @@ "start" :> "throw" @@ "throw" :> "h" IN
  {Process(kinds, inner, flows @@ "s" :> "sub",
           [attachedTo |-> "a-" :> "a", compensatedBy |-> "a" :> "undo a" @@ "sub" :> "E",
            restricted |-> {"c", "h"}]),
   Process(kinds @@ "b" :> "task" @@ "b-" :> "compensateBoundary" @@ "undo b" :> "task",
           inner, flows @@ "s" :> "b" @@ "b" :> "sub",
           [attachedTo |-> "a-" :> "a" @@ "b-" :> "b",
            compensatedBy |-> "a" :> "undo a" @@ "b" :> "undo b" @@ "sub" :> "E",
            restricted |-> {"c"}])}

SoundModels ==
  {ParallelModel, SequentialModel, CompensationModel} \union LoopModels \union NestedModels
=============================================================================
