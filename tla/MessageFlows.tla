---------------------------- MODULE MessageFlows ----------------------------
(***************************************************************************)
(* What the model of a collaboration says about its messages before any    *)
(* instance runs: which throwing and which catching nodes are candidates   *)
(* of each other, and which processes a message instantiates               *)
(* (model/bpmnos/src/Model.cpp, extensionElements/MessageDefinition.cpp).  *)
(*                                                                         *)
(* A collaboration is a record with, among others, the fields              *)
(*   process, parent, kind, name, keys   of each node: its process, the    *)
(*         scope holding it ("-" at a process), what it is, the name and   *)
(*         the additional header keys of its message;                      *)
(*   flows  the message flows, each from a source to a target, either one  *)
(*         a process or a node (a subprocess or a message event) of it.    *)
(***************************************************************************)
EXTENDS FiniteSets, Sequences

Throwing == {"throw", "sendTask"}
Catching == {"receive", "catch", "start", "processStart"}

Nodes(c) == DOMAIN c.kind
Throws(c) == {n \in Nodes(c) : c.kind[n] \in Throwing}
Catches(c) == {n \in Nodes(c) : c.kind[n] \in Catching}

\* The scopes the node is in, itself included, up to its process.
Around(c, n) ==
  LET around[m \in Nodes(c) \cup {"-"}] ==
        IF m = "-" THEN {} ELSE {m} \cup around[c.parent[m]]
  IN around[n]

Inside(c, n, scope) == scope \in Around(c, n)

\* The flows with an end at the node itself.
FlowsAt(c, n, end) == {f \in c.flows : f[end] = n}

\* The flows of the nearest scope around the node that has any.  The search
\* skips event subprocesses and goes on from a subprocess only, so that it ends
\* at the process.
InheritedFlows(c, n, end) ==
  LET inherited[m \in Nodes(c)] ==
        LET scope == c.parent[m]
        IN IF \/ c.kind[scope] = "eventSubprocess"
              \/ c.kind[scope] = "subprocess" /\ FlowsAt(c, scope, end) = {}
             THEN inherited[scope]
             ELSE FlowsAt(c, scope, end)
  IN inherited[n]

RelevantFlows(c, n, end) ==
  IF FlowsAt(c, n, end) # {} THEN FlowsAt(c, n, end) ELSE InheritedFlows(c, n, end)

\* Without a flow of its own or of a scope around it a node is not restricted;
\* otherwise the other node must be at or within the other end of a flow.
MayBeCaught(c, throwing, catching) ==
  LET flows == RelevantFlows(c, throwing, "source")
  IN flows = {} \/ \E f \in flows : Inside(c, catching, f.target)

MayBeThrown(c, throwing, catching) ==
  LET flows == RelevantFlows(c, catching, "target")
  IN flows = {} \/ \E f \in flows : Inside(c, throwing, f.source)

\* The pairs of nodes that are candidates of each other.
MessageCandidates(c) ==
  LET mayMeet(t, r) ==
        /\ c.name[t] = c.name[r]
        /\ c.keys[t] = c.keys[r]
        /\ c.process[t] # c.process[r]
        /\ MayBeCaught(c, t, r)
        /\ MayBeThrown(c, t, r)
  IN {p \in Throws(c) \X Catches(c) : mayMeet(p[1], p[2])}

-----------------------------------------------------------------------------
(* Messages instantiating a process *)

TriggerOf(c, process) ==
  {r \in Catches(c) : c.kind[r] = "processStart" /\ c.process[r] = process}

\* The processes instantiated by the message thrown at a node.
ProcessesTriggered(c, throwing) ==
  {p \in Nodes(c) : c.kind[p] = "process"
                    /\ \E r \in TriggerOf(c, p) : c.name[r] = c.name[throwing]}

\* The rules the model is refused by: a message instantiating a process is
\* matched by its name alone, so it is caught nowhere else, it comes from
\* another process, and its header says nothing.
ValidTriggers(c) ==
  \A p \in Nodes(c) : \A trigger \in TriggerOf(c, p) :
    /\ \A r \in Catches(c) : c.name[r] = c.name[trigger] => r = trigger
    /\ c.keys[trigger] = {}
    /\ \A t \in Throws(c) : c.name[t] = c.name[trigger] =>
         /\ c.process[t] # p
         /\ c.keys[t] = {}
         /\ t \notin c.addressed
=============================================================================
