------------------------- MODULE MCDecisionCandidates -------------------------
(***************************************************************************)
(* Collaborations for DecisionCandidates, each for some of the behaviours. *)
(* They are given by their nodes, as a function from each node to its kind *)
(* and its scope, and by what differs from the defaults.                   *)
(***************************************************************************)
EXTENDS DecisionCandidates

Default(nodes, given, default) ==
  [n \in nodes |-> IF n \in DOMAIN given THEN given[n] ELSE default]

\* nodes: [node -> <<kind, scope>>]; the processes are the nodes in no scope.
Collaboration(nodes, names, flows, machines, tokens, headers, behaviour) ==
  LET all == DOMAIN nodes
      processOf[n \in all] == IF nodes[n][2] = "-" THEN n ELSE processOf[nodes[n][2]]
      of(field, default) ==
        Default(all, IF field \in DOMAIN behaviour THEN behaviour[field] ELSE <<>>, default)
      c == [kind |-> [n \in all |-> nodes[n][1]],
            parent |-> [n \in all |-> nodes[n][2]],
            process |-> processOf,
            name |-> Default(all, names, "-"),
            keys |-> of("keys", {}),
            flows |-> flows,
            part |-> [m \in DOMAIN machines |-> machines[m][1]],
            holder |-> [m \in DOMAIN machines |-> machines[m][2]],
            instanceOf |-> [m \in DOMAIN machines |-> machines[m][3]],
            node |-> [t \in DOMAIN tokens |-> tokens[t][1]],
            owner |-> [t \in DOMAIN tokens |-> tokens[t][2]],
            address |-> Default(DOMAIN tokens, headers, None),
            value |-> Default(DOMAIN tokens, IF "value" \in DOMAIN behaviour THEN behaviour.value ELSE <<>>, None),
            addressed |-> {tokens[t][1] : t \in DOMAIN headers},
            reads |-> of("reads", <<>>),
            writes |-> of("writes", {}),
            chosen |-> of("chosen", "-"),
            reward |-> of("reward", 0),
            forbids |-> of("forbids", {}),
            condition |-> of("condition", "-"),
            sequential |-> IF "sequential" \in DOMAIN behaviour THEN behaviour.sequential ELSE {},
            attributes |-> IF "attributes" \in DOMAIN behaviour THEN behaviour.attributes ELSE {},
            globals |-> IF "globals" \in DOMAIN behaviour THEN behaviour.globals ELSE {}]
  IN c @@ [candidates |-> MessageCandidates(c)]

NoFlows == {}
Flow(source, target) == [source |-> source, target |-> target]

\* Two customers send the same order to one supplier, who expects that of the
\* first; the supplier is known or not, and may be over.
Orders ==
  Collaboration(
    "P" :> <<"process", "-">> @@ "Q" :> <<"process", "-">>
      @@ "order" :> <<"sendTask", "P">> @@ "accept" :> <<"receive", "Q">>,
    "order" :> "order" @@ "accept" :> "order",
    {Flow("P", "accept")},
    "p1" :> <<"process", "-", "P">> @@ "p2" :> <<"process", "-", "P">>
      @@ "q" :> <<"process", "-", "Q">>,
    "s1" :> <<"order", "p1">> @@ "s2" :> <<"order", "p2">> @@ "r" :> <<"accept", "q">>,
    "s1" :> "q" @@ "s2" :> "q" @@ "r" :> "p1",
    [reads |-> "accept" :> [deliveryGuidance |-> {"time"}],
     forbids |-> "accept" :> {<<"time", 0>>}])

\* Messages to an event subprocess, which expects another reason than the first
\* gives; an event of the process has no such key.
Cancelling ==
  Collaboration(
    "P" :> <<"process", "-">> @@ "Q" :> <<"process", "-">>
      @@ "E" :> <<"eventSubprocess", "Q">>
      @@ "cancel" :> <<"throw", "P">> @@ "cancelled" :> <<"start", "E">>
      @@ "undo" :> <<"throw", "P">> @@ "undone" :> <<"catch", "Q">>,
    "cancel" :> "cancel" @@ "cancelled" :> "cancel"
      @@ "undo" :> "cancel" @@ "undone" :> "cancel",
    {Flow("cancel", "Q"), Flow("P", "cancelled")},
    "p" :> <<"process", "-", "P">> @@ "q" :> <<"process", "-", "Q">>
      @@ "e" :> <<"event", "q", "E">>,
    "c" :> <<"cancel", "p">> @@ "x" :> <<"cancelled", "e">> @@ "u" :> <<"undo", "p">>,
    "c" :> "e" @@ "x" :> "p",
    [keys |-> "cancel" :> {"why"} @@ "undo" :> {"why"} @@ "cancelled" :> {"why"},
     value |-> "c" :> "late" @@ "u" :> "lost" @@ "x" :> "lost"])

\* A send task sends to an instance of a multi-instance activity; another node,
\* without an address, is within the subprocess the flow leads to.
Parts ==
  Collaboration(
    "P" :> <<"process", "-">> @@ "Q" :> <<"process", "-">>
      @@ "S" :> <<"subprocess", "Q">>
      @@ "item" :> <<"sendTask", "P">> @@ "deliver" :> <<"receive", "S">>
      @@ "other" :> <<"catch", "Q">>,
    "item" :> "item" @@ "deliver" :> "item" @@ "other" :> "item",
    {Flow("P", "S")},
    "p" :> <<"process", "-", "P">> @@ "q" :> <<"process", "-", "Q">>
      @@ "a" :> <<"activity", "q", "S">>,
    "i" :> <<"item", "p">> @@ "d" :> <<"deliver", "a">>,
    "i" :> "a",
    <<>>)

\* A message that creates an instance, sent by a send task and by a throw event;
\* the instances answer, and what they catch depends on global data.
Triggers ==
  Collaboration(
    "P" :> <<"process", "-">> @@ "Q" :> <<"process", "-">>
      @@ "begin" :> <<"sendTask", "P">> @@ "again" :> <<"throw", "P">>
      @@ "begun" :> <<"processStart", "Q">>
      @@ "answer" :> <<"throw", "Q">> @@ "hear" :> <<"catch", "P">>,
    "begin" :> "begin" @@ "again" :> "begin" @@ "begun" :> "begin"
      @@ "answer" :> "answer" @@ "hear" :> "answer",
    NoFlows,
    "p" :> <<"process", "-", "P">> @@ "q1" :> <<"process", "-", "Q">>
      @@ "q2" :> <<"process", "-", "Q">>,
    "b" :> <<"begin", "p">> @@ "g" :> <<"again", "p">> @@ "w" :> <<"answer", "q1">>
      @@ "h" :> <<"hear", "p">>,
    <<>>,
    [attributes |-> {"g"}, globals |-> {"g"},
     writes |-> "answer" :> {"g"},
     reads |-> "hear" :> [operators |-> {"g"}, inherited |-> {"g"}],
     forbids |-> "hear" :> {<<"g", 0>>}])

\* Tasks whose entries depend on the time, on data of the instance and on global
\* data, a decision task, and a conditional event.
Decided(tokens, written) ==
  Collaboration(
    "P" :> <<"process", "-">>
      @@ "early" :> <<"task", "P">> @@ "late" :> <<"task", "P">>
      @@ "job" :> <<"task", "P">> @@ "choose" :> <<"decision", "P">>
      @@ "when" :> <<"condition", "P">>,
    <<>>, NoFlows,
    "p" :> <<"process", "-", "P">>,
    tokens,
    <<>>,
    [attributes |-> {"x", "g"}, globals |-> {"g"},
     sequential |-> {"job"},
     reads |-> "late" :> [entry |-> {"time", "x"}]
                 @@ "job" :> [inherited |-> {"time"}, operators |-> {"g"}]
                 @@ "early" :> [entryGuidance |-> {"g"}],
     writes |-> "early" :> {"x"} @@ "job" :> {"g"} @@ "choose" :> written,
     chosen |-> "choose" :> "x",
     condition |-> "when" :> "x",
     reward |-> "late" :> 1,
     forbids |-> "late" :> {<<"time", 0>>} @@ "job" :> {<<"time", 0>>}])

\* The choice has no operators to announce it, or it has.
Decisions ==
  Decided("t1" :> <<"early", "p">> @@ "t2" :> <<"late", "p">>
            @@ "d" :> <<"choose", "p">> @@ "k" :> <<"when", "p">>, {})
Announcing ==
  Decided("t2" :> <<"late", "p">> @@ "t3" :> <<"job", "p">>
            @@ "d" :> <<"choose", "p">> @@ "k" :> <<"when", "p">>, {"g"})

\* Entries in a sequential subprocess and deliveries compete.
Contest ==
  Collaboration(
    "P" :> <<"process", "-">> @@ "Q" :> <<"process", "-">>
      @@ "job" :> <<"task", "P">> @@ "hear" :> <<"catch", "P">>
      @@ "tell" :> <<"throw", "Q">> @@ "work" :> <<"task", "Q">>,
    "tell" :> "news" @@ "hear" :> "news", {Flow("Q", "P")},
    "p" :> <<"process", "-", "P">> @@ "q" :> <<"process", "-", "Q">>,
    "j" :> <<"job", "p">> @@ "h" :> <<"hear", "p">> @@ "n1" :> <<"tell", "q">>
      @@ "w" :> <<"work", "q">>,
    <<>>,
    [attributes |-> {"x", "g"}, globals |-> {"g"},
     sequential |-> {"job"},
     reads |-> "job" :> [operators |-> {"x"}, entry |-> {"time"}] @@ "hear" :> [operators |-> {"g", "x"}],
     writes |-> "work" :> {"g"} @@ "hear" :> {"x"},
     forbids |-> "hear" :> {<<"g", 0>>}])

AllCollaborations == {Orders, Cancelling, Parts, Triggers, Decisions, Announcing, Contest}
OnlyOrders == {Orders}
=============================================================================
