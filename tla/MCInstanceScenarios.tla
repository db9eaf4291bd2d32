------------------------- MODULE MCInstanceScenarios -------------------------
(***************************************************************************)
(* A process with a subprocess, tasks, a compensation activity and an event*)
(* subprocess, and tables of instance data for it.                         *)
(***************************************************************************)
EXTENDS InstanceScenarios

MCNodes == {"P", "S", "T", "U", "D", "C", "E"}
MCKind == [n \in MCNodes |->
  CASE n = "P" -> "process" [] n = "S" -> "subprocess" [] n \in {"T", "U"} -> "task"
    [] n = "D" -> "decision" [] n = "C" -> "compensation" [] OTHER -> "eventsubprocess"]
MCParent == [n \in MCNodes |-> CASE n = "P" -> "" [] n = "U" -> "S" [] OTHER -> "P"]
MCOwn == [n \in MCNodes \union {""} |->
  CASE n = "" -> <<"base", "margin">>
    [] n = "P" -> <<"timestamp", "budget", "limit">>
    [] n = "S" -> <<"cost">> [] n = "T" -> <<"load">> [] n = "U" -> <<"part">>
    [] n = "D" -> <<>> [] n = "C" -> <<"refund">> [] OTHER -> <<"note">>]

MCData == {"base", "margin", "limit"}
MCLowest == -1
Cell(reads, spread) == [reads |-> reads, spread |-> spread]
None == Cell({}, {})
NoReady == [target |-> "", reads |-> {}, spread |-> {}]
MCModelGiven == [a \in {"margin", "limit"} |->
  IF a = "margin" THEN Cell({"base"}, {1}) ELSE Cell({"budget", "margin"}, {0})]

Row(i, n, a, init, disclosure) ==
  [inst |-> i, node |-> n, attr |-> a, init |-> init, disclosure |-> disclosure,
   ready |-> NoReady, completion |-> None]
Plain(n, a, v) == Row("a", n, a, Cell({}, {v}), None)
Rules(i, n, ready, completion) ==
  [Row(i, n, "", None, None) EXCEPT !.ready = ready, !.completion = completion]
Base == Row("", "", "base", Cell({}, {1}), None)
Born == Plain("P", "timestamp", 0)

\* Values drawn and disclosed over time, the later rows reading the earlier ones.
Chained == <<Row("a", "P", "timestamp", Cell({}, {0, 1}), None),
  Row("a", "P", "budget", Cell({"base"}, {1, 2}), Cell({}, {0, 1})),
  Row("a", "S", "cost", Cell({"budget"}, {0, 1}), Cell({}, {1, 2})),
  Row("a", "U", "part", Cell({"cost", "budget"}, {0}), Cell({}, {0, 2}))>>
\* A second instance announced later, which may be instantiated before or after its time.
Announced == <<Born, Row("b", "P", "timestamp", Cell({}, {0, 2}), Cell({}, {0, 1, 2})),
  Row("b", "P", "budget", Cell({"timestamp"}, {0, 1}), Cell({"timestamp"}, {0, 1}))>>
\* An attribute initialised twice, with a row reading it in between.
Twice == <<Born, Row("a", "P", "budget", Cell({}, {1, 2}), None),
  Row("a", "T", "load", Cell({"budget"}, {0, 1}), Cell({}, {0, 1})),
  Row("a", "T", "load", Cell({"budget"}, {2, 3}), Cell({}, {1, 2}))>>
\* What a task becomes ready and completes with is drawn when it does.
Performed == <<Born, Row("a", "P", "budget", Cell({}, {1}), None),
  Row("a", "T", "load", Cell({}, {0, 1}), Cell({}, {0, 2})),
  Rules("a", "T", [target |-> "timestamp", reads |-> {"budget"}, spread |-> {0, 1}], Cell({}, {0, 2})),
  Rules("a", "T", [target |-> "budget", reads |-> {"base"}, spread |-> {0}], Cell({"budget"}, {0})),
  Rules("a", "T", [target |-> "load", reads |-> {"load", "budget"}, spread |-> {0, 1}], None),
  Rules("a", "C", [target |-> "refund", reads |-> {}, spread |-> {0, 1}], Cell({}, {1}))>>
\* Certain data, which every data provider but the static one reads as disclosed over time.
\* The attributes of a task and of a subprocess beside it have the same index.
Timed == <<Born, Row("a", "P", "budget", Cell({"base"}, {1}), Cell({"base"}, {0})),
  Row("", "", "", None, None), Row("a", "S", "", None, None),
  Row("a", "T", "load", Cell({}, {2}), Cell({}, {0})),
  Row("a", "S", "cost", Cell({"budget"}, {1}), Cell({"cost"}, {-1})),
  Row("a", "U", "part", Cell({"cost"}, {0}), Cell({}, {1})),
  Row("b", "P", "timestamp", Cell({}, {1}), Cell({}, {2}))>>
Untimed == <<Born, Row("a", "P", "budget", Cell({"base"}, {1}), None),
  Row("b", "P", "", None, None), Row("b", "T", "load", Cell({"base"}, {1}), None)>>

\* The disclosure of a scope sampled after that of a node in it.
Late == <<Born, Row("a", "U", "part", Cell({}, {0, 1}), Cell({}, {0, 1})),
  Row("a", "S", "cost", Cell({"timestamp"}, {0, 1}), Cell({"cost"}, {0, 2})),
  Row("a", "U", "part", Cell({"part", "cost"}, {0}), Cell({"part"}, {0, 1}))>>

\* Attributes initialised by rows of nodes within the scope declaring them.
Outer == <<Born, Row("a", "T", "base", Cell({}, {2, 3}), Cell({}, {0, 1})),
  Row("a", "T", "budget", Cell({"base"}, {0, 1}), Cell({"base"}, {0})),
  Row("a", "U", "timestamp", Cell({"timestamp"}, {1, 2}), Cell({}, {2})),
  Row("a", "T", "load", Cell({"budget"}, {0}), None)>>

\* Tables refused, by their form or at a row.
Refused == {
  <<Plain("T", "load", 1)>>, <<Row("", "T", "load", Cell({}, {1}), None)>>,
  <<Born, Plain("P", "limit", 1)>>, <<Born, Plain("E", "note", 1)>>, <<Born, Plain("T", "part", 1)>>,
  <<Born, Row("a", "T", "load", Cell({"budget"}, {0}), None)>>,
  <<Born, Row("a", "T", "load", Cell({"margin"}, {0}), None)>>,
  <<Born, Row("b", "P", "budget", Cell({"timestamp"}, {0}), None)>>,
  <<Born, Row("a", "C", "refund", Cell({}, {0}), Cell({}, {1}))>>,
  <<Born, Row("a", "T", "", None, Cell({}, {1}))>>,
  <<Born, Rules("a", "T", NoReady, Cell({}, {1})),
    Rules("a", "T", [target |-> "load", reads |-> {}, spread |-> {1}], None),
    Rules("a", "T", [target |-> "timestamp", reads |-> {}, spread |-> {1}], None)>>,
  <<Born, Rules("a", "D", NoReady, Cell({}, {1}))>>,
  <<Born, Rules("a", "T", [target |-> "timestamp", reads |-> {"load"}, spread |-> {1}], None)>>,
  <<Born, Rules("a", "T", [target |-> "limit", reads |-> {}, spread |-> {1}], None)>>,
  <<Born, Rules("a", "T", NoReady, Cell({"part"}, {1}))>> }
\* Refused by the dynamic data provider alone: the disclosure of its scope is missing.
Orphaned == <<Born, Row("a", "U", "part", Cell({}, {1}), Cell({}, {1}))>>

MCTables == {<<Born>>} \union
  {<<Base>> \o t : t \in {Chained, Announced, Twice, Performed, Timed, Untimed, Orphaned, Late, Outer} \union Refused}
=============================================================================
