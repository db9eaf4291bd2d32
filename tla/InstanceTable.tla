---------------------------- MODULE InstanceTable ----------------------------
(***************************************************************************)
(* Reading a table of instance data.  InstanceDataReader checks the form   *)
(* of all rows first; a data provider then reads them one by one.  The     *)
(* static, the expected value and the dynamic data provider evaluate an    *)
(* initialization when they read its row, the stochastic data provider     *)
(* keeps it to sample it for every scenario.                               *)
(*                                                                         *)
(* A row names an instance and a node, the attribute it initialises and    *)
(* four expressions, "" and an empty spread standing for an empty cell.  An*)
(* expression is the sum of the attributes it reads and of one number of   *)
(* its spread, a random function drawing that number.  An object is an     *)
(* attribute like any other; the sizes of objects, the types of values and *)
(* the text of expressions are left out.                                   *)
(***************************************************************************)
EXTENDS Integers, Sequences, FiniteSets, FiniteSetsExt, SequencesExt

CONSTANTS
  Instances,    \* the instances a table may name
  Nodes,        \* the nodes of the model
  Kind,         \* the kind of each node
  Parent,       \* the scope containing each node, "" for a process
  Own,          \* the attributes each node declares, in order; those of "" are global
  Data,         \* the data attributes, the others being status attributes
  ModelGiven,   \* the attributes the model assigns, with the expression assigning each
  Tables,       \* the tables given
  Providers,    \* the data providers reading them
  Undefined     \* no value

Attributes == UNION {ToSet(Own[n]) : n \in DOMAIN Own}

Expressions == [reads : SUBSET Attributes, spread : SUBSET Int]
Rows == [inst : Instances \union {""}, node : Nodes \union {""}, attr : Attributes \union {""},
         init : Expressions, disclosure : Expressions, completion : Expressions,
         ready : [target : Attributes \union {""}, reads : SUBSET Attributes, spread : SUBSET Int]]

\* Every attribute is declared by one node.  The first status attribute of a process
\* is the timestamp of its instances.
ASSUME ModelAssumption ==
  /\ "" \notin Nodes \union Attributes /\ IsFiniteSet(Attributes)
  /\ DOMAIN Kind = Nodes /\ Parent \in [Nodes -> Nodes \union {""}] /\ DOMAIN Own = Nodes \union {""}
  /\ \A n \in DOMAIN Own : Own[n] \in Seq(Attributes)
  /\ \A m, n \in DOMAIN Own : m # n => ToSet(Own[m]) \intersect ToSet(Own[n]) = {}
  /\ \A n \in Nodes : (Kind[n] = "process") = (Parent[n] = "")
  /\ \A n \in Nodes : Kind[n] = "process" => Own[n] # <<>> /\ Own[n][1] \notin DOMAIN ModelGiven
  /\ DOMAIN ModelGiven \subseteq Attributes /\ ToSet(Own[""]) \subseteq Data
  /\ \A a \in DOMAIN ModelGiven : ModelGiven[a] \in Expressions /\ ModelGiven[a].spread # {}
                                  /\ IsFiniteSet(ModelGiven[a].spread)

\* No scope is within itself.
ASSUME ScopesNest == \A S \in SUBSET Nodes : S # {} => \E n \in S : Parent[n] \notin S

\* A row giving a value has an expression for it.
ASSUME TableAssumption ==
  /\ Providers \subseteq {"static", "expected", "dynamic", "stochastic"}
  /\ "" \notin Instances /\ Undefined \notin Int
  /\ \A t \in Tables : t \in Seq(Rows) /\ \A k \in DOMAIN t :
       /\ t[k].attr # "" => t[k].init.spread # {}
       /\ IsFiniteSet(t[k].init.spread) /\ IsFiniteSet(t[k].disclosure.spread)

VARIABLES
  provider,  \* the data provider reading the table
  table,     \* the rows of the table
  phase,     \* "parse", "read", "refused", "ready", and "run" or "failed" for a scenario
  next,      \* the row read next
  globals,   \* the values of the global attributes
  values,    \* the values given to the attributes of each instance
  shown,     \* the disclosure time of each node of each instance with a row
  inits,     \* the initializations accepted, in the order of their rows
  readies,   \* the ready expressions of each instance and node
  ends       \* the completion expression of each instance and node

tableVars == <<provider, table, phase, next, globals, values, shown, inits, readies, ends>>

Empty(expression) == expression.spread = {}
Global == ToSet(Own[""])

\* The node and the scopes around it.
Upwards[n \in Nodes \union {""}] ==
  IF n = "" THEN {} ELSE {n} \union Upwards[Parent[n]]

\* The attributes an expression at a node may refer to: those declared there and around.
Registry(n) == UNION {ToSet(Own[m]) : m \in Upwards[n] \union {""}}
ProcessOf(n) == CHOOSE p \in Upwards[n] : Parent[p] = ""
Timestamp(n) == Own[ProcessOf(n)][1]

\* The index of an attribute among those of its category that its node may refer to: the
\* attributes declared around the node come first.
Slot(a) ==
  LET n == CHOOSE n \in DOMAIN Own : a \in ToSet(Own[n])
      position == CHOOSE k \in DOMAIN Own[n] : Own[n][k] = a
      before == (Registry(n) \ ToSet(Own[n])) \union {Own[n][k] : k \in 1..(position - 1)}
  IN Cardinality({b \in before : (b \in Data) = (a \in Data)})
SameSlot(a, b) == (a \in Data) = (b \in Data) /\ Slot(a) = Slot(b)

(*------------------------------- expressions -----------------------------*)
\* What an expression knows: the values of an instance over the global ones.
View(given) == [a \in Attributes |-> IF a \in Global /\ given[a] = Undefined THEN globals[a] ELSE given[a]]
HasValue(view, expression) == \A a \in expression.reads : view[a] # Undefined
Total(numbers, S) == MapThenSumSet(LAMBDA a : numbers[a], S)
Value(view, expression, drawn) == drawn + Total(view, expression.reads)

\* InstanceDataReader writes all values of an instance by their index, whatever the node of
\* the expression may refer to: of those with one index, one is read.  What is written
\* beyond the attributes of the node is taken to have no effect.
ReadBack(numbers, a) ==
  LET written == {b \in Attributes : numbers[b] # Undefined /\ SameSlot(a, b)}
  IN IF written = {} THEN {View(numbers)[a]} ELSE {numbers[b] : b \in written}
Views(numbers, expression) ==
  LET read == expression.reads IN
  {[a \in Attributes |-> IF a \in read THEN v[a] ELSE Undefined] :
     v \in {v \in [read -> UNION {ReadBack(numbers, a) : a \in read}] :
              \A a \in read : v[a] \in ReadBack(numbers, a)}}

\* The expected value data provider replaces a random function by its expectation.
Mean(spread) == Total([d \in spread |-> d], spread) \div Cardinality(spread)
Outcomes(expression) ==
  IF provider = "stochastic" THEN expression.spread ELSE {Mean(expression.spread)}
\* Only the stochastic and the expected value data provider know random functions.
Certain(expression) ==
  provider \in {"static", "dynamic"} => Cardinality(expression.spread) <= 1

(*------------------------------- the form of a table ---------------------*)
FirstOf(i) == CHOOSE k \in DOMAIN table :
                /\ table[k].inst = i
                /\ \A j \in 1..(k - 1) : table[j].inst # i
InTable == {table[k].inst : k \in DOMAIN table} \ {""}
Process(i) == table[FirstOf(i)].node

\* A table has the columns of its data provider, a value of a global attribute
\* none but its initialization, and the first row of an instance names a process.
WellFormed ==
  \A k \in DOMAIN table : LET row == table[k] IN
    /\ provider = "static" => Empty(row.disclosure)
    /\ provider \in {"static", "dynamic"} => Empty(row.ready) /\ Empty(row.completion)
    /\ row.inst = "" => /\ row.node = ""
                        /\ Empty(row.disclosure) /\ Empty(row.ready) /\ Empty(row.completion)
    /\ row.inst # "" => row.node \in Nodes /\ Kind[Process(row.inst)] = "process"

Parse ==
  /\ phase = "parse"
  /\ phase' = IF WellFormed THEN "read" ELSE "refused"
  /\ UNCHANGED <<provider, table, next, globals, values, shown, inits, readies, ends>>

(*------------------------------- one row ---------------------------------*)
\* The attribute of a row: one the node knows and the model does not assign; the
\* engine creates event subprocesses itself.
NamesAttribute(row) ==
  /\ Kind[row.node] # "eventsubprocess"
  /\ row.attr \in Registry(row.node)
  /\ row.attr \notin DOMAIN ModelGiven

\* The attributes given a value by the rows before, a disclosure reading its own row too;
\* a global attribute is one only by its own rows.
GivenBefore(i) ==
  ((IF provider = "stochastic" THEN {inits[k].attr : k \in {j \in DOMAIN inits : inits[j].inst = i}}
    ELSE {a \in Attributes : values[i][a] # Undefined}) \ Global)
  \union {a \in Global : globals[a] # Undefined}

ReadsGiven(row) ==
  /\ row.init.reads \subseteq GivenBefore(row.inst) \intersect Registry(row.node)
  /\ provider \in {"dynamic", "stochastic"} =>
       row.disclosure.reads \subseteq
         (GivenBefore(row.inst) \union ({row.attr} \ Global)) \intersect Registry(row.node)
  /\ Certain(row.init)
  /\ provider = "dynamic" => Certain(row.disclosure)

LegalInitialization(row) == row.attr # "" => NamesAttribute(row) /\ ReadsGiven(row)

\* A compensation activity becomes ready when compensation is triggered, and a
\* disclosure belongs to an initialization.  The dynamic data provider needs the
\* disclosure of the scope before that of a node in it.
LegalDisclosure(row) ==
  provider \in {"dynamic", "stochastic"} =>
    /\ ~Empty(row.disclosure) => Kind[row.node] # "compensation" /\ row.attr # ""
    /\ provider = "dynamic" /\ Parent[row.node] # "" =>
         shown[row.inst][Parent[row.node]] # Undefined

\* A ready expression assigns a status attribute or what the scope owns; one assigning
\* the timestamp comes first and reads only what the scope inherits.
LegalReady(row) ==
  provider = "stochastic" /\ ~Empty(row.ready) =>
    /\ Kind[row.node] \in {"subprocess", "task", "decision", "compensation"}
    /\ row.ready.target = Timestamp(row.node) =>
         /\ readies[row.inst][row.node] = <<>>
         /\ row.ready.reads \intersect ToSet(Own[row.node]) = {}
         /\ Kind[row.node] # "compensation"
    /\ row.ready.reads \union {row.ready.target} \subseteq Registry(row.node)
    /\ row.ready.target \in Data => row.ready.target \in ToSet(Own[row.node])

\* Send, receive and decision tasks complete as the model determines.
LegalCompletion(row) ==
  provider = "stochastic" /\ ~Empty(row.completion) =>
    Kind[row.node] \in {"task", "compensation"} /\ row.completion.reads \subseteq Registry(row.node)

Legal(row) ==
  IF row.inst = ""
    THEN row.attr # "" => /\ row.attr \in Global \ DOMAIN ModelGiven
                          /\ HasValue(globals, row.init) /\ Certain(row.init)
    ELSE /\ LegalInitialization(row) /\ LegalDisclosure(row)
         /\ LegalReady(row) /\ LegalCompletion(row)

\* The disclosure time of a node is at least that of its rows and of its scope, that of a
\* process at least zero.
Disclosed(times, row, t) ==
  LET scope == IF Parent[row.node] = "" THEN 0 ELSE times[row.inst][Parent[row.node]]
      before == times[row.inst][row.node]
  IN [times EXCEPT ![row.inst][row.node] =
        Max({t} \union ({scope, before} \ {Undefined}))]

\* The value of a global attribute; an empty row is skipped.
ReadGlobal(row) ==
  /\ row.inst = ""
  /\ IF row.attr = "" THEN UNCHANGED globals
     ELSE \E drawn \in Outcomes(row.init) :
            globals' = [globals EXCEPT ![row.attr] = Value(globals, row.init, drawn)]
  /\ UNCHANGED <<values, shown, inits, readies, ends>>

\* A row is evaluated when it is read.  Without disclosures all is known from the start.
Evaluate(row) ==
  /\ row.inst # "" /\ provider # "stochastic"
  /\ IF row.attr = "" THEN UNCHANGED values
     ELSE \E drawn \in Outcomes(row.init), view \in Views(values[row.inst], row.init) :
            values' = [values EXCEPT ![row.inst][row.attr] = Value(view, row.init, drawn)]
  /\ inits' = IF row.attr = "" THEN inits ELSE Append(inits, row)
  /\ IF provider # "dynamic" THEN UNCHANGED shown
     ELSE IF Empty(row.disclosure) THEN shown' = Disclosed(shown, row, 0)
     ELSE \E view \in Views(values'[row.inst], row.disclosure) :
            shown' = Disclosed(shown, row, Value(view, row.disclosure, Mean(row.disclosure.spread)))
  /\ UNCHANGED <<globals, readies, ends>>

\* A row is kept, to be sampled for every scenario.
Keep(row) ==
  /\ row.inst # "" /\ provider = "stochastic"
  /\ inits' = IF row.attr = "" THEN inits ELSE Append(inits, row)
  /\ readies' = IF Empty(row.ready) THEN readies
                ELSE [readies EXCEPT ![row.inst][row.node] = Append(@, row.ready)]
  /\ ends' = IF Empty(row.completion) THEN ends
             ELSE [ends EXCEPT ![row.inst][row.node] = Append(@, row.completion)]
  /\ UNCHANGED <<globals, values, shown>>

ReadRow ==
  /\ phase = "read" /\ next <= Len(table)
  /\ Legal(table[next])
  /\ ReadGlobal(table[next]) \/ Evaluate(table[next]) \/ Keep(table[next])
  /\ next' = next + 1
  /\ UNCHANGED <<provider, table, phase>>

RefuseRow ==
  /\ phase = "read" /\ next <= Len(table)
  /\ ~Legal(table[next])
  /\ phase' = "refused"
  /\ UNCHANGED <<provider, table, next, globals, values, shown, inits, readies, ends>>

\* The global attributes take their values in declaration order, one the model assigns
\* reading those declared before it, and an instance without a timestamp is instantiated
\* at time zero.  One the model assigns must have a value.
GlobalsGiven ==
  LET upTo[k \in 0..Len(Own[""])] ==
        IF k = 0 THEN globals
        ELSE LET a == Own[""][k] IN
          IF /\ a \in DOMAIN ModelGiven /\ HasValue(upTo[k - 1], ModelGiven[a])
             /\ ModelGiven[a].reads \subseteq {Own[""][j] : j \in 1..(k - 1)}
            THEN [upTo[k - 1] EXCEPT ![a] = Value(upTo[k - 1], ModelGiven[a], Mean(ModelGiven[a].spread))]
            ELSE upTo[k - 1]
  IN upTo[Len(Own[""])]

FinishReading ==
  /\ phase = "read" /\ next > Len(table)
  /\ globals' = GlobalsGiven
  /\ values' = [i \in Instances |->
                  IF i \in InTable /\ values[i][Timestamp(Process(i))] = Undefined
                    THEN [values[i] EXCEPT ![Timestamp(Process(i))] = 0]
                    ELSE values[i]]
  /\ phase' = IF \E a \in Global \intersect DOMAIN ModelGiven : globals'[a] = Undefined
                THEN "refused" ELSE "ready"
  /\ UNCHANGED <<provider, table, next, shown, inits, readies, ends>>

TableInit ==
  /\ provider \in Providers /\ table \in Tables
  /\ phase = "parse" /\ next = 1
  /\ globals = [a \in Attributes |-> Undefined]
  /\ values = [i \in Instances |-> [a \in Attributes |-> Undefined]]
  /\ shown = [i \in Instances |-> [n \in Nodes |-> Undefined]]
  /\ inits = <<>>
  /\ readies = [i \in Instances |-> [n \in Nodes |-> <<>>]]
  /\ ends = [i \in Instances |-> [n \in Nodes |-> <<>>]]

TableNext == Parse \/ ReadRow \/ RefuseRow \/ FinishReading
=============================================================================
