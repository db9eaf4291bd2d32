----------------------- MODULE TokenFlowBoundaryProofs -----------------------
(***************************************************************************)
(* That the boundary events of an activity are armed once each, as long as *)
(* the activity waits for them, for any model of a kind described below,   *)
(* any number of tokens and any times.                                     *)
(***************************************************************************)
EXTENDS TokenFlowProofs

\* What boundary events rest on, as long as none is armed again for an activity
\* that has been left.
RearmedInTime ==
  commands # <<>> /\ Head(commands).name = "initiateBoundaryEvent" =>
    LET a == Head(commands).for IN
    State(a) = "BUSY" \/ \E d \in Queued : d.name = "advanceFromCompleted" /\ d.for = a

\* The commands by which a token leaves its node, and those by which an activity
\* with boundary events goes on.
Leaving == {"advanceToDeparted", "advanceToDone", "advanceToArrived", "handleDivergingGateway"}
Onward == Moving \union {"advanceToFailed", "terminate", "handleFailure", "interruptActivity"}

\* The states of an activity that has been entered and not been left.
Inhabited == {"ENTERED", "BUSY", "COMPLETED", "FAILING", "FAILED"}

Pending(names, t) == \E c \in Queued : c.name \in names /\ c.for = t

\* A scope fails with the tokens in it; a failing token at a boundary event
\* makes the scope around fail.
Doomed(s) == Pending({"advanceToFailed", "terminate"}, s)
Upset(b) == Pending({"advanceToFailed", "handleFailure"}, b)

\* A token at a boundary event that has not been completed.
Held(b) == Kind(b) \in Boundaries /\ tokens[b].link # None

Awaits(b) ==
  \/ State(b) = "BUSY"
  \/ Pending({"advanceToBusy", "advanceToFailed", "handleFailure"}, b)
  \/ Doomed(tokens[b].owner)

\* It awaits an event of its activity, unless it fails.
BoundTo(b, a) ==
  /\ a \in Live /\ tokens[a].owner = tokens[b].owner /\ Kind(a) \in ActivityKinds
  /\ Node(b) \in Range(BoundaryEvents(Node(a)))

BoundaryBound(b) ==
  /\ Kind(b) \in Boundaries /\ tokens[b].link = None => State(b) \notin {"ENTERED", "BUSY"}
  /\ Held(b) => BoundTo(b, tokens[b].link) /\ Awaits(b)

\* An activity with tokens at its boundary events is busy, or something is about
\* to be done with it.
GoesAhead(a) ==
  State(a) # "BUSY" =>
    \/ Pending(Onward, a)
    \/ Doomed(tokens[a].owner)
    \/ \E b \in Attached(a) : Upset(b)

\* Each boundary event of an activity has its token, or is about to be armed.
ArmedAt(a, n) ==
  \/ \E b \in Attached(a) : Node(b) = n
  \/ \E c \in Queued : c.name = "initiateBoundaryEvent" /\ c.for = a /\ c.arg = n
Armed(a) ==
  \/ Pending({"initiateBoundaryEvents", "interruptActivity"}, a)
  \/ \A n \in Range(BoundaryEvents(Node(a))) : ArmedAt(a, n)

ActivityBound(a) ==
  /\ Attached(a) # {} => State(a) \in Inhabited /\ GoesAhead(a)
  /\ \A b, c \in Attached(a) : Node(b) = Node(c) => b = c
  /\ Kind(a) \in ActivityKinds /\ State(a) \in {"ENTERED", "BUSY"} => Armed(a)

\* A token moves in the state it has come to, and leaves an activity once the
\* tokens at its boundary events are withdrawn or about to be.
MoveBound(c) ==
  LET u == c.for IN
  /\ c.name = "advanceToBusy" =>
       /\ Kind(u) \in Boundaries => tokens[u].link # None
       /\ Kind(u) \in ActivityKinds => State(u) = "ENTERED"
  /\ c.name = "advanceToEntered" /\ Kind(u) \in ActivityKinds => State(u) = "READY"
  /\ c.name = "advanceFromCompleted" => State(u) \in {"COMPLETED", "FAILING", "FAILED"}
  /\ c.name \in Leaving /\ Kind(u) \in ActivityKinds =>
       /\ State(u) \notin {"ENTERED", "BUSY"}
       /\ Attached(u) # {} => \E d \in Queued : d.name = "deleteBoundary" /\ d.arg = u

FailureBound(c) ==
  LET u == c.for IN
  /\ c.name \in {"terminate", "updateFailed"} =>
       Kind(u) \in Scopes /\ State(u) \notin {"ENTERED", "BUSY"}
  /\ c.name \in {"advanceToFailed", "handleFailure"} /\ (Kind(u) = "task" \/ Held(u)) =>
       Unmoved(u) /\ u \notin Range(listening)

\* A boundary event is armed for an activity without a token there.  The token
\* may have gone beyond the activity, and is on its way.
GoneBeyond(c) ==
  LET u == c.for IN
  /\ State(u) # "BUSY" /\ ~tokens[u].owned /\ Kind(u) \notin Boundaries
  /\ \A d \in Queued : d.name \in Main /\ d.for = u =>
       d.name = "advanceToEntered" /\ ~Ahead(d, c)

InitiationBound(c) ==
  LET u == c.for IN
  /\ c.name = "initiateBoundaryEvents" =>
       /\ State(u) = "ENTERED" /\ Attached(u) = {}
       /\ Pending({"advanceToBusy", "advanceToFailed"}, u)
       /\ ~Pending({"initiateBoundaryEvent"}, u)
  /\ c.name = "initiateBoundaryEvent" =>
       /\ \/ GoneBeyond(c)
          \/ Kind(u) \in ActivityKinds /\ c.arg \in Range(BoundaryEvents(Node(u)))
       /\ \A b \in Attached(u) : Node(b) # c.arg

RemovalBound(c) ==
  c.name = "deleteBoundary" =>
    /\ c.arg \in 1..created
    /\ c.arg \in Live =>
         /\ Kind(c.arg) \in ActivityKinds /\ State(c.arg) \notin {"ENTERED", "BUSY"}
         /\ c.for = tokens[c.arg].owner

CommandBound(c) == MoveBound(c) /\ FailureBound(c) /\ InitiationBound(c) /\ RemovalBound(c)

\* The tokens at the boundary events are withdrawn before the activity is left,
\* and none is armed twice.  No scope is terminated that has been left.
OrderBound(c, d) ==
  /\ ~(c.name \in Leaving /\ d.name = "deleteBoundary" /\ d.arg = c.for)
  /\ ~(/\ c.name = "initiateBoundaryEvent" /\ d.name = "initiateBoundaryEvent"
       /\ c.for = d.for /\ c.arg = d.arg)
  /\ ~(c.name = "advanceToArrived" /\ d.name = "terminate" /\ c.for = d.for)

BoundariesOK ==
  /\ aborted => commands = <<>>
  /\ ~aborted =>
       /\ \A t \in Live : BoundaryBound(t) /\ ActivityBound(t)
       /\ \A c \in Queued : CommandBound(c)
       /\ \A c, d \in Queued : Ahead(c, d) => OrderBound(c, d)

-----------------------------------------------------------------------------
\* Tokens removed are withdrawn with those within their scopes, an activity with
\* the tokens at its boundary events, and these with the activity unless they are
\* deleted.  One other token is changed, and others are created.
Deletes(a) ==
  commands # <<>> /\ Head(commands).name = "deleteBoundary" /\ Head(commands).arg = a

TokensTurn(t, gone, k) ==
  /\ model' = model /\ k \in Nat /\ created' = created + k /\ aborted' = aborted
  /\ gone \subseteq Live
  /\ Live' = (Live \ gone) \union (created + 1)..(created + k)
  /\ \A u \in Live \ gone : u # t => tokens'[u] = tokens[u]
  /\ t \in Live \ gone =>
       /\ tokens'[t].owner = tokens[t].owner /\ tokens'[t].link \in {tokens[t].link, None}
       /\ Node(t)' = Node(t) \/ (HeadIs("advanceToArrived", t) /\ Kind(t)' \notin Boundaries)
  /\ Range(listening') \subseteq Range(listening) \union {t}

TokensGo(gone, shut) ==
  /\ \A u \in Live : tokens[u].owner \in gone \union shut => u \in gone
  /\ \A b \in Live : Held(b) =>
       /\ tokens[b].link \in gone => b \in gone
       /\ b \in gone => tokens[b].link \in gone \/ Deletes(tokens[b].link)
  /\ \A a : Deletes(a) => Attached(a) \subseteq gone

\* The token changed, with the commands left for it.
LeftBound(t, gone, shut) ==
  \A c \in Left(gone, shut) :
    /\ c.for = t => MoveBound(c)' /\ FailureBound(c)' /\ InitiationBound(c)'
    /\ c.name = "deleteBoundary" /\ c.arg = t =>
         Kind(t)' \in ActivityKinds /\ State(t)' \notin {"ENTERED", "BUSY"}

\* A boundary event that has been completed interrupts its activity, or is to be
\* armed again.
Completes(t, new) ==
  /\ \E c \in Range(new) :
       /\ c.for = tokens[t].link
       /\ c.name = "interruptActivity" \/ (c.name = "initiateBoundaryEvent" /\ c.arg = Node(t))
  /\ \A a : a = tokens[t].link /\ Upset(t) => GoesAhead(a)'

TokenTurns(t, gone, shut, new) ==
  t \in Live \ gone =>
    /\ Kind(t)' \in Boundaries /\ tokens'[t].link = None => State(t)' \notin {"ENTERED", "BUSY"}
    /\ Held(t)' => Awaits(t)'
    /\ Attached(t)' # {} => State(t)' \in Inhabited /\ GoesAhead(t)'
    /\ Kind(t)' \in ActivityKinds /\ State(t)' \in {"ENTERED", "BUSY"} => Armed(t)'
    /\ LeftBound(t, gone, shut)
    /\ Held(t) /\ tokens'[t].link = None => Completes(t, new)

\* What rests on the command executed.
HeadTurns(gone) ==
  \A h : commands # <<>> /\ h = Head(commands) =>
    /\ h.name \in {"advanceToFailed", "terminate"} =>
         Doomed(h.for)' \/ \A v \in Live \ gone : tokens[v].owner # h.for
    /\ h.for \in Live \ gone =>
         /\ h.name \in {"advanceToBusy", "advanceToFailed", "handleFailure"} /\ Held(h.for)' =>
              Awaits(h.for)'
         /\ h.name \in {"advanceToFailed", "handleFailure"} /\ Held(h.for) =>
              \A a : a = tokens[h.for].link => GoesAhead(a)'
         /\ h.name \in Onward /\ Attached(h.for)' # {} => GoesAhead(h.for)'
         /\ h.name \in {"initiateBoundaryEvents", "interruptActivity"} => Armed(h.for)'
         /\ h.name = "initiateBoundaryEvent" => \E b \in Attached(h.for)' : Node(b)' = h.arg

\* A token created at a boundary event.
BornBound(x, t, gone, shut) ==
  /\ Kind(x)' \notin ActivityKinds
  /\ Kind(x)' \in Boundaries =>
       \E a \in Live \ gone :
       /\ tokens'[x].link = a /\ a # t /\ commands # <<>> /\ Head(commands).for = a
       /\ tokens'[x].owner = tokens[a].owner /\ Kind(a) \in ActivityKinds
       /\ Node(x)' \in Range(BoundaryEvents(Node(a))) /\ Awaits(x)'
       /\ State(a) \in Inhabited /\ GoesAhead(a)'
       /\ \A b \in Attached(a)' : Node(b)' = Node(x)' => b = x
       /\ \A c \in Left(gone, shut) : c.for = a =>
            /\ c.name \notin Leaving
            /\ ~(c.name = "initiateBoundaryEvent" /\ c.arg = Node(x)')

NewBound(t, gone, shut, new) ==
  /\ \A c \in Range(new) : CommandBound(c)'
  /\ \A c, d : Before(new, c, d) => OrderBound(c, d)
  /\ \A c \in Range(new), d \in Left(gone, shut) :
       /\ OrderBound(d, c)
       /\ c.name = "initiateBoundaryEvent" => Attached(c.for) # {}
       /\ c.name \in Main /\ c.for \in Live \ {t} =>
            \/ tokens[c.for].owned
            \/ c.for \in Range(listening)
            \/ c.for \in waiting /\ c.name = "advanceToEntered"

BoundStep(t, gone, k, shut, new) ==
  /\ TokensTurn(t, gone, k) /\ QueueStep(gone, shut, new) /\ TokensGo(gone, shut)
  /\ TokenTurns(t, gone, shut, new) /\ HeadTurns(gone)
  /\ (\A x \in (created + 1)..(created + k) : BornBound(x, t, gone, shut))
  /\ NewBound(t, gone, shut, new)

\* Who listens once some tokens are removed listened before.
LEMMA ListeningTrimmed ==
  ASSUME IInv, NEW gone, listening' = StillListening(gone)
  PROVE  Range(listening') \subseteq Range(listening)
  <1>1. PICK keep : keep = Range(listening) \ gone
    OBVIOUS
  <1>2. PICK places : places = {i \in DOMAIN listening : listening[i] \notin gone}
    OBVIOUS
  <1>3. IsQueue(listening) /\ listening' = Kept(listening, places)
    BY <1>2 DEF IInv, Typed, ListeningOK, StillListening
  <1>4. \A i : i \in places <=> i \in DOMAIN listening /\ listening[i] \in keep
    BY <1>1, <1>2 DEF Range
  <1>5. PICK r : r = Kept(listening, places)
    OBVIOUS
  <1>6. Range(r) = Range(listening) \intersect keep
    BY <1>3, <1>4, <1>5, KeptOrder
  <1> QED
    BY <1>3, <1>5, <1>6

\* An activity is not left before the tokens at its boundary events are withdrawn.
LEMMA LeavesAlone ==
  ASSUME IInv, BoundariesOK, ~aborted, NEW t, NEW name \in Leaving, HeadIs(name, t)
  PROVE  Attached(t) = {}
  <1>1. /\ t \in Live /\ Head(commands) \in Queued /\ commands # <<>>
        /\ Head(commands).for = t /\ Head(commands).name \in Leaving
    BY HeadMoves, HeadFits DEF Leaving, Main, Moving, HeadIs
  <1> SUFFICES ASSUME NEW b \in Attached(t) PROVE FALSE
    OBVIOUS
  <1>2. b \in Live /\ Kind(b) \in Boundaries /\ tokens[b].link = t /\ t # None
    BY <1>1, TokenFacts DEF Attached
  <1>3. Kind(t) \in ActivityKinds
    BY <1>2 DEF BoundariesOK, BoundaryBound, BoundTo, Held
  <1>4. PICK d \in Queued : d.name = "deleteBoundary" /\ d.arg = t
    BY <1>1, <1>3 DEF BoundariesOK, CommandBound, MoveBound
  <1>5. d # Head(commands)
    BY <1>1, <1>4 DEF Leaving
  <1>6. Ahead(Head(commands), d)
    BY <1>4, <1>5, RestQueued DEF IInv, Typed
  <1> QED
    BY <1>1, <1>4, <1>6 DEF BoundariesOK, OrderBound

\* Tokens at boundary events, before and after.
LEMMA AttachedAfter ==
  ASSUME IInv, BoundariesOK, ~aborted, NEW t, NEW gone, NEW k, TokensTurn(t, gone, k),
         NEW shut, TokensGo(gone, shut)
  PROVE  /\ \A b \in Live \ gone : Held(b) => Node(b)' = Node(b) /\ Kind(b)' = Kind(b)
         /\ \A b \in Live \ gone : Held(b)' =>
              /\ Held(b) /\ tokens'[b].link = tokens[b].link /\ tokens'[b].owner = tokens[b].owner
              /\ Node(b)' = Node(b) /\ tokens[b].link \in Live \ gone
         /\ \A a \in Live \ gone : Attached(a) # {} =>
              Node(a)' = Node(a) /\ Kind(a)' = Kind(a) /\ tokens'[a].owner = tokens[a].owner
         /\ \A a \in Live : \A b \in Attached(a)' :
              b \in Live \ gone => b \in Attached(a) /\ Node(b)' = Node(b)
         /\ \A a \in Live \ gone : \A b \in Attached(a) :
              \/ Deletes(a)
              \/ b \in Live \ gone /\ Node(b)' = Node(b) /\ b \in Attached(a)'
              \/ b \in Live \ gone /\ b = t /\ Held(t) /\ tokens'[t].link = None
         /\ \A a \in Live \ gone : Deletes(a) => \A b \in Attached(a)' : b \notin Live
  <1>1. \A u \in Live \ gone : u # t => tokens'[u] = tokens[u] /\ Node(u)' = Node(u) /\ Kind(u)' = Kind(u)
    BY DEF TokensTurn, Node, Kind
  <1>2. \A u \in Live \ gone : u \in Live' /\ tokens'[u].owner = tokens[u].owner
                               /\ tokens'[u].link \in {tokens[u].link, None}
    BY <1>1 DEF TokensTurn
  <1>3. ASSUME NEW b \in Live \ gone, Held(b) PROVE Node(b)' = Node(b) /\ Kind(b)' = Kind(b)
    <2>1. ASSUME HeadIs("advanceToArrived", b) PROVE FALSE
      <3>1. CommandOK(Head(commands)) /\ Head(commands).for = b /\ Head(commands).name = "advanceToArrived"
        BY <2>1, HeadFits DEF HeadIs
      <3> QED
        BY <1>3, <3>1 DEF CommandOK, BoundaryFits, Held, Moving
    <2>2. Node(b)' = Node(b)
      BY <1>1, <2>1 DEF TokensTurn
    <2> QED
      BY <2>2 DEF Kind, TokensTurn
  <1>4. ASSUME NEW b \in Live \ gone, Held(b)'
        PROVE  /\ Held(b) /\ tokens'[b].link = tokens[b].link
               /\ Node(b)' = Node(b) /\ tokens[b].link \in Live \ gone
    <2>1. tokens'[b].link = tokens[b].link /\ tokens[b].link # None /\ Kind(b)' \in Boundaries
      BY <1>2, <1>4 DEF Held
    <2>2. Node(b)' = Node(b)
      BY <1>1, <2>1 DEF TokensTurn
    <2>3. Held(b)
      BY <2>1, <2>2 DEF Held, Kind, TokensTurn
    <2>4. tokens[b].link \in Live
      BY <2>3 DEF BoundariesOK, BoundaryBound, BoundTo
    <2> QED
      BY <2>1, <2>2, <2>3, <2>4 DEF TokensGo
  <1>5. ASSUME NEW a \in Live \ gone, Attached(a) # {} PROVE Node(a)' = Node(a) /\ Kind(a)' = Kind(a)
    <2>1. ~HeadIs("advanceToArrived", a)
      BY <1>5, LeavesAlone DEF Leaving
    <2>2. Node(a)' = Node(a)
      BY <1>1, <2>1 DEF TokensTurn
    <2> QED
      BY <2>2 DEF Kind, TokensTurn
  <1>6. \A a \in Live : a # None
    BY TokenFacts
  <1>7. ASSUME NEW a \in Live, NEW b \in Attached(a)', b \in Live \ gone
        PROVE  b \in Attached(a) /\ Node(b)' = Node(b)
    <2>1. Held(b)' /\ tokens'[b].link = a
      BY <1>6, <1>7 DEF Attached, Held
    <2>2. Held(b) /\ tokens[b].link = a /\ Node(b)' = Node(b)
      BY <1>4, <1>7, <2>1
    <2> QED
      BY <1>7, <2>2 DEF Attached, Held
  <1>8. ASSUME NEW a \in Live \ gone, NEW b \in Attached(a), ~Deletes(a)
        PROVE  /\ b \in Live \ gone
               /\ \/ Node(b)' = Node(b) /\ b \in Attached(a)'
                  \/ b = t /\ Held(t) /\ tokens'[t].link = None
    <2>1. b \in Live /\ Held(b) /\ tokens[b].link = a
      BY <1>6, <1>8 DEF Attached, Held
    <2>2. b \notin gone
      BY <1>8, <2>1 DEF TokensGo
    <2>3. b \in Live' /\ Node(b)' = Node(b) /\ Kind(b)' \in Boundaries
      BY <1>2, <1>3, <2>1, <2>2 DEF Held
    <2>4. CASE tokens'[b].link = a
      BY <2>1, <2>2, <2>3, <2>4 DEF Attached
    <2>5. CASE tokens'[b].link # a
      BY <1>1, <1>2, <2>1, <2>2, <2>5
    <2> QED
      BY <2>4, <2>5
  <1>9. ASSUME NEW a \in Live \ gone, Deletes(a), NEW b \in Attached(a)', b \in Live PROVE FALSE
    <2>1. b \in gone \/ b \in Attached(a)
      BY <1>7, <1>9
    <2>2. b \in gone
      BY <1>9, <2>1 DEF TokensGo
    <2>3. b \in (created + 1)..(created + k)
      BY <2>2 DEF TokensTurn, Attached
    <2> QED
      BY <1>9, <2>3, TokenFacts DEF IInv, Typed, TokensTurn
  <1> QED
    BY <1>2, <1>3, <1>4, <1>5, <1>7, <1>8, <1>9

\* What stays queued.
LEMMA StaysQueued ==
  ASSUME IInv, NEW gone, NEW shut, NEW new, QueueStep(gone, shut, new),
         NEW c \in Queued, c.name \notin ByScope, c.for \notin gone
  PROVE  c \in Queued' \/ (commands # <<>> /\ c = Head(commands))
  <1>1. commands # <<>> /\ (c = Head(commands) \/ c \in Rest)
    <2>1. commands # <<>>
      BY NoneQueued DEF Queued
    <2> QED
      BY <2>1, RestQueued DEF IInv, Typed
  <1> QED
    BY <1>1 DEF QueueStep, Left, Stays

LEMMA StaysPending ==
  ASSUME IInv, NEW gone, NEW shut, NEW new, QueueStep(gone, shut, new),
         NEW u, u \notin gone, NEW names, names \intersect ByScope = {}, Pending(names, u)
  PROVE  \/ Pending(names, u)'
         \/ commands # <<>> /\ Head(commands).for = u /\ Head(commands).name \in names
  <1>1. PICK c \in Queued : c.name \in names /\ c.for = u
    BY DEF Pending
  <1>2. c \in Queued' \/ (commands # <<>> /\ c = Head(commands))
    BY <1>1, StaysQueued
  <1> QED
    BY <1>1, <1>2 DEF Pending

LEMMA DoomStays ==
  ASSUME IInv, NEW gone, NEW shut, NEW new, QueueStep(gone, shut, new), TokensGo(gone, shut),
         HeadTurns(gone), NEW v \in Live \ gone, Doomed(tokens[v].owner), NEW s, s = tokens[v].owner
  PROVE  Doomed(s)'
  <1>1. s \notin gone
    BY DEF TokensGo
  <1>2. \/ Pending({"advanceToFailed", "terminate"}, s)'
        \/ /\ commands # <<>> /\ Head(commands).for = s
           /\ Head(commands).name \in {"advanceToFailed", "terminate"}
    BY <1>1, StaysPending DEF Doomed, ByScope
  <1> QED
    BY <1>2 DEF HeadTurns, Doomed

\* The tokens at boundary events stay as they are to be.
LEMMA BoundariesStayBound ==
  ASSUME IInv, BoundariesOK, ~aborted, NEW t, NEW gone, NEW k, NEW shut, NEW new,
         BoundStep(t, gone, k, shut, new), NEW b \in Live'
  PROVE  BoundaryBound(b)'
  <1>1. /\ TokensTurn(t, gone, k) /\ QueueStep(gone, shut, new) /\ TokensGo(gone, shut)
        /\ TokenTurns(t, gone, shut, new) /\ HeadTurns(gone)
        /\ \A x \in (created + 1)..(created + k) : BornBound(x, t, gone, shut)
    BY DEF BoundStep
  <1>2. model' = model /\ \A n : BoundaryEvents(n)' = BoundaryEvents(n)
    BY <1>1 DEF TokensTurn, BoundaryEvents
  <1>3. \A u \in Live \ gone : u # t =>
          tokens'[u] = tokens[u] /\ Node(u)' = Node(u) /\ Kind(u)' = Kind(u) /\ State(u)' = State(u)
    BY <1>1 DEF TokensTurn, Node, Kind, State
  <1>4. CASE b \in (created + 1)..(created + k)
    <2>1. BornBound(b, t, gone, shut)
      BY <1>1, <1>4
    <2>2. CASE Kind(b)' \in Boundaries
      <3>1. PICK a \in Live \ gone :
              /\ tokens'[b].link = a /\ a # t
              /\ tokens'[b].owner = tokens[a].owner /\ Kind(a) \in ActivityKinds
              /\ Node(b)' \in Range(BoundaryEvents(Node(a))) /\ Awaits(b)'
        BY <2>1, <2>2 DEF BornBound
      <3>2. a # None /\ a \in Live'
        BY <1>1, <3>1, TokenFacts DEF TokensTurn
      <3>3. tokens'[a].owner = tokens'[b].owner /\ Kind(a)' \in ActivityKinds
            /\ Node(b)' \in Range(BoundaryEvents(Node(a)))'
        BY <1>2, <1>3, <3>1
      <3> QED
        BY <3>1, <3>2, <3>3 DEF BoundaryBound, BoundTo
    <2> QED
      BY <2>2 DEF BoundaryBound, Held
  <1>5. CASE b \in Live \ gone
    <2>1. Kind(b)' \in Boundaries /\ tokens'[b].link = None => State(b)' \notin {"ENTERED", "BUSY"}
      <3>1. CASE b = t
        BY <1>1, <1>5, <3>1 DEF TokenTurns
      <3>2. CASE b # t
        BY <1>3, <1>5, <3>2 DEF BoundariesOK, BoundaryBound
      <3> QED
        BY <3>1, <3>2
    <2>2. ASSUME Held(b)'
          PROVE  BoundTo(b, tokens[b].link)' /\ Awaits(b)'
      <3>1. PICK a : a = tokens[b].link
        OBVIOUS
      <3>2. /\ Held(b) /\ tokens'[b].link = a /\ tokens'[b].owner = tokens[b].owner
            /\ Node(b)' = Node(b) /\ a \in Live \ gone
        BY <1>1, <1>5, <2>2, <3>1, AttachedAfter
      <3>3. /\ tokens[a].owner = tokens[b].owner /\ Kind(a) \in ActivityKinds
            /\ Node(b) \in Range(BoundaryEvents(Node(a))) /\ Awaits(b)
        BY <1>5, <3>1, <3>2 DEF BoundariesOK, BoundaryBound, BoundTo
      <3>4. b \in Attached(a)
        BY <1>5, <3>1, <3>2 DEF Attached, Held
      <3>5. Node(a)' = Node(a) /\ Kind(a)' = Kind(a) /\ tokens'[a].owner = tokens[a].owner
        BY <1>1, <3>2, <3>4, AttachedAfter
      <3>6. Awaits(b)'
        <4>1. CASE b = t
          BY <1>1, <1>5, <2>2, <4>1 DEF TokenTurns
        <4>2. CASE b # t /\ State(b) = "BUSY"
          BY <1>3, <1>5, <4>2 DEF Awaits
        <4>3. CASE Pending({"advanceToBusy", "advanceToFailed", "handleFailure"}, b)
          <5>1. \/ Pending({"advanceToBusy", "advanceToFailed", "handleFailure"}, b)'
                \/ /\ commands # <<>> /\ Head(commands).for = b
                   /\ Head(commands).name \in {"advanceToBusy", "advanceToFailed", "handleFailure"}
            BY <1>1, <1>5, <4>3, StaysPending DEF ByScope
          <5> QED
            BY <1>1, <1>5, <2>2, <5>1 DEF Awaits, HeadTurns
        <4>4. CASE Doomed(tokens[b].owner)
          <5>1. PICK s : s = tokens[b].owner
            OBVIOUS
          <5>2. Doomed(s)'
            BY <1>1, <1>5, <4>4, <5>1, DoomStays
          <5> QED
            BY <3>2, <5>1, <5>2 DEF Awaits
        <4> QED
          BY <3>3, <4>1, <4>2, <4>3, <4>4 DEF Awaits
      <3>7. a \in Live'
        BY <1>1, <3>2 DEF TokensTurn
      <3> QED
        BY <1>2, <3>2, <3>3, <3>5, <3>6, <3>7 DEF BoundTo
    <2> QED
      BY <2>1, <2>2 DEF BoundaryBound
  <1> QED
    BY <1>1, <1>4, <1>5 DEF TokensTurn

\* An activity with a token at a boundary event goes on.
LEMMA ActivityGoesAhead ==
  ASSUME IInv, BoundariesOK, ~aborted, NEW t, NEW gone, NEW k, NEW shut, NEW new,
         BoundStep(t, gone, k, shut, new), NEW a \in Live \ gone, a # t,
         Attached(a) # {}, Attached(a)' # {}, ~Deletes(a)
  PROVE  GoesAhead(a)'
  <1>1. /\ TokensTurn(t, gone, k) /\ QueueStep(gone, shut, new) /\ TokensGo(gone, shut)
        /\ TokenTurns(t, gone, shut, new) /\ HeadTurns(gone)
    BY DEF BoundStep
  <1>2. GoesAhead(a) /\ tokens'[a] = tokens[a] /\ State(a)' = State(a)
    BY <1>1 DEF BoundariesOK, ActivityBound, TokensTurn, State
  <1> SUFFICES ASSUME State(a) # "BUSY" PROVE GoesAhead(a)'
    BY <1>2 DEF GoesAhead
  <1>3. CASE Pending(Onward, a)
    <2>1. PICK c \in Queued : c.name \in Onward /\ c.for = a
      BY <1>3 DEF Pending
    <2>2. c.name # "run"
      <3>1. CommandOK(c)
        BY DEF IInv, CommandsOK
      <3> QED
        BY <2>1, <3>1 DEF CommandOK, TokenFits
    <2>3. c.name \notin ByScope
      BY <2>1, <2>2 DEF Onward, Moving, ByScope
    <2>4. c \in Queued' \/ (commands # <<>> /\ c = Head(commands))
      BY <1>1, <2>1, <2>3, StaysQueued
    <2>5. CASE c \in Queued'
      BY <2>1, <2>5 DEF GoesAhead, Pending
    <2>6. CASE commands # <<>> /\ c = Head(commands)
      BY <1>1, <2>1, <2>6 DEF HeadTurns
    <2> QED
      BY <2>4, <2>5, <2>6
  <1>4. CASE Doomed(tokens[a].owner)
    <2>1. PICK s : s = tokens[a].owner
      OBVIOUS
    <2>2. Doomed(s)'
      BY <1>1, <1>4, <2>1, DoomStays
    <2> QED
      BY <1>2, <2>1, <2>2 DEF GoesAhead
  <1>5. ASSUME NEW b \in Attached(a), Upset(b) PROVE GoesAhead(a)'
    <2>1. b \in Live /\ Held(b) /\ tokens[b].link = a
      BY TokenFacts DEF Attached, Held
    <2>2. \/ b \in Live \ gone /\ b \in Attached(a)'
          \/ b \in Live \ gone /\ b = t /\ Held(t) /\ tokens'[t].link = None
      BY <1>1, AttachedAfter
    <2>3. CASE b \in Live \ gone /\ b = t /\ Held(t) /\ tokens'[t].link = None
      BY <1>1, <1>5, <2>1, <2>3 DEF TokenTurns, Completes
    <2>4. CASE b \in Live \ gone /\ b \in Attached(a)'
      <3>1. \/ Pending({"advanceToFailed", "handleFailure"}, b)'
            \/ /\ commands # <<>> /\ Head(commands).for = b
               /\ Head(commands).name \in {"advanceToFailed", "handleFailure"}
        BY <1>1, <1>5, <2>4, StaysPending DEF Upset, ByScope
      <3>2. CASE Pending({"advanceToFailed", "handleFailure"}, b)'
        BY <2>4, <3>2 DEF GoesAhead, Upset
      <3>3. CASE /\ commands # <<>> /\ Head(commands).for = b
                 /\ Head(commands).name \in {"advanceToFailed", "handleFailure"}
        BY <1>1, <2>1, <2>4, <3>3 DEF HeadTurns
      <3> QED
        BY <3>1, <3>2, <3>3
    <2> QED
      BY <2>2, <2>3, <2>4
  <1> QED
    BY <1>2, <1>3, <1>4, <1>5 DEF GoesAhead

\* Its boundary events stay armed.
LEMMA ActivityStaysArmed ==
  ASSUME IInv, BoundariesOK, ~aborted, NEW t, NEW gone, NEW k, NEW shut, NEW new,
         BoundStep(t, gone, k, shut, new), NEW a \in Live \ gone, a # t,
         Kind(a) \in ActivityKinds, State(a) \in {"ENTERED", "BUSY"}
  PROVE  Armed(a)'
  <1>1. /\ TokensTurn(t, gone, k) /\ QueueStep(gone, shut, new) /\ TokensGo(gone, shut)
        /\ TokenTurns(t, gone, shut, new) /\ HeadTurns(gone)
    BY DEF BoundStep
  <1>2. Armed(a)
    BY DEF BoundariesOK, ActivityBound
  <1>3. Node(a)' = Node(a) /\ \A n : BoundaryEvents(n)' = BoundaryEvents(n)
    BY <1>1 DEF TokensTurn, Node, BoundaryEvents
  <1>4. ~Deletes(a)
    <2> SUFFICES ASSUME Deletes(a) PROVE FALSE
      OBVIOUS
    <2>1. Head(commands) \in Queued
      BY HeadFits DEF Deletes
    <2> QED
      BY <2>1 DEF Deletes, BoundariesOK, CommandBound, RemovalBound
  <1>5. CASE Pending({"initiateBoundaryEvents", "interruptActivity"}, a)
    <2>1. \/ Pending({"initiateBoundaryEvents", "interruptActivity"}, a)'
          \/ /\ commands # <<>> /\ Head(commands).for = a
             /\ Head(commands).name \in {"initiateBoundaryEvents", "interruptActivity"}
      BY <1>1, <1>5, StaysPending DEF ByScope
    <2> QED
      BY <1>1, <2>1 DEF Armed, HeadTurns
  <1>6. ASSUME \A n \in Range(BoundaryEvents(Node(a))) : ArmedAt(a, n),
               ~Pending({"initiateBoundaryEvents", "interruptActivity"}, a)',
               NEW n \in Range(BoundaryEvents(Node(a)))
        PROVE  ArmedAt(a, n)'
    <2>1. ASSUME NEW b \in Attached(a), Node(b) = n PROVE ArmedAt(a, n)'
      <3>1. \/ Node(b)' = Node(b) /\ b \in Attached(a)'
            \/ b \in Live \ gone /\ b = t /\ Held(t) /\ tokens'[t].link = None
        BY <1>1, <1>4, AttachedAfter
      <3>2. CASE b \in Live \ gone /\ b = t /\ Held(t) /\ tokens'[t].link = None
        <4>1. PICK c \in Range(new) :
                /\ c.for = tokens[t].link
                /\ c.name = "interruptActivity" \/ (c.name = "initiateBoundaryEvent" /\ c.arg = Node(t))
          BY <1>1, <3>2 DEF TokenTurns, Completes
        <4>2. c \in Queued' /\ c.for = a
          BY <1>1, <3>2, <4>1 DEF QueueStep, Attached
        <4>3. c.name = "initiateBoundaryEvent" /\ c.arg = n
          BY <1>6, <2>1, <3>2, <4>1, <4>2 DEF Pending
        <4> QED
          BY <4>2, <4>3 DEF ArmedAt
      <3>3. CASE Node(b)' = Node(b) /\ b \in Attached(a)'
        BY <2>1, <3>3 DEF ArmedAt
      <3> QED
        BY <3>1, <3>2, <3>3
    <2>2. ASSUME NEW c \in Queued, c.name = "initiateBoundaryEvent", c.for = a, c.arg = n
          PROVE  ArmedAt(a, n)'
      <3>1. c \in Queued' \/ (commands # <<>> /\ c = Head(commands))
        BY <1>1, <2>2, StaysQueued DEF ByScope
      <3>2. CASE c \in Queued'
        BY <2>2, <3>2 DEF ArmedAt
      <3>3. CASE commands # <<>> /\ c = Head(commands)
        BY <1>1, <2>2, <3>3 DEF ArmedAt, HeadTurns
      <3> QED
        BY <3>1, <3>2, <3>3
    <2> QED
      BY <1>6, <2>1, <2>2 DEF ArmedAt
  <1>7. CASE \A n \in Range(BoundaryEvents(Node(a))) : ArmedAt(a, n)
    <2>1. ASSUME ~Pending({"initiateBoundaryEvents", "interruptActivity"}, a)',
                 NEW n \in Range(BoundaryEvents(Node(a)))'
          PROVE  ArmedAt(a, n)'
      BY <1>3, <1>6, <1>7, <2>1
    <2> QED
      BY <2>1 DEF Armed
  <1> QED
    BY <1>2, <1>5, <1>7 DEF Armed

LEMMA ActivitiesStayBound ==
  ASSUME IInv, BoundariesOK, ~aborted, NEW t, NEW gone, NEW k, NEW shut, NEW new,
         BoundStep(t, gone, k, shut, new), NEW a \in Live'
  PROVE  ActivityBound(a)'
  <1>1. /\ TokensTurn(t, gone, k) /\ QueueStep(gone, shut, new) /\ TokensGo(gone, shut)
        /\ TokenTurns(t, gone, shut, new) /\ HeadTurns(gone)
        /\ \A x \in (created + 1)..(created + k) : BornBound(x, t, gone, shut)
    BY DEF BoundStep
  <1>2. /\ \A u \in Live' : u \in Live \ gone \/ (u \in (created + 1)..(created + k) /\ u \notin Live)
        /\ \A u \in Live \ gone : u \in Live'
    <2>1. created \in Nat /\ \A u \in Live : u \in 1..created
      BY FlowAssumption DEF IInv, Typed, Ids
    <2> QED
      BY <1>1, <2>1 DEF TokensTurn
  <1>3. \A u \in Live \ gone : u # t =>
          tokens'[u] = tokens[u] /\ Node(u)' = Node(u) /\ Kind(u)' = Kind(u) /\ State(u)' = State(u)
    BY <1>1 DEF TokensTurn, Node, Kind, State
  \* A token attached afterwards was so before, or it has been created.
  <1>4. ASSUME NEW b \in Attached(a)'
        PROVE  \/ b \in Live \ gone /\ a \in Live \ gone /\ b \in Attached(a) /\ Node(b)' = Node(b)
               \/ /\ a \in Live \ gone /\ a # t /\ State(a) \in Inhabited /\ GoesAhead(a)'
                  /\ \A c \in Attached(a)' : Node(c)' = Node(b)' => c = b
    <2>1. b \in Live' /\ Kind(b)' \in Boundaries /\ tokens'[b].link = a
      BY DEF Attached
    <2>2. CASE b \in Live \ gone
      <3>1. Held(b)'
        <4>1. None \notin Live'
          <5>1. None \notin Live /\ None \notin (created + 1)..(created + k)
            BY FlowAssumption DEF IInv, Typed, Ids, None
          <5> QED
            BY <1>2, <5>1
        <4> QED
          BY <2>1, <4>1 DEF Held
      <3>2. tokens[b].link = a /\ a \in Live \ gone
        BY <1>1, <2>1, <2>2, <3>1, AttachedAfter
      <3> QED
        BY <1>1, <2>2, <3>2, AttachedAfter
    <2>3. CASE b \in (created + 1)..(created + k)
      <3>1. BornBound(b, t, gone, shut)
        BY <1>1, <2>3
      <3> QED
        BY <2>1, <3>1 DEF BornBound
    <2> QED
      BY <1>2, <2>1, <2>2, <2>3
  <1>5. ASSUME Attached(a)' # {} PROVE State(a)' \in Inhabited /\ GoesAhead(a)'
    <2>1. CASE a = t /\ a \in Live \ gone
      BY <1>1, <1>5, <2>1 DEF TokenTurns
    <2>2. CASE a # t /\ a \in Live \ gone
      <3>1. PICK b : b \in Attached(a)'
        BY <1>5
      <3>2. CASE b \in Live \ gone /\ b \in Attached(a)
        <4>1. State(a) \in Inhabited /\ State(a)' = State(a)
          BY <1>3, <2>2, <3>2 DEF BoundariesOK, ActivityBound
        <4>2. ~Deletes(a)
          BY <1>1, <2>2, <3>1, <3>2, AttachedAfter
        <4>3. Attached(a) # {}
          BY <3>2
        <4> QED
          BY <1>5, <2>2, <4>1, <4>2, <4>3, ActivityGoesAhead
      <3>3. CASE State(a) \in Inhabited /\ GoesAhead(a)'
        BY <1>3, <2>2, <3>3
      <3> QED
        BY <1>4, <3>1, <3>2, <3>3
    <2>3. CASE a \notin Live \ gone
      BY <1>4, <1>5, <2>3
    <2> QED
      BY <2>1, <2>2, <2>3
  <1>6. ASSUME NEW b \in Attached(a)', NEW c \in Attached(a)', Node(b)' = Node(c)' PROVE b = c
    <2>1. CASE /\ b \in Live \ gone /\ a \in Live \ gone /\ b \in Attached(a) /\ Node(b)' = Node(b)
               /\ c \in Attached(a) /\ Node(c)' = Node(c)
      BY <1>6, <2>1 DEF BoundariesOK, ActivityBound
    <2>2. CASE \A d \in Attached(a)' : Node(d)' = Node(b)' => d = b
      BY <1>6, <2>2
    <2>3. CASE \A d \in Attached(a)' : Node(d)' = Node(c)' => d = c
      BY <1>6, <2>3
    <2> QED
      BY <1>4, <2>1, <2>2, <2>3
  <1>7. ASSUME Kind(a)' \in ActivityKinds, State(a)' \in {"ENTERED", "BUSY"} PROVE Armed(a)'
    <2>1. a \in Live \ gone
      BY <1>1, <1>2, <1>7 DEF BornBound
    <2>2. CASE a = t
      BY <1>1, <1>7, <2>1, <2>2 DEF TokenTurns
    <2>3. CASE a # t
      BY <1>3, <1>7, <2>1, <2>3, ActivityStaysArmed
    <2> QED
      BY <2>2, <2>3
  <1> QED
    BY <1>5, <1>6, <1>7 DEF ActivityBound

\* What is attached to a token afterwards.
LEMMA AttachedOrBorn ==
  ASSUME IInv, BoundariesOK, ~aborted, NEW t, NEW gone, NEW k, NEW shut, NEW new,
         BoundStep(t, gone, k, shut, new), NEW u \in Live \ gone, NEW b \in Attached(u)'
  PROVE  \/ b \in Attached(u) /\ Node(b)' = Node(b) /\ ~Deletes(u)
         \/ /\ commands # <<>> /\ Head(commands).for = u
            /\ \A c \in Left(gone, shut) : c.for = u =>
                 /\ c.name \notin Leaving
                 /\ ~(c.name = "initiateBoundaryEvent" /\ c.arg = Node(b)')
  <1>1. /\ TokensTurn(t, gone, k) /\ TokensGo(gone, shut)
        /\ \A x \in (created + 1)..(created + k) : BornBound(x, t, gone, shut)
    BY DEF BoundStep
  <1>2. CASE b \in Live \ gone
    BY <1>1, <1>2, AttachedAfter
  <1>3. CASE b \in (created + 1)..(created + k)
    <2>1. BornBound(b, t, gone, shut) /\ Kind(b)' \in Boundaries /\ tokens'[b].link = u
      BY <1>1, <1>3 DEF Attached
    <2> QED
      BY <2>1 DEF BornBound
  <1> QED
    BY <1>1, <1>2, <1>3 DEF TokensTurn, Attached

\* The commands left stay as they are to be.
LEMMA LeftStaysBound ==
  ASSUME IInv, BoundariesOK, ~aborted, NEW t, NEW gone, NEW k, NEW shut, NEW new,
         BoundStep(t, gone, k, shut, new), NEW c \in Left(gone, shut)
  PROVE  CommandBound(c)'
  <1>1. /\ TokensTurn(t, gone, k) /\ QueueStep(gone, shut, new) /\ TokensGo(gone, shut)
        /\ TokenTurns(t, gone, shut, new) /\ NewBound(t, gone, shut, new)
    BY DEF BoundStep
  <1>2. /\ c \in Rest /\ c \in Queued /\ CommandOK(c) /\ commands # <<>>
        /\ InOrder(Head(commands), c) /\ c.for \notin gone /\ CommandBound(c)
    <2>1. c \in Rest /\ c.for \notin gone
      BY DEF Left, Stays
    <2>2. commands # <<>>
      BY <2>1, RestQueued DEF IInv, Typed
    <2>3. c \in Queued /\ CommandOK(c) /\ InOrder(Head(commands), c)
      BY <2>1, <2>2, HeadFits
    <2> QED
      BY <2>1, <2>2, <2>3 DEF BoundariesOK
  <1>3. \A d \in Queued' : d \in Range(new) \/ (d \in Left(gone, shut) /\ d \in Queued)
    <2>1. \A d \in Left(gone, shut) : d \in Queued
      BY RestQueued DEF Left, IInv, Typed
    <2> QED
      BY <1>1, <2>1 DEF QueueStep
  <1>4. RemovalBound(c)'
    <2> SUFFICES ASSUME c.name = "deleteBoundary" PROVE RemovalBound(c)'
      BY DEF RemovalBound
    <2>1. c.arg \in 1..created /\ created \in Nat /\ k \in Nat /\ created' = created + k
      BY <1>1, <1>2, FlowAssumption DEF CommandBound, RemovalBound, TokensTurn, IInv, Typed, Ids
    <2>2. c.arg \in 1..created'
      BY <2>1
    <2>3. ASSUME c.arg \in Live'
          PROVE  /\ Kind(c.arg)' \in ActivityKinds /\ State(c.arg)' \notin {"ENTERED", "BUSY"}
                 /\ c.for = tokens'[c.arg].owner
      <3>1. c.arg \in Live \ gone
        BY <1>1, <2>1, <2>3 DEF TokensTurn
      <3>2. /\ Kind(c.arg) \in ActivityKinds /\ State(c.arg) \notin {"ENTERED", "BUSY"}
            /\ c.for = tokens[c.arg].owner
        BY <1>2, <3>1 DEF CommandBound, RemovalBound
      <3>3. CASE c.arg = t
        BY <1>1, <3>1, <3>2, <3>3 DEF TokensTurn, TokenTurns, LeftBound
      <3>4. CASE c.arg # t
        BY <1>1, <3>1, <3>2, <3>4 DEF TokensTurn, Kind, Node, State
      <3> QED
        BY <3>3, <3>4
    <2> QED
      BY <2>2, <2>3 DEF RemovalBound
  <1>5. CASE c.name = "broadcastSignal"
    BY <1>4, <1>5 DEF CommandBound, MoveBound, FailureBound, InitiationBound, Leaving
  <1>6. CASE c.for = t /\ c.for \in Live
    BY <1>1, <1>2, <1>4, <1>6 DEF CommandBound, TokenTurns, LeftBound
  <1>7. CASE c.for # t /\ c.for \in Live
    <2>1. PICK u : u = c.for
      OBVIOUS
    <2>2. u \in Live \ gone /\ u # t
      BY <1>2, <1>7, <2>1
    <2>3. /\ tokens'[u] = tokens[u] /\ Node(u)' = Node(u) /\ Kind(u)' = Kind(u) /\ State(u)' = State(u)
          /\ \A n : BoundaryEvents(n)' = BoundaryEvents(n)
      BY <1>1, <2>2 DEF TokensTurn, Node, Kind, State, BoundaryEvents
    \* What is enqueued for the token, which is not the one changed.
    <2>4. \A d \in Range(new) : d.name \in Main /\ d.for = u =>
            \/ tokens[u].owned
            \/ u \in Range(listening)
            \/ u \in waiting /\ d.name = "advanceToEntered"
      BY <1>1, <2>2 DEF NewBound
    <2>5. MoveBound(c)'
      <3>1. MoveBound(c)
        BY <1>2 DEF CommandBound
      <3>2. ASSUME c.name \in Leaving, Kind(u) \in ActivityKinds, Attached(u)' # {}
            PROVE  \E d \in Queued' : d.name = "deleteBoundary" /\ d.arg = u
        <4>1. PICK b : b \in Attached(u)'
          BY <3>2
        <4>2. b \in Attached(u) /\ ~Deletes(u)
          BY <2>1, <2>2, <3>2, <4>1, AttachedOrBorn
        <4>3. PICK d \in Queued : d.name = "deleteBoundary" /\ d.arg = u
          BY <2>1, <3>1, <3>2, <4>2 DEF MoveBound
        <4>4. d.for = tokens[u].owner
          BY <2>2, <4>3 DEF BoundariesOK, CommandBound, RemovalBound
        <4>5. d \in Rest
          BY <1>2, <4>2, <4>3, RestQueued DEF Deletes, IInv, Typed
        <4>6. d.for \notin gone \union shut
          BY <1>1, <2>2, <4>4 DEF TokensGo
        <4> QED
          BY <1>1, <4>3, <4>5, <4>6 DEF QueueStep, Left, Stays
      <3> QED
        BY <2>1, <2>3, <3>1, <3>2 DEF MoveBound
    <2>6. FailureBound(c)'
      <3>1. FailureBound(c)
        BY <1>2 DEF CommandBound
      <3>2. ASSUME Kind(u) = "task" \/ Held(u), Unmoved(u), u \notin Range(listening)
            PROVE  Unmoved(u)' /\ u \notin Range(listening')
        <4>1. ~tokens[u].owned
          BY <2>2, <3>2, TokenFacts DEF TokenShaped, Held, Boundaries, Scopes
        <4>2. u \notin waiting
          BY <3>2, NotAtGateway DEF Held, Boundaries, Gateways
        <4>3. u \notin Range(listening')
          BY <1>1, <2>2, <3>2 DEF TokensTurn
        <4> QED
          BY <1>3, <2>4, <3>2, <4>1, <4>2, <4>3 DEF Unmoved
      <3> QED
        BY <2>1, <2>3, <3>1, <3>2 DEF FailureBound, Held
    <2>7. InitiationBound(c)'
      <3>1. InitiationBound(c)
        BY <1>2 DEF CommandBound
      <3>2. ASSUME c.name = "initiateBoundaryEvents"
            PROVE  /\ Attached(u)' = {} /\ Pending({"advanceToBusy", "advanceToFailed"}, u)'
                   /\ ~Pending({"initiateBoundaryEvent"}, u)'
        <4>1. Head(commands).for # u
          BY <1>2, <2>1, <3>2 DEF InOrder
        <4>2. Attached(u) = {} /\ Pending({"advanceToBusy", "advanceToFailed"}, u)
              /\ ~Pending({"initiateBoundaryEvent"}, u)
          BY <2>1, <3>1, <3>2 DEF InitiationBound
        <4>3. Attached(u)' = {}
          BY <2>2, <4>1, <4>2, AttachedOrBorn
        <4>4. Pending({"advanceToBusy", "advanceToFailed"}, u)'
          BY <1>1, <2>2, <4>1, <4>2, StaysPending DEF ByScope
        <4>5. ~Pending({"initiateBoundaryEvent"}, u)'
          BY <1>1, <1>3, <4>2 DEF Pending, NewBound
        <4> QED
          BY <4>3, <4>4, <4>5
      <3>3. ASSUME c.name = "initiateBoundaryEvent", GoneBeyond(c) PROVE GoneBeyond(c)'
        <4>1. c \notin Range(new)
          BY <1>1, <3>3 DEF NewBound, OrderBound
        <4>2. State(u) # "BUSY" /\ ~tokens[u].owned
          BY <2>1, <3>3 DEF GoneBeyond
        <4>3. u \notin Range(listening)
          BY <4>2 DEF IInv, ListeningOK
        <4>4. \A d, e : Before(new, d, e) => e \in Range(new)
          BY DEF Before, Range
        <4>5. \A d : Ahead(d, c)' => Ahead(d, c) /\ d \in Queued
          BY <1>1, <1>3, <4>1, <4>4, RestQueued DEF QueueStep, Left, IInv, Typed
        <4>6. \A d \in Queued' : d.name \in Main /\ d.for = u => d.name = "advanceToEntered"
          BY <1>3, <2>1, <2>4, <3>3, <4>2, <4>3 DEF GoneBeyond
        <4>7. \A d \in Queued' : d.name \in Main /\ d.for = u => ~Ahead(d, c)'
          BY <2>1, <3>3, <4>5 DEF GoneBeyond
        <4> QED
          BY <2>1, <2>3, <3>3, <4>6, <4>7 DEF GoneBeyond
      <3>4. ASSUME c.name = "initiateBoundaryEvent", NEW b \in Attached(u)' PROVE Node(b)' # c.arg
        <4>1. \A d \in Attached(u) : Node(d) # c.arg
          BY <2>1, <3>1, <3>4 DEF InitiationBound
        <4> QED
          BY <2>1, <2>2, <3>4, <4>1, AttachedOrBorn
      <3> QED
        BY <2>1, <2>3, <3>1, <3>2, <3>3, <3>4 DEF InitiationBound
    <2> QED
      BY <1>4, <2>5, <2>6, <2>7 DEF CommandBound
  <1> QED
    BY <1>2, <1>5, <1>6, <1>7 DEF CommandOK

\* The tokens at boundary events, the activities and the commands stay as they are to be.
LEMMA BoundariesStay ==
  ASSUME IInv, BoundariesOK, ~aborted, NEW t, NEW gone, NEW k, NEW shut, NEW new,
         BoundStep(t, gone, k, shut, new)
  PROVE  BoundariesOK'
  <1>1. \A u \in Live' : BoundaryBound(u)' /\ ActivityBound(u)'
    BY BoundariesStayBound, ActivitiesStayBound
  <1>2. QueueStep(gone, shut, new) /\ NewBound(t, gone, shut, new)
    BY DEF BoundStep
  <1>3. \A c \in Queued' : CommandBound(c)'
    BY <1>2, LeftStaysBound DEF QueueStep, NewBound
  <1>4. ASSUME NEW c \in Queued', NEW d \in Queued', Ahead(c, d)' PROVE OrderBound(c, d)
    <2>1. CASE c \in Left(gone, shut) /\ d \in Left(gone, shut) /\ Ahead(c, d)
      <3>1. c \in Queued /\ d \in Queued
        BY <2>1, RestQueued DEF Left, IInv, Typed
      <3> QED
        BY <2>1, <3>1 DEF BoundariesOK
    <2>2. CASE c \in Left(gone, shut) /\ d \in Range(new)
      BY <1>2, <2>2 DEF NewBound
    <2>3. CASE Before(new, c, d)
      BY <1>2, <2>3 DEF NewBound
    <2> QED
      BY <1>2, <1>4, <2>1, <2>2, <2>3 DEF QueueStep
  <1>5. aborted' = aborted
    BY DEF BoundStep, TokensTurn
  <1> QED
    BY <1>1, <1>3, <1>4, <1>5 DEF BoundariesOK

-----------------------------------------------------------------------------
\* A token is advanced where it is, and others are as they were.
InPlace(t) ==
  /\ model' = model /\ created' = created /\ aborted' = aborted /\ Live' = Live
  /\ \A u \in Live : u # t => tokens'[u] = tokens[u]
  /\ t \in Live =>
       /\ tokens'[t].owner = tokens[t].owner /\ tokens'[t].link \in {tokens[t].link, None}
       /\ Node(t)' = Node(t) \/ (HeadIs("advanceToArrived", t) /\ Kind(t)' \notin Boundaries)
  /\ Range(listening') \subseteq Range(listening) \union {t}

\* Only activities have tokens at boundary events.
LEMMA OnlyActivities ==
  ASSUME IInv, BoundariesOK, ~aborted, NEW a \in Live, Attached(a) # {}
  PROVE  Kind(a) \in ActivityKinds /\ BoundaryEvents(Node(a)) # <<>>
  <1>1. PICK b : b \in Attached(a)
    OBVIOUS
  <1>2. b \in Live /\ Held(b) /\ tokens[b].link = a
    BY <1>1, TokenFacts DEF Attached, Held
  <1>3. BoundTo(b, a)
    BY <1>2 DEF BoundariesOK, BoundaryBound
  <1> QED
    BY <1>3, NoneQueued DEF BoundTo

\* What is attached to the token advanced is so afterwards.
LEMMA AttachedInPlace ==
  ASSUME IInv, NEW t \in Live, InPlace(t)
  PROVE  Attached(t)' = Attached(t) /\ \A b \in Attached(t) : Node(b)' = Node(b)
  <1>1. \A b \in Live : b # t => tokens'[b] = tokens[b] /\ Node(b)' = Node(b) /\ Kind(b)' = Kind(b)
    BY DEF InPlace, Node, Kind
  <1>2. tokens[t].link # t /\ tokens'[t].link # t
    <2>1. t \in Nat /\ t # None /\ tokens[t].link < t /\ tokens[t].link \in 0..created /\ created \in Nat
      BY TokenFacts DEF TokenShaped, Records
    <2>2. tokens[t].link # t
      BY <2>1
    <2> QED
      BY <2>1, <2>2 DEF InPlace
  <1> QED
    BY <1>1, <1>2 DEF Attached, InPlace

\* The commands left for a token that moves, where it is.
LEMMA LeftBehindMove ==
  ASSUME IInv, BoundariesOK, ~aborted, NEW t, NEW name \in Moving, HeadIs(name, t),
         InPlace(t), Node(t)' = Node(t),
         \/ State(t)' \in {"ENTERED", "BUSY"} => name \in {"advanceToEntered", "advanceToBusy"}
         \/ Kind(t) \notin ActivityKinds \union Scopes,
         NEW shut
  PROVE  LeftBound(t, {}, shut)
  <1>1. /\ t \in Live /\ Free(t) /\ ~Unmoved(t)
        /\ \A d \in Rest : d.for = t => d.name \notin {"initiateBoundaryEvents", "advanceToFailed"}
    BY HeadMoves DEF Main
  <1>2. /\ commands # <<>> /\ Head(commands).name = name /\ Head(commands).for = t
        /\ Head(commands) \in Queued /\ CommandBound(Head(commands))
        /\ \A d \in Rest : /\ d \in Queued /\ CommandOK(d) /\ CommandBound(d)
                           /\ Compatible(Head(commands), d) /\ Ahead(Head(commands), d)
        /\ Alone(Head(commands)) => Rest = {}
    BY HeadFits, RestQueued DEF HeadIs, BoundariesOK, IInv, Typed
  <1>3. /\ Attached(t)' = Attached(t) /\ (\A b \in Attached(t) : Node(b)' = Node(b))
        /\ Kind(t)' = Kind(t) /\ BoundaryEvents(Node(t))' = BoundaryEvents(Node(t))
        /\ tokens'[t].link \in {tokens[t].link, None}
    BY <1>1, AttachedInPlace DEF InPlace, Kind, BoundaryEvents
  <1> SUFFICES ASSUME NEW c \in Rest
               PROVE  /\ c.for = t => MoveBound(c)' /\ FailureBound(c)' /\ InitiationBound(c)'
                      /\ c.name = "deleteBoundary" /\ c.arg = t =>
                           Kind(t)' \in ActivityKinds /\ State(t)' \notin {"ENTERED", "BUSY"}
    BY DEF LeftBound, Left
  \* A scope entered, or made busy, does not fail.
  <1>4. ASSUME Kind(t) \in Scopes, c.for = t, c.name \in {"terminate", "updateFailed"}
        PROVE  State(t)' \notin {"ENTERED", "BUSY"}
    <2>1. name # "advanceToEntered"
      BY <1>2, <1>4 DEF Alone, Scopes, ActivityKinds
    <2>2. name # "advanceToBusy"
      BY <1>2, <1>4 DEF Compatible, Failing
    <2> QED
      BY <1>4, <2>1, <2>2
  <1>5. ASSUME c.for = t PROVE MoveBound(c)'
    <2>1. c.name \notin Main
      BY <1>1, <1>5 DEF Free
    <2> QED
      BY <2>1 DEF MoveBound, Main, Moving, Leaving
  <1>6. ASSUME c.for = t PROVE FailureBound(c)'
    <2>1. FailureBound(c) /\ c.name # "advanceToFailed"
      BY <1>1, <1>2, <1>6 DEF CommandBound
    <2>2. ~(c.name = "handleFailure" /\ (Kind(t) = "task" \/ Held(t)))
      BY <1>1, <1>6, <2>1 DEF FailureBound
    <2>3. Held(t)' => Held(t)
      BY <1>3 DEF Held
    <2> QED
      BY <1>3, <1>4, <1>6, <2>1, <2>2, <2>3 DEF FailureBound
  <1>7. ASSUME c.for = t PROVE InitiationBound(c)'
    <2>1. InitiationBound(c) /\ c.name # "initiateBoundaryEvents"
      BY <1>1, <1>2, <1>7 DEF CommandBound
    <2>2. c.name = "initiateBoundaryEvent" => ~GoneBeyond(c)
      BY <1>2, <1>7 DEF GoneBeyond, Main
    <2> QED
      BY <1>3, <1>7, <2>1, <2>2 DEF InitiationBound
  <1>8. ASSUME c.name = "deleteBoundary", c.arg = t
        PROVE  Kind(t)' \in ActivityKinds /\ State(t)' \notin {"ENTERED", "BUSY"}
    <2>1. Kind(t) \in ActivityKinds /\ State(t) \notin {"ENTERED", "BUSY"}
      BY <1>1, <1>2, <1>8 DEF CommandBound, RemovalBound
    <2>2. name # "advanceToEntered"
      BY <1>2, <2>1 DEF Alone
    <2>3. name # "advanceToBusy"
      BY <1>2, <2>1 DEF CommandBound, MoveBound
    <2> QED
      BY <1>3, <2>1, <2>2, <2>3
  <1> QED
    BY <1>5, <1>6, <1>7, <1>8

\* A token advanced as it is to be.
Advances(t, new) ==
  /\ Kind(t)' \in Boundaries /\ tokens'[t].link = None => State(t)' \notin {"ENTERED", "BUSY"}
  /\ Held(t)' => Awaits(t)'
  /\ Attached(t) # {} => State(t)' \in Inhabited /\ GoesAhead(t)'
  /\ Kind(t)' \in ActivityKinds /\ State(t)' \in {"ENTERED", "BUSY"} => Armed(t)'
  /\ Held(t) /\ tokens'[t].link = None => Completes(t, new)

LEMMA MovesBound ==
  ASSUME IInv, BoundariesOK, ~aborted, NEW t, NEW name \in Moving, HeadIs(name, t), InPlace(t),
         NEW shut, \A u \in Live : tokens[u].owner \notin shut,
         NEW new, QueueStep({}, shut, new), Advances(t, new), LeftBound(t, {}, shut),
         NewBound(t, {}, shut, new)
  PROVE  BoundariesOK'
  <1>1. /\ t \in Live /\ created \in Nat /\ commands # <<>>
        /\ Head(commands).name = name /\ Head(commands).for = t
    BY HeadMoves, TokenFacts DEF Main, HeadIs
  <1>2. (created + 1)..(created + 0) = {} /\ created = created + 0 /\ 0 \in Nat
    BY <1>1
  <1>3. TokensTurn(t, {}, 0)
    BY <1>2 DEF TokensTurn, InPlace
  <1>4. TokensGo({}, shut)
    <2>1. \A a : ~Deletes(a)
      BY <1>1 DEF Deletes, Moving
    <2> QED
      BY <2>1 DEF TokensGo
  <1>5. Attached(t)' = Attached(t)
    BY <1>1, AttachedInPlace
  <1>6. TokenTurns(t, {}, shut, new)
    BY <1>5 DEF TokenTurns, Advances
  <1>7. HeadTurns({})
    BY <1>1, <1>5 DEF HeadTurns, Advances, Moving
  <1>8. BoundStep(t, {}, 0, shut, new)
    BY <1>2, <1>3, <1>4, <1>6, <1>7 DEF BoundStep
  <1> QED
    BY <1>8, BoundariesStay

\* Commands that are enqueued behind others whatever these are.
Plain(c) == c.name \notin {"deleteBoundary", "initiateBoundaryEvent", "terminate"}

LEMMA PlainNew ==
  ASSUME NEW t, NEW gone, NEW shut, NEW new,
         \A c \in Range(new) :
           /\ CommandBound(c)' /\ Plain(c)
           /\ c.name \in Main /\ c.for \in Live \ {t} =>
                \/ tokens[c.for].owned
                \/ c.for \in Range(listening)
                \/ c.for \in waiting /\ c.name = "advanceToEntered"
  PROVE  NewBound(t, gone, shut, new)
  <1>1. \A c, d : Before(new, c, d) => d \in Range(new)
    BY DEF Before, Range
  <1>2. \A c, d : Plain(d) => OrderBound(c, d)
    BY DEF Plain, OrderBound
  <1> QED
    BY <1>1, <1>2 DEF NewBound, Plain

\* Commands nothing is required of.
LEMMA Unbound ==
  ASSUME NEW c, c.name \notin Leaving \union {"advanceToEntered", "advanceToBusy",
           "advanceFromCompleted", "terminate", "updateFailed", "advanceToFailed", "handleFailure",
           "initiateBoundaryEvents", "initiateBoundaryEvent", "deleteBoundary"}
  PROVE  CommandBound(c)' /\ Plain(c)
  BY DEF CommandBound, MoveBound, FailureBound, InitiationBound, RemovalBound, Plain

-----------------------------------------------------------------------------
\* The state of a token is set, and nothing else of it.
LEMMA SetInPlace ==
  ASSUME IInv, NEW t \in Live, NEW st \in States, Set(t, st),
         UNCHANGED <<environment, created, aborted>>,
         Range(listening') \subseteq Range(listening) \union {t},
         st = "READY" /\ Kind(t) \in Scopes => tokens[t].owned,
         Members(t) # {} => st \in {"BUSY", "FAILING"}
  PROVE  /\ InPlace(t) /\ State(t)' = st /\ Node(t)' = Node(t) /\ Kind(t)' = Kind(t)
         /\ tokens'[t].link = tokens[t].link /\ (Held(t)' <=> Held(t))
  <1>1. /\ Live' = Live /\ model' = model /\ State(t)' = st /\ Node(t)' = Node(t) /\ Kind(t)' = Kind(t)
        /\ tokens'[t].owner = tokens[t].owner /\ tokens'[t].link = tokens[t].link
    BY StateSet
  <1>2. \A u \in Live : u # t => tokens'[u] = tokens[u]
    BY DEF Set, Live
  <1> QED
    BY <1>1, <1>2 DEF InPlace, Held, environment

\* Without a change of the scopes, no machine is shut.
LEMMA ReadyBound ==
  ASSUME IInv, BoundariesOK, ~aborted, NEW t, HeadIs("advanceToReady", t), AdvanceToReady(t)
  PROVE  BoundariesOK'
  <1>1. t \in Live /\ TokenFits("advanceToReady", t) /\ commands # <<>>
    BY HeadMoves DEF Main, Moving, HeadIs
  <1>2. /\ Kind(t) \in ActivityKinds /\ State(t) = "ARRIVED" /\ Members(t) = {}
        /\ Kind(t) \in Scopes => tokens[t].owned
    BY <1>1 DEF TokenFits, Moving, ActivityKinds, Scopes
  <1>3. Attached(t) = {} /\ Kind(t) \notin Boundaries
    BY <1>1, <1>2 DEF BoundariesOK, ActivityBound, Inhabited, ActivityKinds, Boundaries
  <1>4. /\ Set(t, "READY") /\ UNCHANGED <<environment, created, aborted>>
        /\ Range(listening') \subseteq Range(listening) \union {t} /\ Enqueue(<<>>)
    BY DEF AdvanceToReady, registers
  <1>5. /\ InPlace(t) /\ State(t)' = "READY" /\ Node(t)' = Node(t) /\ Kind(t)' = Kind(t)
    BY <1>1, <1>2, <1>4, SetInPlace DEF States
  <1>6. Advances(t, <<>>)
    BY <1>3, <1>5 DEF Advances, Held
  <1>7. PICK none : none = {}
    OBVIOUS
  <1>8. LeftBound(t, {}, none)
    BY <1>1, <1>5, LeftBehindMove DEF Moving
  <1>9. NewBound(t, {}, none, <<>>)
    BY NoneQueued, PlainNew
  <1>10. QueueStep({}, none, <<>>)
    BY <1>1, <1>4, <1>7, EnqueueNone
  <1> QED
    BY <1>5, <1>6, <1>7, <1>8, <1>9, <1>10, MovesBound DEF Moving

LEMMA DepartedBound ==
  ASSUME IInv, BoundariesOK, ~aborted, NEW t, HeadIs("advanceToDeparted", t),
         NEW f, AdvanceToDeparted(t, f)
  PROVE  BoundariesOK'
  <1>1. /\ t \in Live /\ TokenFits("advanceToDeparted", t) /\ commands # <<>>
        /\ Head(commands) \in Queued /\ CommandOK(Head(commands))
        /\ Head(commands).for = t /\ Head(commands).name = "advanceToDeparted"
    BY HeadMoves, HeadFits DEF Main, Moving, HeadIs
  <1>2. Attached(t) = {}
    BY LeavesAlone DEF Leaving
  <1>3. ~Held(t)
    BY <1>1 DEF CommandOK, BoundaryFits, Held, Moving
  <1> DEFINE r == [tokens[t] EXCEPT !.state = "DEPARTED", !.flow = f]
  <1>4. tokens' = [tokens EXCEPT ![t] = r] /\ tokens[t] \in Records
    BY <1>1, TokenFacts DEF AdvanceToDeparted
  <1>5. /\ r.node = tokens[t].node /\ r.state = "DEPARTED" /\ r.owner = tokens[t].owner
        /\ r.link = tokens[t].link
    BY <1>4 DEF Records
  <1> HIDE DEF r
  <1>6. Live' = Live /\ tokens'[t] = r /\ \A u \in Live : u # t => tokens'[u] = tokens[u]
    BY <1>1, <1>4 DEF Live
  <1>7. /\ InPlace(t) /\ State(t)' = "DEPARTED" /\ Node(t)' = Node(t) /\ Kind(t)' = Kind(t)
        /\ (Held(t)' <=> Held(t))
    BY <1>5, <1>6 DEF AdvanceToDeparted, InPlace, environment, registers, State, Node, Kind, Held
  <1>8. PICK c : c = Command("advanceToArrived", t)
    OBVIOUS
  <1>9. c.name = "advanceToArrived" /\ c.for = t /\ Enqueue(<<c>>)
    BY <1>8 DEF AdvanceToDeparted, Command
  <1>10. Advances(t, <<c>>)
    BY <1>2, <1>3, <1>7 DEF Advances, Held
  <1>11. PICK none : none = {}
    OBVIOUS
  <1>12. LeftBound(t, {}, none)
    BY <1>1, <1>7, LeftBehindMove DEF Moving
  <1>13. QueueStep({}, none, <<c>>) /\ Range(<<c>>) = {c}
    BY <1>1, <1>9, <1>11, EnqueueOne
  <1>14. Attached(t)' = {}
    BY <1>1, <1>2, <1>7, AttachedInPlace
  <1>15. CommandBound(c)' /\ Plain(c)
    BY <1>7, <1>9, <1>14 DEF CommandBound, MoveBound, FailureBound, InitiationBound, RemovalBound, Plain
  <1>16. NewBound(t, {}, none, <<c>>)
    BY <1>9, <1>13, <1>15, PlainNew
  <1> QED
    BY <1>7, <1>10, <1>11, <1>12, <1>13, <1>16, MovesBound DEF Moving

LEMMA DoneBound ==
  ASSUME IInv, BoundariesOK, ~aborted, NEW t, HeadIs("advanceToDone", t), AdvanceToDone(t)
  PROVE  BoundariesOK'
  <1>1. /\ t \in Live /\ TokenFits("advanceToDone", t) /\ commands # <<>>
        /\ Head(commands) \in Queued /\ CommandOK(Head(commands))
        /\ Head(commands).for = t /\ Head(commands).name = "advanceToDone"
    BY HeadMoves, HeadFits DEF Main, Moving, HeadIs
  <1>2. Attached(t) = {} /\ Members(t) = {}
    BY <1>1, LeavesAlone DEF Leaving, TokenFits, Moving
  <1>3. ~Held(t)
    BY <1>1 DEF CommandOK, BoundaryFits, Held, Moving
  <1>4. /\ Set(t, "DONE") /\ UNCHANGED <<environment, created, aborted>>
        /\ Range(listening') \subseteq Range(listening) \union {t}
    BY DEF AdvanceToDone, registers
  <1>5. /\ InPlace(t) /\ State(t)' = "DONE" /\ Node(t)' = Node(t) /\ Kind(t)' = Kind(t)
        /\ (Held(t)' <=> Held(t))
    BY <1>1, <1>2, <1>4, SetInPlace DEF States
  <1>6. PICK none : none = {}
    OBVIOUS
  <1>7. LeftBound(t, {}, none)
    BY <1>1, <1>5, LeftBehindMove DEF Moving
  <1>8. \A new : Advances(t, new)
    BY <1>2, <1>3, <1>5 DEF Advances, Held
  <1>9. PICK s : s = tokens[t].owner
    OBVIOUS
  <1>10. CASE Enqueue(<<>>)
    <2>1. QueueStep({}, none, <<>>) /\ NewBound(t, {}, none, <<>>)
      BY <1>1, <1>6, <1>10, EnqueueNone, NoneQueued, PlainNew
    <2> QED
      BY <1>5, <1>6, <1>7, <1>8, <2>1, MovesBound DEF Moving
  <1>11. ASSUME NEW c, c.name = "deleteInstance" \/ (c.name = "shutdown" /\ tokens[c.for].owned),
                Enqueue(<<c>>)
         PROVE  BoundariesOK'
    <2>1. QueueStep({}, none, <<c>>) /\ Range(<<c>>) = {c}
      BY <1>1, <1>6, <1>11, EnqueueOne
    <2>2. CommandBound(c)' /\ Plain(c)
      BY <1>11, Unbound DEF Leaving
    <2>3. NewBound(t, {}, none, <<c>>)
      BY <1>11, <2>1, <2>2, PlainNew DEF Main, Moving
    <2> QED
      BY <1>5, <1>6, <1>7, <1>8, <2>1, <2>3, MovesBound DEF Moving
  <1>12. CASE Kind(t) = "process" /\ Enqueue(<<Command("deleteInstance", t)>>)
    BY <1>11, <1>12 DEF Command
  <1>13. CASE Kind(t) # "process" /\ Enqueue(<<With("shutdown", s, None)>>)
    <2>1. tokens[s].owned
      BY <1>1, <1>9, <1>13 DEF IInv, ScopesKept
    <2>2. With("shutdown", s, None).name = "shutdown" /\ With("shutdown", s, None).for = s
      BY DEF With
    <2> QED
      BY <1>11, <1>13, <2>1, <2>2
  <1> QED
    BY <1>9, <1>10, <1>12, <1>13 DEF AdvanceToDone

\* The boundary events of an activity stay armed as it moves.
LEMMA ArmedInPlace ==
  ASSUME IInv, NEW t, NEW name \in Moving, HeadIs(name, t), InPlace(t), Node(t)' = Node(t),
         NEW shut, NEW new, QueueStep({}, shut, new), Armed(t)
  PROVE  Armed(t)'
  <1>1. t \in Live /\ commands # <<>> /\ Head(commands).name \in Moving
    BY HeadMoves DEF Main, HeadIs
  <1>2. Attached(t)' = Attached(t) /\ \A b \in Attached(t) : Node(b)' = Node(b)
    BY <1>1, AttachedInPlace
  <1>3. BoundaryEvents(Node(t))' = BoundaryEvents(Node(t))
    BY DEF InPlace, BoundaryEvents
  <1>4. CASE Pending({"initiateBoundaryEvents", "interruptActivity"}, t)
    <2>1. Pending({"initiateBoundaryEvents", "interruptActivity"}, t)'
      BY <1>1, <1>4, StaysPending DEF ByScope, Moving
    <2> QED
      BY <2>1 DEF Armed
  <1>5. ASSUME NEW n, ArmedAt(t, n) PROVE ArmedAt(t, n)'
    <2>1. ASSUME NEW c \in Queued, c.name = "initiateBoundaryEvent", c.for = t, c.arg = n
          PROVE  ArmedAt(t, n)'
      <3>1. c \in Queued'
        BY <1>1, <2>1, StaysQueued DEF ByScope, Moving
      <3> QED
        BY <2>1, <3>1 DEF ArmedAt
    <2>2. ASSUME NEW b \in Attached(t), Node(b) = n PROVE ArmedAt(t, n)'
      BY <1>2, <2>2 DEF ArmedAt
    <2> QED
      BY <1>5, <2>1, <2>2 DEF ArmedAt
  <1>6. CASE \A n \in Range(BoundaryEvents(Node(t))) : ArmedAt(t, n)
    BY <1>3, <1>5, <1>6 DEF Armed
  <1> QED
    BY <1>4, <1>6 DEF Armed

LEMMA BusyBound ==
  ASSUME IInv, BoundariesOK, ~aborted, NEW t, HeadIs("advanceToBusy", t), AdvanceToBusy(t)
  PROVE  BoundariesOK'
  <1>1. /\ t \in Live /\ TokenFits("advanceToBusy", t) /\ commands # <<>>
        /\ Head(commands) \in Queued /\ MoveBound(Head(commands))
        /\ Head(commands).for = t /\ Head(commands).name = "advanceToBusy"
    BY HeadMoves, HeadFits DEF Main, Moving, HeadIs, BoundariesOK, CommandBound
  <1>2. /\ Kind(t) \in Boundaries => tokens[t].link # None
        /\ Kind(t) \in ActivityKinds => State(t) = "ENTERED"
    BY <1>1 DEF MoveBound
  <1>3. Members(t) = {}
    BY <1>1 DEF TokenFits, Moving
  <1>4. /\ Set(t, "BUSY") /\ UNCHANGED <<environment, created, aborted>>
        /\ Range(listening') \subseteq Range(listening) \union {t}
    <2>1. /\ Set(t, "BUSY") /\ UNCHANGED <<environment, created, aborted>>
          /\ listening' = IF Kind(t) \in Signals THEN Append(listening, t) ELSE listening
      BY DEF AdvanceToBusy
    <2>2. Range(Append(listening, t)) \subseteq Range(listening) \union {t}
      <3>1. listening \in Seq(Range(listening))
        BY DEF IInv, Typed, IsQueue
      <3> QED
        BY <3>1 DEF Range
    <2> QED
      BY <2>1, <2>2
  <1>5. /\ InPlace(t) /\ State(t)' = "BUSY" /\ Node(t)' = Node(t) /\ Kind(t)' = Kind(t)
        /\ tokens'[t].link = tokens[t].link
    BY <1>1, <1>3, <1>4, SetInPlace DEF States
  <1>6. PICK none : none = {}
    OBVIOUS
  <1>7. LeftBound(t, {}, none)
    BY <1>1, <1>5, LeftBehindMove DEF Moving
  <1>8. ASSUME NEW new, QueueStep({}, none, new) PROVE Advances(t, new)
    <2>1. Awaits(t)' /\ GoesAhead(t)'
      BY <1>5 DEF Awaits, GoesAhead
    <2>2. Kind(t) \in ActivityKinds => Armed(t)'
      <3>1. Kind(t) \in ActivityKinds => Armed(t)
        BY <1>1, <1>2 DEF BoundariesOK, ActivityBound
      <3> QED
        BY <1>1, <1>5, <1>8, <3>1, ArmedInPlace DEF Moving
    <2> QED
      BY <1>2, <1>5, <2>1, <2>2 DEF Advances, Inhabited, Held
  <1>9. ASSUME NEW c, c.for = t,
               c.name \in {"run", "advanceToCompleted"} \/
                 (c.name = "advanceToDeparting" /\ Kind(t) \notin ActivityKinds),
               Enqueue(<<c>>)
        PROVE  BoundariesOK'
    <2>1. QueueStep({}, none, <<c>>) /\ Range(<<c>>) = {c}
      BY <1>1, <1>6, <1>9, EnqueueOne
    <2>2. CommandBound(c)' /\ Plain(c)
      BY <1>5, <1>9 DEF CommandBound, MoveBound, FailureBound, InitiationBound, RemovalBound, Plain,
           Leaving
    <2>3. NewBound(t, {}, none, <<c>>)
      BY <1>9, <2>1, <2>2, PlainNew
    <2> QED
      BY <1>5, <1>6, <1>7, <1>8, <2>1, <2>3, MovesBound DEF Moving
  <1>10. CASE Enqueue(<<>>)
    <2>1. QueueStep({}, none, <<>>) /\ NewBound(t, {}, none, <<>>)
      BY <1>1, <1>6, <1>10, EnqueueNone, NoneQueued, PlainNew
    <2> QED
      BY <1>5, <1>6, <1>7, <1>8, <2>1, MovesBound DEF Moving
  <1> DEFINE complete == Command("advanceToCompleted", t)
             run == With("run", t, None)
             diverge == Command("advanceToDeparting", t)
  <1>11. /\ complete.for = t /\ complete.name = "advanceToCompleted"
         /\ run.for = t /\ run.name = "run"
         /\ diverge.for = t /\ diverge.name = "advanceToDeparting"
    BY DEF Command, With
  <1>12. \/ Enqueue(<<complete>>) \/ Enqueue(<<run>>) \/ Enqueue(<<>>)
         \/ Kind(t) = "eventBased" /\ Enqueue(<<diverge>>)
    <2>1. Enqueue(CASE Kind(t) \in Scopes -> <<run>>
                    [] Kind(t) = "eventBased" -> <<diverge>>
                    [] Kind(t) = "start" -> <<complete>>
                    [] Kind(t) \in Timers /\ trigger[Node(t)] <= now -> <<complete>>
                    [] OTHER -> <<>>)
      BY DEF AdvanceToBusy
    <2> HIDE DEF complete, run, diverge
    <2>2. CASE Kind(t) \in Scopes
      BY <2>1, <2>2 DEF Scopes
    <2>3. CASE Kind(t) = "eventBased"
      BY <2>1, <2>3 DEF Scopes, Timers
    <2>4. CASE Kind(t) = "start"
      BY <2>1, <2>4 DEF Scopes, Timers
    <2>5. CASE Kind(t) \in Timers /\ trigger[Node(t)] <= now
      BY <2>1, <2>5 DEF Scopes, Timers
    <2>6. CASE /\ Kind(t) \notin Scopes \union {"eventBased", "start"}
               /\ ~(Kind(t) \in Timers /\ trigger[Node(t)] <= now)
      BY <2>1, <2>6
    <2> QED
      BY <2>2, <2>3, <2>4, <2>5, <2>6
  <1> HIDE DEF complete, run, diverge
  <1> QED
    BY <1>9, <1>10, <1>11, <1>12 DEF ActivityKinds

\* What is enqueued as an activity is entered, and as another node is.
LEMMA ActivityEntry ==
  ASSUME NEW t, Kind(t) \in ActivityKinds, NEW q \in EntryCommands(t)
  PROVE  \E c : /\ c.for = t /\ c.name \in {"advanceToBusy", "advanceToFailed"}
                /\ \/ q = <<c>> /\ BoundaryEvents(Node(t)) = <<>>
                   \/ q = <<Command("initiateBoundaryEvents", t), c>>
  <1> DEFINE busy == Command("advanceToBusy", t)
             fails == Command("advanceToFailed", t)
             begin == Command("initiateBoundaryEvents", t)
             boundary == IF BoundaryEvents(Node(t)) = <<>> THEN <<>> ELSE <<begin>>
  <1>1. q = boundary \o <<busy>> \/ q = boundary \o <<fails>>
    <2>1. q \in {boundary \o <<busy>>} \union
                 (IF Kind(t) = "task" /\ Node(t) \in model.restricted
                  THEN {boundary \o Fails(t)} ELSE {})
      BY DEF EntryCommands, ActivityKinds, CatchEvents, Boundaries
    <2>2. Fails(t) = <<fails>>
      BY DEF Fails
    <2> HIDE DEF boundary, busy, fails
    <2> QED
      BY <2>1, <2>2
  <1>2. \A c : <<begin>> \o <<c>> = <<begin, c>>
    BY TwoQueued
  <1>3. \A c : <<>> \o <<c>> = <<c>>
    <2> TAKE c
    <2>1. <<c>> \in Seq({c})
      OBVIOUS
    <2> QED
      BY <2>1, ConcatEmptySeq
  <1>4. /\ busy.for = t /\ busy.name = "advanceToBusy"
        /\ fails.for = t /\ fails.name = "advanceToFailed"
    BY DEF Command
  <1>5. \E c : c.for = t /\ c.name \in {"advanceToBusy", "advanceToFailed"} /\ q = boundary \o <<c>>
    <2> HIDE DEF busy, fails, boundary
    <2> QED
      BY <1>1, <1>4
  <1> HIDE DEF busy, fails, begin
  <1>6. CASE BoundaryEvents(Node(t)) = <<>>
    BY <1>3, <1>5, <1>6
  <1>7. CASE BoundaryEvents(Node(t)) # <<>>
    BY <1>2, <1>5, <1>7 DEF begin
  <1> QED
    BY <1>6, <1>7

LEMMA NodeEntry ==
  ASSUME IInv, NEW t \in Live, Kind(t) \notin ActivityKinds, NEW q \in EntryCommands(t)
  PROVE  \A c \in Range(q) :
           \/ c.name = "broadcastSignal"
           \/ c.for = t /\ c.name \in {"advanceToBusy", "advanceToFailed", "advanceToDone",
                                       "advanceToDeparted", "handleDivergingGateway"}
  <1> DEFINE busy == Command("advanceToBusy", t)
             fails == Command("advanceToFailed", t)
  <1>1. \/ q = <<busy>> \/ q = <<fails>> \/ q \in Departure(t)
        \/ \E d \in Departure(t) : q = <<Broadcast>> \o d
    <2>0. Fails(t) = <<fails>>
      BY DEF Fails
    <2> HIDE DEF fails
    <2>1. CASE Kind(t) \in CatchEvents \union {"process", "eventBased"}
      <3>1. q = <<busy>>
        BY <2>1 DEF EntryCommands, CatchEvents, Boundaries
      <3> QED
        BY <3>1
    <2>2. CASE Kind(t) = "errorEnd"
      <3>1. q = Fails(t)
        BY <2>2 DEF EntryCommands, CatchEvents, Boundaries
      <3> QED
        BY <2>0, <3>1
    <2>3. CASE Kind(t) = "signalThrow"
      BY <2>3 DEF EntryCommands, CatchEvents, Boundaries
    <2>4. CASE /\ Kind(t) \notin CatchEvents \union {"process", "eventBased"}
               /\ Kind(t) \notin {"errorEnd", "signalThrow"}
      BY <2>4 DEF EntryCommands
    <2> QED
      BY <2>1, <2>2, <2>3, <2>4
  <1>2. /\ busy.name = "advanceToBusy" /\ busy.for = t /\ fails.name = "advanceToFailed"
        /\ fails.for = t /\ Broadcast.name = "broadcastSignal"
    BY DEF Command, Broadcast
  <1>3. ASSUME NEW d \in Departure(t)
        PROVE  /\ IsQueue(d) /\ \A c \in Range(d) :
                 c.for = t /\ c.name \in {"advanceToDone", "advanceToDeparted", "handleDivergingGateway"}
    <2>1. PICK c : d = <<c>> /\ c.for = t
                   /\ c.name \in {"advanceToDone", "advanceToDeparted", "handleDivergingGateway"}
      BY Departs
    <2>2. IsQueue(<<c>>) /\ Range(<<c>>) = {c}
      BY OneQueued
    <2> QED
      BY <2>1, <2>2
  <1>4. ASSUME NEW d \in Departure(t)
        PROVE  Range(<<Broadcast>> \o d) = {Broadcast} \union Range(d)
    BY <1>3, OneQueued, JoinedOrder
  <1>5. \A c : Range(<<c>>) = {c}
    BY OneQueued
  <1> HIDE DEF busy, fails
  <1>6. CASE q = <<busy>> \/ q = <<fails>>
    BY <1>2, <1>5, <1>6
  <1>7. CASE q \in Departure(t)
    BY <1>3, <1>7
  <1>8. ASSUME NEW d \in Departure(t), q = <<Broadcast>> \o d, NEW c \in Range(q)
        PROVE  c.name = "broadcastSignal" \/ c \in Range(d)
    BY <1>2, <1>4, <1>8
  <1> QED
    BY <1>1, <1>3, <1>6, <1>7, <1>8

LEMMA ActivityEntered ==
  ASSUME IInv, BoundariesOK, ~aborted, NEW t, HeadIs("advanceToEntered", t),
         AdvanceToEntered(t), Kind(t) \in ActivityKinds
  PROVE  BoundariesOK'
  <1>1. /\ t \in Live /\ TokenFits("advanceToEntered", t) /\ commands # <<>>
        /\ MoveBound(Head(commands)) /\ Rest = {} /\ t \notin Range(listening)
        /\ Head(commands).for = t /\ Head(commands).name = "advanceToEntered"
    BY HeadMoves, HeadFits DEF Main, Moving, HeadIs, BoundariesOK, CommandBound, Alone
  <1>2. /\ State(t) = "READY" /\ Members(t) = {} /\ Kind(t) \notin Boundaries
        /\ Kind(t) \in Scopes => tokens[t].owned
    BY <1>1 DEF MoveBound, TokenFits, Moving
  <1>3. Attached(t) = {}
    BY <1>1, <1>2 DEF BoundariesOK, ActivityBound, Inhabited
  <1>4. /\ Set(t, "ENTERED") /\ UNCHANGED <<environment, created, aborted>>
        /\ Range(listening') \subseteq Range(listening) \union {t} /\ listening' = listening
        /\ \E q \in EntryCommands(t) : Enqueue(q)
    BY DEF AdvanceToEntered, registers
  <1>5. /\ InPlace(t) /\ State(t)' = "ENTERED" /\ Node(t)' = Node(t) /\ Kind(t)' = Kind(t)
    BY <1>1, <1>2, <1>4, SetInPlace DEF States
  <1>6. Attached(t)' = {}
    BY <1>1, <1>3, <1>5, AttachedInPlace
  <1>7. PICK q \in EntryCommands(t) : Enqueue(q)
    BY <1>4
  <1>8. PICK b : b = Command("initiateBoundaryEvents", t)
    OBVIOUS
  <1>9. b.name = "initiateBoundaryEvents" /\ b.for = t
    BY <1>8 DEF Command
  <1>10. PICK c : /\ c.for = t /\ c.name \in {"advanceToBusy", "advanceToFailed"}
                  /\ \/ q = <<c>> /\ BoundaryEvents(Node(t)) = <<>>
                     \/ q = <<b, c>>
    BY <1>8, ActivityEntry
  <1>11. /\ IsQueue(q) /\ c \in Range(q) /\ Range(q) \subseteq {b, c}
         /\ BoundaryEvents(Node(t)) # <<>> => b \in Range(q)
    <2>1. CASE q = <<c>> /\ BoundaryEvents(Node(t)) = <<>>
      BY <2>1, OneQueued
    <2>2. CASE q = <<b, c>>
      <3>1. IsQueue(<<b, c>>) /\ Range(<<b, c>>) = {b, c}
        BY TwoQueued
      <3> QED
        BY <2>2, <3>1
    <2> QED
      BY <1>10, <2>1, <2>2
  <1>12. PICK none : none = {}
    OBVIOUS
  <1>13. QueueStep({}, none, q)
    BY <1>1, <1>7, <1>11, <1>12, CommandsEnqueued DEF Enqueue, IInv, Typed
  <1>14. Queued' = Range(q)
    BY <1>1, <1>13 DEF QueueStep, Left
  <1>15. LeftBound(t, {}, none)
    BY <1>1 DEF LeftBound, Left
  <1>16. Armed(t)'
    <2>1. CASE BoundaryEvents(Node(t)) # <<>>
      BY <1>9, <1>11, <1>14, <2>1 DEF Armed, Pending
    <2>2. CASE BoundaryEvents(Node(t)) = <<>>
      <3>1. BoundaryEvents(Node(t))' = <<>>
        BY <1>5, <2>2 DEF InPlace, BoundaryEvents
      <3> QED
        BY <3>1, NoneQueued DEF Armed
    <2> QED
      BY <2>1, <2>2
  <1>17. Advances(t, q)
    BY <1>2, <1>3, <1>5, <1>16 DEF Advances, Held
  <1>18. CommandBound(b)'
    <2>1. Pending({"advanceToBusy", "advanceToFailed"}, t)'
      BY <1>10, <1>11, <1>14 DEF Pending
    <2>2. ~Pending({"initiateBoundaryEvent"}, t)'
      BY <1>9, <1>10, <1>11, <1>14 DEF Pending
    <2> QED
      BY <1>5, <1>6, <1>9, <2>1, <2>2 DEF CommandBound, MoveBound, FailureBound, InitiationBound,
         RemovalBound, Leaving
  <1>19. CommandBound(c)'
    <2>1. c.name = "advanceToFailed" => Unmoved(t)' /\ t \notin Range(listening')
      BY <1>1, <1>4, <1>9, <1>10, <1>11, <1>14 DEF Unmoved, Main, Moving
    <2> QED
      BY <1>2, <1>5, <1>10, <2>1 DEF CommandBound, MoveBound, FailureBound, InitiationBound,
         RemovalBound, Leaving
  <1>20. NewBound(t, {}, none, q)
    <2>1. Plain(b) /\ Plain(c)
      BY <1>9, <1>10 DEF Plain
    <2> QED
      BY <1>9, <1>10, <1>11, <1>18, <1>19, <2>1, PlainNew
  <1> QED
    BY <1>5, <1>12, <1>13, <1>15, <1>17, <1>20, MovesBound DEF Moving

LEMMA EnteredBound ==
  ASSUME IInv, BoundariesOK, ~aborted, NEW t, HeadIs("advanceToEntered", t), AdvanceToEntered(t)
  PROVE  BoundariesOK'
  <1>1. /\ t \in Live /\ TokenFits("advanceToEntered", t) /\ commands # <<>>
    BY HeadMoves DEF Main, Moving, HeadIs
  <1>2. CASE Kind(t) \in ActivityKinds
    BY <1>2, ActivityEntered
  <1>3. CASE Kind(t) \notin ActivityKinds
    <2>1. /\ Attached(t) = {} /\ Kind(t) \notin Boundaries /\ Members(t) = {}
          /\ Kind(t) \in Scopes => tokens[t].owned
      BY <1>1, <1>3, OnlyActivities DEF TokenFits, Moving
    <2>2. /\ Set(t, "ENTERED") /\ UNCHANGED <<environment, created, aborted>>
          /\ Range(listening') \subseteq Range(listening) \union {t}
          /\ \E q \in EntryCommands(t) : Enqueue(q)
      BY DEF AdvanceToEntered, registers
    <2>3. /\ InPlace(t) /\ State(t)' = "ENTERED" /\ Node(t)' = Node(t) /\ Kind(t)' = Kind(t)
      BY <1>1, <2>1, <2>2, SetInPlace DEF States
    <2>4. PICK q \in EntryCommands(t) : Enqueue(q)
      BY <2>2
    <2>5. Quiet(q)
      BY <1>1, EntryQuiet
    <2>6. PICK none : none = {}
      OBVIOUS
    <2>7. QueueStep({}, none, q)
      BY <1>1, <2>4, <2>5, <2>6, EnqueueQuiet
    <2>8. LeftBound(t, {}, none)
      BY <1>1, <2>3, LeftBehindMove DEF Moving
    <2>9. Advances(t, q)
      BY <1>3, <2>1, <2>3 DEF Advances, Held
    <2>10. \A c \in Range(q) :
             \/ c.name = "broadcastSignal"
             \/ c.for = t /\ c.name \in {"advanceToBusy", "advanceToFailed", "advanceToDone",
                                         "advanceToDeparted", "handleDivergingGateway"}
      BY <1>1, <1>3, NodeEntry
    <2>11. Kind(t)' # "task" /\ ~Held(t)' /\ Kind(t)' \notin ActivityKinds \union Boundaries
      BY <1>3, <2>1, <2>3 DEF Held, ActivityKinds
    <2>12. \A c \in Range(q) : CommandBound(c)' /\ Plain(c)
      BY <2>10, <2>11 DEF CommandBound, MoveBound, FailureBound, InitiationBound, RemovalBound,
         Plain, Leaving
    <2>13. NewBound(t, {}, none, q)
      BY <2>10, <2>12, PlainNew DEF Main, Moving
    <2> QED
      BY <2>3, <2>6, <2>7, <2>8, <2>9, <2>13, MovesBound DEF Moving
  <1> QED
    BY <1>2, <1>3

\* What a completed event does to its activity.
LEMMA ConsequenceOf ==
  ASSUME NEW t
  PROVE  /\ Kind(t) \in Boundaries =>
              \E c : /\ Consequence(t) = <<c>> /\ c.for = tokens[t].link
                     /\ \/ Node(t) \in model.interrupting /\ c.name = "interruptActivity"
                        \/ /\ Node(t) \notin model.interrupting
                           /\ c.name = "initiateBoundaryEvent" /\ c.arg = Node(t)
         /\ Kind(t) \notin Boundaries =>
              \A c \in Range(Consequence(t)) : c.name = "handleEventBasedGatewayActivation"
  <1> DEFINE i == Command("interruptActivity", tokens[t].link)
             b == With("initiateBoundaryEvent", tokens[t].link, Node(t))
             h == Command("handleEventBasedGatewayActivation", t)
  <1>1. /\ i.name = "interruptActivity" /\ i.for = tokens[t].link
        /\ b.name = "initiateBoundaryEvent" /\ b.for = tokens[t].link /\ b.arg = Node(t)
        /\ h.name = "handleEventBasedGatewayActivation"
    BY DEF Command, With
  <1>2. /\ Kind(t) \in Boundaries /\ Node(t) \in model.interrupting => Consequence(t) = <<i>>
        /\ Kind(t) \in Boundaries /\ Node(t) \notin model.interrupting => Consequence(t) = <<b>>
        /\ Kind(t) \notin Boundaries => Consequence(t) = <<h>> \/ Consequence(t) = <<>>
    BY DEF Consequence
  <1> HIDE DEF i, b, h
  <1>3. Range(<<h>>) = {h} /\ Range(<<>>) = {}
    BY OneQueued, NoneQueued
  <1> QED
    BY <1>1, <1>2, <1>3

\* How a completed token goes on.
Onwards(t) ==
  CASE Kind(t) \in ActivityKinds -> {<<Command("advanceFromCompleted", t)>>}
    [] Kind(t) = "process" -> {<<Command("advanceToDone", t)>>}
    [] OTHER -> Departure(t)

LEMMA OnwardOne ==
  ASSUME IInv, NEW t \in Live, NEW q \in Onwards(t)
  PROVE  \E c : /\ q = <<c>> /\ c.for = t
                /\ \/ c.name = "advanceFromCompleted" /\ Kind(t) \in ActivityKinds
                   \/ /\ c.name \in {"advanceToDone", "advanceToDeparted", "handleDivergingGateway"}
                      /\ Kind(t) \notin ActivityKinds
  <1>1. CASE Kind(t) \in ActivityKinds
    <2>1. q = <<Command("advanceFromCompleted", t)>>
      BY <1>1 DEF Onwards, ActivityKinds
    <2> QED
      BY <1>1, <2>1 DEF Command
  <1>2. CASE Kind(t) = "process"
    <2>1. q = <<Command("advanceToDone", t)>>
      BY <1>2 DEF Onwards, ActivityKinds
    <2> QED
      BY <1>2, <2>1 DEF Command, ActivityKinds
  <1>3. CASE Kind(t) \notin ActivityKinds /\ Kind(t) # "process"
    <2>1. q \in Departure(t)
      BY <1>3 DEF Onwards
    <2> QED
      BY <1>3, <2>1, Departs
  <1> QED
    BY <1>1, <1>2, <1>3

\* What is enqueued as a token is completed.
LEMMA CompletionEnqueues ==
  ASSUME IInv, BoundariesOK, ~aborted, NEW t \in Live, Free(t), InPlace(t), commands # <<>>,
         Node(t)' = Node(t), State(t)' = "COMPLETED", ~Dangling(t),
         tokens'[t].link = IF Kind(t) \in Boundaries THEN None ELSE tokens[t].link,
         Node(t) \notin model.interrupting => ~Unmoved(t),
         NEW onward \in Onwards(t), NEW new, new = Consequence(t) \o onward,
         NEW none, none = {}, QueueStep({}, none, new)
  PROVE  /\ NewBound(t, {}, none, new)
         /\ Held(t) => Completes(t, new)
         /\ Kind(t) \in ActivityKinds => GoesAhead(t)'
  <1>1. PICK c : /\ onward = <<c>> /\ c.for = t
                 /\ \/ c.name = "advanceFromCompleted" /\ Kind(t) \in ActivityKinds
                    \/ /\ c.name \in {"advanceToDone", "advanceToDeparted", "handleDivergingGateway"}
                       /\ Kind(t) \notin ActivityKinds
    BY OnwardOne
  <1>2. /\ Range(new) = Range(Consequence(t)) \union {c}
        /\ \A d, e : Before(new, d, e) =>
             \/ Before(Consequence(t), d, e)
             \/ d \in Range(Consequence(t)) /\ e = c
    <2>1. IsQueue(<<c>>) /\ Range(<<c>>) = {c} /\ \A d, e : ~Before(<<c>>, d, e)
      BY OneQueued
    <2>2. IsQueue(Consequence(t))
      BY ConsequenceQuiet DEF Quiet
    <2>3. /\ Range(Consequence(t) \o <<c>>) = Range(Consequence(t)) \union Range(<<c>>)
          /\ \A d, e : Before(Consequence(t) \o <<c>>, d, e) =>
               \/ Before(Consequence(t), d, e)
               \/ d \in Range(Consequence(t)) /\ e \in Range(<<c>>)
               \/ Before(<<c>>, d, e)
      BY <2>1, <2>2, JoinedOrder
    <2> QED
      BY <1>1, <2>1, <2>3
  <1>3. Kind(t)' = Kind(t) /\ \A n : BoundaryEvents(n)' = BoundaryEvents(n)
    BY DEF InPlace, Kind, BoundaryEvents
  <1>4. CommandBound(c)' /\ Plain(c)
    BY <1>1, <1>3 DEF CommandBound, MoveBound, FailureBound, InitiationBound, RemovalBound,
       Plain, Leaving
  <1>5. c \in Queued'
    BY <1>2 DEF QueueStep
  <1>6. Kind(t) \in ActivityKinds => GoesAhead(t)'
    BY <1>1, <1>5 DEF GoesAhead, Pending, Onward, Moving
  <1>7. CASE Kind(t) \notin Boundaries
    <2>1. \A d \in Range(Consequence(t)) :
            CommandBound(d)' /\ Plain(d) /\ d.name \notin Main
      BY <1>7, ConsequenceOf, Unbound DEF Leaving, Main, Moving
    <2>2. NewBound(t, {}, none, new)
      BY <1>1, <1>2, <1>4, <2>1, PlainNew
    <2> QED
      BY <1>6, <1>7, <2>2 DEF Held
  <1>8. CASE Kind(t) \in Boundaries
    <2>1. PICK d : /\ Consequence(t) = <<d>> /\ d.for = tokens[t].link
                   /\ \/ Node(t) \in model.interrupting /\ d.name = "interruptActivity"
                      \/ /\ Node(t) \notin model.interrupting
                         /\ d.name = "initiateBoundaryEvent" /\ d.arg = Node(t)
      BY <1>8, ConsequenceOf
    <2>2. Range(new) = {d, c} /\ d \in Queued' /\ \A x, y : Before(new, x, y) => y = c
      <3>1. Range(<<d>>) = {d} /\ \A x, y : ~Before(<<d>>, x, y)
        BY OneQueued
      <3>2. Range(new) = {d, c} /\ \A x, y : Before(new, x, y) => y = c
        BY <1>2, <2>1, <3>1
      <3> QED
        BY <3>2 DEF QueueStep
    <2>3. PICK a : a = tokens[t].link
      OBVIOUS
    <2>4. Held(t) /\ a \in Live /\ a # t
      <3>1. a \in Live
        BY <1>8, <2>3 DEF Dangling
      <3>2. a # None
        BY <3>1, TokenFacts
      <3>3. tokens[t].link < t /\ t \in Nat
        BY TokenFacts DEF TokenShaped
      <3> QED
        BY <1>8, <2>3, <3>1, <3>2, <3>3 DEF Held
    <2>5. /\ Kind(a) \in ActivityKinds /\ Node(t) \in Range(BoundaryEvents(Node(a)))
          /\ t \in Attached(a) /\ \A b \in Attached(a) : Node(b) = Node(t) => b = t
      BY <1>8, <2>3, <2>4 DEF BoundariesOK, BoundaryBound, BoundTo, ActivityBound, Attached
    <2>6. \A b \in Attached(a)' : Node(b)' # Node(t)
      <3>1. \A b \in Live : b # t => tokens'[b] = tokens[b] /\ Node(b)' = Node(b) /\ Kind(b)' = Kind(b)
        BY DEF InPlace, Node, Kind
      <3>2. t \notin Attached(a)'
        <4>1. a # None
          BY <2>4, TokenFacts
        <4> QED
          BY <1>8, <4>1 DEF Attached
      <3>3. \A b \in Attached(a)' : b \in Attached(a) /\ b # t /\ Node(b)' = Node(b)
        BY <3>1, <3>2 DEF Attached, InPlace
      <3> QED
        BY <2>5, <3>3
    <2>7. Kind(a)' = Kind(a) /\ Node(a)' = Node(a)
      BY <2>4 DEF InPlace, Node, Kind
    <2>8. CommandBound(d)'
      BY <1>3, <2>1, <2>3, <2>5, <2>6, <2>7 DEF CommandBound, MoveBound, FailureBound,
         InitiationBound, RemovalBound, Leaving
    <2>9. ASSUME NEW e \in Rest PROVE OrderBound(e, d)
      <3>1. InitiationBound(e)
        BY RestQueued DEF BoundariesOK, CommandBound, IInv, Typed
      <3> QED
        BY <2>1, <2>3, <2>5, <3>1 DEF OrderBound, InitiationBound
    <2>10. \A e : OrderBound(e, c)
      BY <1>4 DEF OrderBound, Plain
    <2>11. NewBound(t, {}, none, new)
      <3>1. \A e \in Left({}, none) : e \in Rest
        BY DEF Left
      <3>2. d.name \notin Main
        BY <2>1 DEF Main, Moving
      <3> QED
        BY <1>1, <1>4, <2>1, <2>2, <2>3, <2>5, <2>8, <2>9, <2>10, <3>1, <3>2 DEF NewBound, Main, Moving
    <2>12. Completes(t, new)
      <3>1. Upset(t) => Node(t) \in model.interrupting
        <4>1. Upset(t) => Unmoved(t)
          BY <2>4 DEF Upset, Pending, BoundariesOK, CommandBound, FailureBound
        <4> QED
          BY <4>1
      <3>2. Node(t) \in model.interrupting => GoesAhead(a)'
        BY <2>1, <2>2, <2>3 DEF GoesAhead, Pending, Onward
      <3> QED
        BY <2>1, <2>2, <2>3, <3>1, <3>2 DEF Completes
    <2> QED
      BY <1>8, <2>11, <2>12 DEF ActivityKinds, Boundaries
  <1> QED
    BY <1>7, <1>8

\* Nothing is left to be done once an assertion has failed.
LEMMA AbortBound ==
  ASSUME Abort
  PROVE  BoundariesOK'
  BY DEF Abort, BoundariesOK

\* The changes of the token completed.
LEMMA CompletedInPlace ==
  ASSUME IInv, NEW t \in Live, CompletedFeasibly(t, Tail(commands)), ~Dangling(t)
  PROVE  /\ InPlace(t) /\ State(t)' = "COMPLETED" /\ Node(t)' = Node(t) /\ Kind(t)' = Kind(t)
         /\ tokens'[t].link = (IF Kind(t) \in Boundaries THEN None ELSE tokens[t].link)
         /\ \E onward \in Onwards(t) : commands' = Tail(commands) \o Consequence(t) \o onward
  <1>1. PICK link : link = IF Kind(t) \in Boundaries THEN None ELSE tokens[t].link
    OBVIOUS
  <1> DEFINE r == [tokens[t] EXCEPT !.state = "COMPLETED", !.link = link]
  <1>2. /\ tokens' = [tokens EXCEPT ![t].state = "COMPLETED",
                                    ![t].link = IF Kind(t) \in Boundaries THEN None ELSE @]
        /\ \E onward \in Onwards(t) : commands' = Tail(commands) \o Consequence(t) \o onward
        /\ UNCHANGED <<environment, created, registers, aborted>>
    BY DEF CompletedFeasibly, Onwards
  <1>3. tokens' = [tokens EXCEPT ![t] = r] /\ tokens[t] \in Records
    BY <1>1, <1>2, TokenFacts
  <1>4. r.node = tokens[t].node /\ r.state = "COMPLETED" /\ r.owner = tokens[t].owner /\ r.link = link
    BY <1>3 DEF Records
  <1> HIDE DEF r
  <1>5. Live' = Live /\ tokens'[t] = r /\ \A u \in Live : u # t => tokens'[u] = tokens[u]
    BY <1>3 DEF Live
  <1>6. model' = model /\ created' = created /\ aborted' = aborted /\ listening' = listening
    BY <1>2 DEF environment, registers
  <1> QED
    BY <1>1, <1>2, <1>4, <1>5, <1>6 DEF InPlace, State, Node, Kind

LEMMA FeasiblyBound ==
  ASSUME IInv, BoundariesOK, ~aborted, NEW t, HeadIs("advanceToCompleted", t),
         CompletedFeasibly(t, Tail(commands)), ~Dangling(t)
  PROVE  BoundariesOK'
  <1>1. t \in Live /\ Free(t) /\ ~Unmoved(t) /\ commands # <<>>
    BY HeadMoves DEF Main, Moving, HeadIs
  <1>2. /\ InPlace(t) /\ State(t)' = "COMPLETED" /\ Node(t)' = Node(t) /\ Kind(t)' = Kind(t)
        /\ tokens'[t].link = (IF Kind(t) \in Boundaries THEN None ELSE tokens[t].link)
        /\ \E onward \in Onwards(t) : commands' = Tail(commands) \o Consequence(t) \o onward
    BY <1>1, CompletedInPlace
  <1>3. PICK onward \in Onwards(t) : commands' = Tail(commands) \o Consequence(t) \o onward
    BY <1>2
  <1>4. PICK new, none : new = Consequence(t) \o onward /\ none = {}
    OBVIOUS
  <1>5. IsQueue(onward) /\ IsQueue(Consequence(t))
    BY <1>1, OnwardOne, OneQueued, ConsequenceQuiet DEF Quiet
  <1>6. QueueStep({}, none, new)
    BY <1>1, <1>3, <1>4, <1>5, EnqueueBoth
  <1>7. /\ NewBound(t, {}, none, new)
        /\ Held(t) => Completes(t, new)
        /\ Kind(t) \in ActivityKinds => GoesAhead(t)'
    BY <1>1, <1>2, <1>4, <1>6, CompletionEnqueues
  <1>8. Advances(t, new)
    BY <1>1, <1>2, <1>7, OnlyActivities DEF Advances, Held, Inhabited
  <1>9. LeftBound(t, {}, none)
    BY <1>2, LeftBehindMove DEF Moving
  <1> QED
    BY <1>2, <1>4, <1>6, <1>7, <1>8, <1>9, MovesBound DEF Moving

LEMMA InfeasiblyBound ==
  ASSUME IInv, BoundariesOK, ~aborted, NEW t, HeadIs("advanceToCompleted", t),
         CompletedInfeasibly(t, Tail(commands))
  PROVE  BoundariesOK'
  <1>1. /\ t \in Live /\ Free(t) /\ commands # <<>> /\ t \notin Range(listening)
        /\ TokenFits("advanceToCompleted", t)
    BY HeadMoves DEF Main, Moving, HeadIs
  <1>2. PICK c : c = Command("advanceToFailed", t)
    OBVIOUS
  <1>3. /\ Set(t, "COMPLETED") /\ UNCHANGED <<environment, created, aborted>>
        /\ listening' = listening /\ Enqueue(<<c>>)
    BY <1>2 DEF CompletedInfeasibly, Fails, Enqueue, registers
  <1>4. c.name = "advanceToFailed" /\ c.for = t
    BY <1>2 DEF Command
  <1>5. /\ InPlace(t) /\ State(t)' = "COMPLETED" /\ Node(t)' = Node(t) /\ Kind(t)' = Kind(t)
        /\ tokens'[t].link = tokens[t].link /\ (Held(t)' <=> Held(t))
    BY <1>1, <1>3, SetInPlace DEF States, TokenFits, Moving
  <1>6. PICK none : none = {}
    OBVIOUS
  <1>7. QueueStep({}, none, <<c>>) /\ Range(<<c>>) = {c} /\ c \in Queued'
    BY <1>1, <1>3, <1>6, EnqueueOne
  <1>8. Queued' \subseteq Rest \union {c}
    BY <1>7 DEF QueueStep, Left
  <1>9. Unmoved(t)' /\ t \notin Range(listening')
    BY <1>1, <1>3, <1>4, <1>8 DEF Unmoved, Free, Main, Moving
  <1>10. Awaits(t)' /\ GoesAhead(t)'
    BY <1>4, <1>7 DEF Awaits, GoesAhead, Pending, Onward
  <1>11. Advances(t, <<c>>)
    BY <1>5, <1>10 DEF Advances, Held, Inhabited
  <1>12. CommandBound(c)' /\ Plain(c)
    BY <1>4, <1>9 DEF CommandBound, MoveBound, FailureBound, InitiationBound, RemovalBound,
       Plain, Leaving
  <1>13. NewBound(t, {}, none, <<c>>)
    BY <1>4, <1>7, <1>12, PlainNew
  <1>14. LeftBound(t, {}, none)
    BY <1>5, LeftBehindMove DEF Moving
  <1> QED
    BY <1>5, <1>6, <1>7, <1>11, <1>13, <1>14, MovesBound DEF Moving

LEMMA CompletedBound ==
  ASSUME IInv, BoundariesOK, ~aborted, NEW t, HeadIs("advanceToCompleted", t),
         AdvanceToCompleted(t, Tail(commands))
  PROVE  BoundariesOK'
  <1>1. CASE CompletedFeasibly(t, Tail(commands)) /\ Dangling(t)
    BY <1>1, AbortBound DEF CompletedFeasibly
  <1>2. CASE CompletedFeasibly(t, Tail(commands)) /\ ~Dangling(t)
    BY <1>2, FeasiblyBound
  <1>3. CASE CompletedInfeasibly(t, Tail(commands))
    BY <1>3, InfeasiblyBound
  <1> QED
    BY <1>1, <1>2, <1>3 DEF AdvanceToCompleted

\* An activity is left for good: the tokens at its boundary events are about to
\* be withdrawn.
LEMMA FromCompletedBound ==
  ASSUME IInv, BoundariesOK, ~aborted, NEW t, HeadIs("advanceFromCompleted", t),
         AdvanceFromCompleted(t)
  PROVE  BoundariesOK'
  <1>1. /\ t \in Live /\ Free(t) /\ commands # <<>> /\ TokenFits("advanceFromCompleted", t)
        /\ Head(commands) \in Queued /\ MoveBound(Head(commands))
        /\ Head(commands).for = t /\ Head(commands).name = "advanceFromCompleted"
    BY HeadMoves, HeadFits DEF Main, Moving, HeadIs, BoundariesOK, CommandBound
  <1>2. /\ Kind(t) \in ActivityKinds /\ Members(t) = {}
        /\ State(t) \in {"COMPLETED", "FAILING", "FAILED"}
    BY <1>1 DEF TokenFits, Moving, MoveBound
  <1> DEFINE r == [tokens[t] EXCEPT !.owned = FALSE]
  <1>3. tokens' = [tokens EXCEPT ![t] = r] /\ tokens[t] \in Records
    BY <1>1, TokenFacts DEF AdvanceFromCompleted
  <1>4. /\ r.node = tokens[t].node /\ r.state = tokens[t].state /\ r.owner = tokens[t].owner
        /\ r.link = tokens[t].link
    BY <1>3 DEF Records
  <1> HIDE DEF r
  <1>5. Live' = Live /\ tokens'[t] = r /\ \A u \in Live : u # t => tokens'[u] = tokens[u]
    BY <1>1, <1>3 DEF Live
  <1>6. /\ InPlace(t) /\ State(t)' = State(t) /\ Node(t)' = Node(t) /\ Kind(t)' = Kind(t)
        /\ tokens'[t].owner = tokens[t].owner /\ (Held(t)' <=> Held(t))
    BY <1>4, <1>5 DEF AdvanceFromCompleted, InPlace, environment, registers, State, Node, Kind, Held
  <1>7. PICK d \in Departure(t) :
          commands' = Purged(Tail(commands), {}, {t}) \o BoundaryRemoval(t) \o d
    BY DEF AdvanceFromCompleted
  <1>8. PICK c : /\ d = <<c>> /\ c.for = t
                 /\ c.name \in {"advanceToDone", "advanceToDeparted", "handleDivergingGateway"}
    BY <1>1, Departs
  <1>9. PICK s, e : s = tokens[t].owner /\ e = With("deleteBoundary", s, t)
    OBVIOUS
  <1>10. e.name = "deleteBoundary" /\ e.for = s /\ e.arg = t
    BY <1>9 DEF With
  <1>11. /\ BoundaryRemoval(t) = IF BoundaryEvents(Node(t)) = <<>> THEN <<>> ELSE <<e>>
         /\ IsQueue(BoundaryRemoval(t)) /\ \A x, y : ~Before(BoundaryRemoval(t), x, y)
    <2>1. BoundaryRemoval(t) = IF BoundaryEvents(Node(t)) = <<>> THEN <<>> ELSE <<e>>
      BY <1>9 DEF BoundaryRemoval
    <2>2. IsQueue(<<e>>) /\ \A x, y : ~Before(<<e>>, x, y)
      BY OneQueued
    <2>3. IsQueue(<<>>) /\ \A x, y : ~Before(<<>>, x, y)
      BY NoneQueued
    <2> QED
      BY <2>1, <2>2, <2>3
  <1>12. IsQueue(<<c>>) /\ Range(<<c>>) = {c} /\ \A x, y : ~Before(<<c>>, x, y)
    BY OneQueued
  <1>13. PICK new, shut : new = BoundaryRemoval(t) \o d /\ shut = {t}
    OBVIOUS
  <1>14. QueueStep({}, shut, new)
    BY <1>1, <1>7, <1>8, <1>11, <1>12, <1>13, EnqueueBoth
  <1>15. /\ Range(new) = Range(BoundaryRemoval(t)) \union {c}
         /\ \A x, y : Before(new, x, y) => y = c
    <2>1. /\ Range(BoundaryRemoval(t) \o <<c>>) = Range(BoundaryRemoval(t)) \union Range(<<c>>)
          /\ \A x, y : Before(BoundaryRemoval(t) \o <<c>>, x, y) =>
               \/ Before(BoundaryRemoval(t), x, y)
               \/ x \in Range(BoundaryRemoval(t)) /\ y \in Range(<<c>>)
               \/ Before(<<c>>, x, y)
      BY <1>11, <1>12, JoinedOrder
    <2> QED
      BY <1>8, <1>11, <1>12, <1>13, <2>1
  <1>16. /\ Range(BoundaryRemoval(t)) \subseteq {e}
         /\ BoundaryEvents(Node(t)) # <<>> => e \in Range(BoundaryRemoval(t))
    <2>1. Range(<<e>>) = {e} /\ Range(<<>>) = {}
      BY OneQueued, NoneQueued
    <2> QED
      BY <1>11, <2>1
  <1>17. /\ c \in Queued'
         /\ Attached(t) # {} => e \in Queued'
    BY <1>1, <1>14, <1>15, <1>16, OnlyActivities DEF QueueStep
  <1>18. Attached(t)' = Attached(t)
    BY <1>1, <1>6, AttachedInPlace
  <1>19. CommandBound(c)' /\ Plain(c)
    BY <1>2, <1>6, <1>8, <1>10, <1>17, <1>18 DEF CommandBound, MoveBound, FailureBound,
       InitiationBound, RemovalBound, Plain, Leaving
  <1>20. CommandBound(e)'
    <2>1. t \in 1..created'
      BY <1>1, <1>6 DEF IInv, Typed, InPlace
    <2> QED
      BY <1>2, <1>6, <1>9, <1>10, <2>1 DEF CommandBound, MoveBound, FailureBound, InitiationBound,
         RemovalBound, Leaving
  <1>21. NewBound(t, {}, shut, new)
    <2>1. \A x \in Left({}, shut) : x \in Rest
      BY DEF Left
    <2>2. \A x \in Rest : OrderBound(x, e)
      BY <1>1, <1>10 DEF OrderBound, Free, Leaving, Main, Moving
    <2>3. \A x : OrderBound(x, c)
      BY <1>19 DEF OrderBound, Plain
    <2> QED
      BY <1>8, <1>10, <1>15, <1>16, <1>19, <1>20, <2>1, <2>2, <2>3 DEF NewBound, Main, Moving
  <1>22. GoesAhead(t)'
    BY <1>8, <1>17 DEF GoesAhead, Pending, Onward, Moving
  <1>23. Advances(t, new)
    <2>1. Kind(t) \notin Boundaries
      BY <1>2 DEF ActivityKinds, Boundaries
    <2> QED
      BY <1>2, <1>6, <1>22, <2>1 DEF Advances, Inhabited, Held
  <1>24. LeftBound(t, {}, shut)
    BY <1>2, <1>6, LeftBehindMove DEF Moving
  <1>25. \A u \in Live : tokens[u].owner \notin shut
    BY <1>2, <1>13 DEF Members
  <1> QED
    BY <1>6, <1>14, <1>21, <1>23, <1>24, <1>25, MovesBound DEF Moving

\* A token arrives at a node that is no boundary event; it may be on its way from
\* an activity one of whose boundary events is still to be armed.
LEMMA ArrivesBound ==
  ASSUME IInv, BoundariesOK, ~aborted, NEW t, HeadIs("advanceToArrived", t),
         NEW n, n = tokens[t].flow[2], NEW st \in {"WAITING", "ARRIVED"},
         NEW fl \in {tokens[t].flow, <<>>},
         tokens' = [tokens EXCEPT ![t].node = n, ![t].state = st, ![t].flow = fl],
         UNCHANGED <<model, created, listening, aborted>>,
         NEW none, none = {}, NEW new, QueueStep({}, none, new),
         \A c \in Range(new) :
           \/ c.name = "createMergedToken"
           \/ c.name = "advanceToEntered" /\ c.for = t /\ model.kind[n] \notin ActivityKinds
  PROVE  BoundariesOK'
  <1>1. /\ t \in Live /\ TokenFits("advanceToArrived", t) /\ commands # <<>> /\ Free(t)
        /\ Head(commands) \in Queued /\ CommandOK(Head(commands)) /\ t \notin Range(listening)
        /\ Head(commands).for = t /\ Head(commands).name = "advanceToArrived"
        /\ \A d \in Rest : d.for = t => d.name \notin {"initiateBoundaryEvents", "advanceToFailed"}
    BY HeadMoves, HeadFits DEF Main, Moving, HeadIs
  <1>2. Attached(t) = {} /\ ~Held(t) /\ ~tokens[t].owned
    BY <1>1, LeavesAlone DEF Leaving, CommandOK, BoundaryFits, Held, Moving, TokenFits
  <1>3. /\ TokenStep(t, {}, 0) /\ Live' = Live /\ model' = model
        /\ Kind(t)' = model.kind[n] /\ State(t)' = st /\ tokens'[t].owner = tokens[t].owner
        /\ model.kind[n] \notin Boundaries \union {"process"}
    <2>1. UNCHANGED <<model, created>>
      OBVIOUS
    <2> QED
      BY <2>1, Arrives
  <1>4. /\ \A u \in Live : u # t => tokens'[u] = tokens[u]
        /\ tokens'[t].link \in {tokens[t].link, None}
    BY <1>1, <1>3 DEF TokenStep, Touched
  <1>5. InPlace(t) /\ ~Held(t)'
    BY <1>1, <1>3, <1>4 DEF InPlace, Held
  <1>6. Attached(t)' = {}
    BY <1>1, <1>2, <1>5, AttachedInPlace
  <1>7. ~tokens'[t].owned
    <2>1. tokens[t] \in Records
      BY <1>1, TokenFacts
    <2> QED
      BY <1>1, <1>2, <2>1 DEF Live, Records
  <1>8. \A d \in Rest : /\ d \in Queued /\ OrderBound(Head(commands), d)
                        /\ CommandBound(d) /\ InOrder(Head(commands), d)
    BY <1>1, RestQueued, HeadFits DEF BoundariesOK, IInv, Typed
  <1>9. Advances(t, new)
    BY <1>2, <1>3, <1>5 DEF Advances
  \* What is queued for the token is enqueued by the step.
  <1>10. ASSUME NEW d \in Queued', d.name \in Main, d.for = t
         PROVE  d \in Range(new) /\ d \notin Rest /\ d.name = "advanceToEntered"
    <2>1. d \notin Rest
      BY <1>1, <1>10 DEF Free
    <2>2. d \in Range(new)
      BY <1>10, <2>1 DEF QueueStep, Left
    <2> QED
      BY <1>10, <2>1, <2>2 DEF Main, Moving
  <1>11. ASSUME NEW c \in Rest, c.for = t
         PROVE  MoveBound(c)' /\ FailureBound(c)' /\ InitiationBound(c)'
    <2>1. c.name \notin Main \union {"initiateBoundaryEvents", "advanceToFailed"}
      BY <1>1, <1>11 DEF Free
    <2>2. MoveBound(c)'
      BY <2>1 DEF MoveBound, Main, Moving, Leaving
    <2>3. c.name \notin {"terminate", "updateFailed"}
      BY <1>1, <1>8, <1>11 DEF OrderBound, InOrder
    <2>4. FailureBound(c)'
      <3>1. Kind(t)' = "task" => Unmoved(t)' /\ t \notin Range(listening')
        <4>1. Kind(t)' = "task" => \A d \in Range(new) : d.name = "createMergedToken"
          BY <1>3 DEF ActivityKinds
        <4> QED
          BY <1>1, <1>10, <4>1 DEF Unmoved
      <3> QED
        BY <1>5, <1>11, <2>1, <2>3, <3>1 DEF FailureBound
    <2>5. ASSUME c.name = "initiateBoundaryEvent" PROVE GoneBeyond(c)'
      <3>1. c \notin Range(new)
        BY <2>5
      <3>2. ASSUME NEW d \in Queued', d.name \in Main, d.for = t, Ahead(d, c)' PROVE FALSE
        <4>1. d \notin Left({}, none) /\ \A x, y : Before(new, x, y) => y \in Range(new)
          BY <1>10, <3>2 DEF Left, Before, Range
        <4> QED
          BY <3>1, <3>2, <4>1 DEF QueueStep
      <3> QED
        BY <1>3, <1>7, <1>10, <1>11, <3>2 DEF GoneBeyond
    <2>6. InitiationBound(c)'
      BY <1>6, <1>11, <2>1, <2>5 DEF InitiationBound
    <2> QED
      BY <2>2, <2>4, <2>6
  <1>12. LeftBound(t, {}, none)
    <2>1. \A c \in Rest : ~(c.name = "deleteBoundary" /\ c.arg = t)
      BY <1>1, <1>8 DEF OrderBound, Leaving
    <2> QED
      BY <1>11, <2>1 DEF LeftBound, Left
  <1>13. NewBound(t, {}, none, new)
    <2>1. \A c \in Range(new) : CommandBound(c)' /\ Plain(c)
      BY <1>3 DEF CommandBound, MoveBound, FailureBound, InitiationBound, RemovalBound, Plain, Leaving
    <2> QED
      BY <2>1, PlainNew DEF Main, Moving
  <1> QED
    BY <1>5, <1>9, <1>12, <1>13, MovesBound DEF Moving

LEMMA ArrivedBound ==
  ASSUME IInv, BoundariesOK, ~aborted, NEW t, HeadIs("advanceToArrived", t), AdvanceToArrived(t)
  PROVE  BoundariesOK'
  <1>1. commands # <<>>
    BY DEF HeadIs
  <1>2. PICK n, s, none : n = tokens[t].flow[2] /\ s = tokens[t].owner /\ none = {}
    OBVIOUS
  <1>3. UNCHANGED <<model, created, listening, aborted>>
    BY DEF AdvanceToArrived, environment
  <1>4. PICK c, d : c = With("createMergedToken", s, n) /\ d = Command("advanceToEntered", t)
    OBVIOUS
  <1>5. c.name = "createMergedToken" /\ d.name = "advanceToEntered" /\ d.for = t
    BY <1>4 DEF With, Command
  <1>6. /\ Enqueue(<<>>) => QueueStep({}, none, <<>>)
        /\ Enqueue(<<c>>) => QueueStep({}, none, <<c>>)
        /\ Enqueue(<<d>>) => QueueStep({}, none, <<d>>)
        /\ Range(<<>>) = {} /\ Range(<<c>>) = {c} /\ Range(<<d>>) = {d}
    BY <1>1, <1>2, EnqueueNone, EnqueueOne, OneQueued, NoneQueued
  <1>7. CASE /\ tokens' = [tokens EXCEPT ![t].node = n, ![t].state = "WAITING",
                                         ![t].flow = tokens[t].flow]
             /\ Enqueue(<<>>) \/ Enqueue(<<c>>)
    <2>1. CASE Enqueue(<<>>)
      BY <1>2, <1>3, <1>6, <1>7, <2>1, ArrivesBound
    <2>2. CASE Enqueue(<<c>>)
      BY <1>2, <1>3, <1>5, <1>6, <1>7, <2>2, ArrivesBound
    <2> QED
      BY <1>7, <2>1, <2>2
  <1>8. CASE /\ tokens' = [tokens EXCEPT ![t].node = n, ![t].state = "ARRIVED",
                                         ![t].flow = tokens[t].flow]
             /\ Enqueue(<<>>)
    BY <1>2, <1>3, <1>6, <1>8, ArrivesBound
  <1>9. CASE /\ tokens' = [tokens EXCEPT ![t].node = n, ![t].state = "ARRIVED", ![t].flow = <<>>]
             /\ model.kind[n] \notin ActivityKinds /\ Enqueue(<<d>>)
    <2>1. PICK new : new = <<d>>
      OBVIOUS
    <2>2. QueueStep({}, none, new) /\ Range(new) = {d}
      BY <1>6, <1>9, <2>1
    <2>3. \A e \in Range(new) :
            e.name = "advanceToEntered" /\ e.for = t /\ model.kind[n] \notin ActivityKinds
      BY <1>5, <1>9, <2>2
    <2> QED
      BY <1>2, <1>3, <1>9, <2>2, <2>3, ArrivesBound
  <1>10. \/ /\ tokens' = [tokens EXCEPT ![t].node = n, ![t].state = "WAITING",
                                           ![t].flow = tokens[t].flow]
            /\ Enqueue(<<>>) \/ Enqueue(<<c>>)
         \/ /\ tokens' = [tokens EXCEPT ![t].node = n, ![t].state = "ARRIVED",
                                           ![t].flow = tokens[t].flow]
            /\ Enqueue(<<>>)
         \/ /\ tokens' = [tokens EXCEPT ![t].node = n, ![t].state = "ARRIVED", ![t].flow = <<>>]
            /\ model.kind[n] \notin ActivityKinds /\ Enqueue(<<d>>)
    BY <1>2, <1>4 DEF AdvanceToArrived
  <1> QED
    BY <1>7, <1>8, <1>9, <1>10

-----------------------------------------------------------------------------
\* The commands left for a token that fails.
Falters(t, name, gone, shut, new) ==
  /\ HeadIs(name, t) /\ t \in Live \ gone
  /\ TokensTurn(t, gone, 0) /\ TokensGo(gone, shut) /\ QueueStep(gone, shut, new)
  /\ Node(t)' = Node(t) /\ tokens'[t].link = tokens[t].link
  /\ ~tokens[t].owned => ~tokens'[t].owned
  /\ \/ State(t)' \in {"FAILING", "FAILED"}
     \/ State(t)' = State(t) /\ State(t) \notin {"ENTERED", "BUSY"}
  /\ Range(listening') \subseteq Range(listening)
  /\ \A c \in Range(new) : c.name \notin Main \union {"initiateBoundaryEvent"}

LEMMA LeftBehindFailure ==
  ASSUME IInv, BoundariesOK, ~aborted, NEW t,
         NEW name \in {"advanceToFailed", "terminate", "updateFailed"},
         NEW gone, NEW shut, NEW new, Falters(t, name, gone, shut, new)
  PROVE  LeftBound(t, gone, shut)
  <1>1. /\ HeadIs(name, t) /\ t \in Live \ gone
        /\ TokensTurn(t, gone, 0) /\ TokensGo(gone, shut) /\ QueueStep(gone, shut, new)
        /\ Node(t)' = Node(t) /\ tokens'[t].link = tokens[t].link
        /\ ~tokens[t].owned => ~tokens'[t].owned
        /\ Range(listening') \subseteq Range(listening)
        /\ \A c \in Range(new) : c.name \notin Main \union {"initiateBoundaryEvent"}
    BY DEF Falters
  <1>2. /\ commands # <<>> /\ Head(commands).name = name /\ Head(commands).for = t
        /\ Head(commands) \in Queued /\ CommandBound(Head(commands))
        /\ CommandOK(Head(commands)) /\ TokenFits(name, t)
        /\ \A d \in Rest : /\ d \in Queued /\ CommandBound(d) /\ InOrder(Head(commands), d)
                           /\ Compatible(d, Head(commands))
    BY <1>1, HeadFits DEF HeadIs, BoundariesOK, CommandOK
  <1>3. State(t)' \notin {"ENTERED", "BUSY"} /\ Kind(t)' = Kind(t)
    BY <1>1 DEF Falters, Kind, TokensTurn
  <1>4. \A b \in Attached(t)' : b \in Attached(t) /\ Node(b)' = Node(b)
    <2>1. (created + 1)..(created + 0) = {}
      BY <1>1, TokenFacts
    <2>2. \A b \in Attached(t)' : b \in Live \ gone
      BY <1>1, <2>1 DEF TokensTurn, Attached
    <2> QED
      BY <1>1, <2>2, AttachedAfter
  <1>5. \A d \in Queued' : d \in Range(new) \/ (d \in Left(gone, shut) /\ d \in Rest)
    BY <1>1 DEF QueueStep, Left
  <1> SUFFICES ASSUME NEW c \in Left(gone, shut)
               PROVE  /\ c.for = t => MoveBound(c)' /\ FailureBound(c)' /\ InitiationBound(c)'
                      /\ c.name = "deleteBoundary" /\ c.arg = t =>
                           Kind(t)' \in ActivityKinds /\ State(t)' \notin {"ENTERED", "BUSY"}
    BY DEF LeftBound
  <1>6. c \in Rest
    BY DEF Left
  <1>7. ASSUME c.for = t PROVE MoveBound(c)'
    <2>1. MoveBound(c)
      BY <1>2, <1>6 DEF CommandBound
    <2>2. ASSUME c.name = "advanceToBusy", Kind(t) \in ActivityKinds PROVE FALSE
      <3>1. Kind(t) \notin Scopes
        BY <1>2, <1>6, <1>7, <2>2 DEF Compatible, Failing
      <3>2. Kind(t) = "task" /\ name = "advanceToFailed"
        BY <1>2, <2>2, <3>1 DEF ActivityKinds, Scopes, CommandBound, FailureBound
      <3>3. Unmoved(t)
        BY <1>2, <3>2 DEF CommandBound, FailureBound
      <3> QED
        BY <1>2, <1>6, <1>7, <2>2, <3>3 DEF Unmoved, Main, Moving
    <2>3. ~(c.name = "advanceToEntered" /\ Kind(t) \in ActivityKinds)
      BY <1>2, <1>6, <1>7 DEF InOrder, Alone
    <2>4. ASSUME c.name \in Leaving, Kind(t) \in ActivityKinds, Attached(t)' # {}
          PROVE  \E d \in Queued' : d.name = "deleteBoundary" /\ d.arg = t
      <3>1. Attached(t) # {}
        BY <1>4, <2>4
      <3>2. PICK d \in Queued : d.name = "deleteBoundary" /\ d.arg = t
        BY <1>7, <2>1, <2>4, <3>1 DEF MoveBound
      <3>3. d.for = tokens[t].owner
        BY <1>1, <3>2 DEF BoundariesOK, CommandBound, RemovalBound
      <3>4. d \in Rest
        BY <1>2, <3>2, RestQueued DEF IInv, Typed
      <3>5. d.for \notin gone \union shut
        BY <1>1, <3>3 DEF TokensGo
      <3> QED
        BY <1>1, <3>2, <3>4, <3>5 DEF QueueStep, Left, Stays
    <2>5. c.name = "advanceFromCompleted" => State(t)' \in {"COMPLETED", "FAILING", "FAILED"}
      BY <1>7, <2>1 DEF MoveBound, Falters
    <2> QED
      BY <1>1, <1>3, <1>7, <2>1, <2>2, <2>3, <2>4, <2>5 DEF MoveBound
  <1>8. ASSUME c.for = t PROVE FailureBound(c)'
    <2>1. FailureBound(c)
      BY <1>2, <1>6 DEF CommandBound
    <2>2. Unmoved(t) => Unmoved(t)'
      BY <1>1, <1>2, <1>5 DEF Unmoved
    <2> QED
      BY <1>1, <1>3, <1>8, <2>1, <2>2 DEF FailureBound, Held
  <1>9. ASSUME c.for = t PROVE InitiationBound(c)'
    <2>1. InitiationBound(c) /\ c.name # "initiateBoundaryEvents"
      BY <1>2, <1>6, <1>9 DEF CommandBound, InOrder
    <2>2. BoundaryEvents(Node(t))' = BoundaryEvents(Node(t))
      BY <1>1 DEF TokensTurn, BoundaryEvents
    <2>3. ASSUME c.name = "initiateBoundaryEvent", GoneBeyond(c) PROVE GoneBeyond(c)'
      <3>1. c \notin Range(new) /\ \A x, y : Before(new, x, y) => y \in Range(new)
        BY <1>1, <2>3 DEF Before, Range
      <3>2. \A d : Ahead(d, c)' => Ahead(d, c)
        BY <1>1, <3>1 DEF QueueStep
      <3>3. \A d \in Queued' : d.name \in Main => d \in Queued
        BY <1>1, <1>2, <1>5
      <3>4. ~tokens[t].owned /\ Kind(t) \notin Boundaries
        BY <1>9, <2>3 DEF GoneBeyond
      <3>5. \A d \in Queued' : d.name \in Main /\ d.for = t =>
              d.name = "advanceToEntered" /\ ~Ahead(d, c)'
        BY <1>9, <2>3, <3>2, <3>3 DEF GoneBeyond
      <3> QED
        BY <1>1, <1>3, <1>9, <3>4, <3>5 DEF GoneBeyond
    <2> QED
      BY <1>1, <1>3, <1>4, <1>9, <2>1, <2>2, <2>3 DEF InitiationBound
  <1>10. ASSUME c.name = "deleteBoundary", c.arg = t PROVE Kind(t)' \in ActivityKinds
    BY <1>1, <1>2, <1>3, <1>6, <1>10 DEF CommandBound, RemovalBound
  <1> QED
    BY <1>3, <1>7, <1>8, <1>9, <1>10

LEMMA FaltersBound ==
  ASSUME IInv, BoundariesOK, ~aborted, NEW t,
         NEW name \in {"advanceToFailed", "terminate", "updateFailed"},
         NEW gone, NEW shut, NEW new, Falters(t, name, gone, shut, new),
         Held(t)' => Awaits(t)', Attached(t) # {} => GoesAhead(t)', HeadTurns(gone),
         NewBound(t, gone, shut, new)
  PROVE  BoundariesOK'
  <1>1. /\ t \in Live \ gone /\ TokensTurn(t, gone, 0) /\ TokensGo(gone, shut)
        /\ QueueStep(gone, shut, new) /\ Node(t)' = Node(t) /\ tokens'[t].link = tokens[t].link
        /\ LeftBound(t, gone, shut) /\ (created + 1)..(created + 0) = {}
    BY LeftBehindFailure, TokenFacts DEF Falters
  <1>2. State(t)' \in {"FAILING", "FAILED"} \/ (State(t)' = State(t) /\ State(t) \notin {"ENTERED", "BUSY"})
    BY DEF Falters
  <1>3. Attached(t)' # {} => Attached(t) # {}
    <2>1. \A b \in Attached(t)' : b \in Live \ gone
      BY <1>1 DEF TokensTurn, Attached
    <2> QED
      BY <1>1, <2>1, AttachedAfter
  <1>4. Attached(t) # {} => State(t) \in Inhabited
    BY <1>1 DEF BoundariesOK, ActivityBound
  <1>5. Held(t) => tokens'[t].link # None
    BY <1>1 DEF Held
  <1>6. TokenTurns(t, gone, shut, new)
    BY <1>1, <1>2, <1>3, <1>4, <1>5 DEF TokenTurns, Inhabited
  <1>7. BoundStep(t, gone, 0, shut, new)
    BY <1>1, <1>6 DEF BoundStep
  <1> QED
    BY <1>7, BoundariesStay

LEMMA FailedBound ==
  ASSUME IInv, BoundariesOK, ~aborted, NEW t, HeadIs("advanceToFailed", t), AdvanceToFailed(t)
  PROVE  BoundariesOK'
  <1>1. /\ t \in Live /\ commands # <<>> /\ TokenFits("advanceToFailed", t)
        /\ Head(commands) \in Queued /\ FailureBound(Head(commands))
        /\ Head(commands).for = t /\ Head(commands).name = "advanceToFailed"
    BY HeadFits DEF HeadIs, CommandOK, BoundariesOK, CommandBound
  <1>2. (created + 1)..(created + 0) = {} /\ created = created + 0 /\ 0 \in Nat
    BY <1>1, TokenFacts
  <1>3. PICK gone, shut : gone = {} /\ shut = {}
    OBVIOUS
  <1>4. ASSUME NEW st \in {"FAILING", "FAILED"}, Set(t, st), NEW c, Enqueue(<<c>>), c.for = t,
               \/ /\ c.name = "terminate" /\ st = "FAILING" /\ Kind(t) \in Scopes /\ tokens[t].owned
               \/ c.name = "handleFailure" /\ Members(t) = {}
        PROVE  BoundariesOK'
    <2>1. /\ UNCHANGED <<environment, created, aborted>> /\ listening' = listening
          /\ Members(t) # {} => st = "FAILING"
      BY <1>4 DEF AdvanceToFailed, registers
    <2>2. /\ InPlace(t) /\ State(t)' = st /\ Node(t)' = Node(t) /\ Kind(t)' = Kind(t)
          /\ tokens'[t].link = tokens[t].link /\ (Held(t)' <=> Held(t))
          /\ tokens'[t].owned = tokens[t].owned
      BY <1>1, <1>4, <2>1, SetInPlace, StateSet DEF States
    <2>3. TokensTurn(t, gone, 0)
      BY <1>2, <1>3, <2>2 DEF TokensTurn, InPlace
    <2>4. TokensGo(gone, shut)
      BY <1>1, <1>3 DEF TokensGo, Deletes
    <2>5. QueueStep(gone, shut, <<c>>) /\ Range(<<c>>) = {c} /\ c \in Queued'
      BY <1>1, <1>3, <1>4, EnqueueOne
    <2>6. Falters(t, "advanceToFailed", gone, shut, <<c>>)
      BY <1>1, <1>3, <1>4, <2>1, <2>2, <2>3, <2>4, <2>5 DEF Falters, HeadIs, Main, Moving
    <2>7. GoesAhead(t)'
      BY <1>4, <2>5 DEF GoesAhead, Pending, Onward
    <2>8. Held(t) => c.name = "handleFailure"
      BY <1>4 DEF Held, Boundaries, Scopes
    <2>9. Held(t) => Awaits(t)'
      BY <1>4, <2>5, <2>8 DEF Awaits, Pending
    <2>10. ASSUME Held(t), NEW a, a = tokens[t].link PROVE GoesAhead(a)'
      <3>1. t \in Attached(a)' /\ Upset(t)'
        BY <1>1, <1>4, <2>2, <2>5, <2>8, <2>10 DEF Attached, Upset, Pending, Held, InPlace
      <3> QED
        BY <3>1 DEF GoesAhead
    <2>11. HeadTurns(gone)
      <3>1. Doomed(t)' \/ \A v \in Live : tokens[v].owner # t
        BY <1>4, <2>5 DEF Doomed, Pending, Members
      <3> QED
        BY <1>1, <2>2, <2>7, <2>9, <2>10, <3>1 DEF HeadTurns
    <2>12. CommandBound(c)'
      <3>1. Unmoved(t) => Unmoved(t)'
        <4>1. \A d \in Queued' : d \in Queued \/ d = c
          BY <2>5, RestQueued DEF QueueStep, Left, IInv, Typed
        <4> QED
          BY <1>4, <4>1 DEF Unmoved, Main, Moving
      <3>2. Kind(t) = "task" \/ Held(t) => Unmoved(t) /\ t \notin Range(listening)
        BY <1>1 DEF FailureBound
      <3> QED
        BY <1>4, <2>1, <2>2, <3>1, <3>2 DEF CommandBound, MoveBound, FailureBound, InitiationBound,
           RemovalBound, Leaving
    <2>13. NewBound(t, gone, shut, <<c>>)
      <3>1. \A x, y : ~Before(<<c>>, x, y)
        BY OneQueued
      <3>2. ASSUME NEW d \in Left(gone, shut) PROVE OrderBound(d, c)
        <4>1. CommandOK(d)
          BY <1>1, <3>2, HeadFits DEF Left
        <4>2. ~(d.name = "advanceToArrived" /\ c.name = "terminate" /\ d.for = c.for)
          BY <1>4, <4>1 DEF CommandOK, TokenFits
        <4> QED
          BY <1>4, <4>2 DEF OrderBound
      <3> QED
        BY <1>4, <2>5, <2>12, <3>1, <3>2 DEF NewBound, Main, Moving
    <2> QED
      BY <2>2, <2>6, <2>7, <2>9, <2>11, <2>13, FaltersBound
  <1>5. PICK c, d : c = Command("terminate", t) /\ d = Command("handleFailure", t)
    OBVIOUS
  <1>6. c.name = "terminate" /\ c.for = t /\ d.name = "handleFailure" /\ d.for = t
    BY <1>5 DEF Command
  <1>7. CASE Kind(t) \in Scopes /\ tokens[t].owned /\ (Members(t) # {} \/ State(t) = "COMPLETED")
    <2>1. Set(t, "FAILING") /\ Enqueue(<<c>>)
      BY <1>5, <1>7 DEF AdvanceToFailed
    <2> QED
      BY <1>4, <1>6, <1>7, <2>1
  <1>8. CASE ~(Kind(t) \in Scopes /\ tokens[t].owned /\ (Members(t) # {} \/ State(t) = "COMPLETED"))
    <2>1. Set(t, "FAILED") /\ Enqueue(<<d>>)
      BY <1>5, <1>8 DEF AdvanceToFailed
    <2>2. Members(t) = {}
      BY <1>1, <1>8, TokenFacts
    <2> QED
      BY <1>4, <1>6, <2>1, <2>2
  <1> QED
    BY <1>7, <1>8

\* A scope has failed, and its failure is handled next.
LEMMA UpdateFailedBound ==
  ASSUME IInv, BoundariesOK, ~aborted, NEW t, HeadIs("updateFailed", t), UpdateFailed(t)
  PROVE  BoundariesOK'
  <1>1. /\ t \in Live /\ commands # <<>> /\ TokenFits("updateFailed", t)
        /\ Head(commands) \in Queued /\ FailureBound(Head(commands))
        /\ Head(commands).for = t /\ Head(commands).name = "updateFailed"
    BY HeadFits DEF HeadIs, CommandOK, BoundariesOK, CommandBound
  <1>2. (created + 1)..(created + 0) = {} /\ created = created + 0 /\ 0 \in Nat
    BY <1>1, TokenFacts
  <1>3. PICK gone, shut : gone = {} /\ shut = {}
    OBVIOUS
  <1>4. Kind(t) \in Scopes /\ ~Held(t) /\ Members(t) = {} /\ State(t) \notin {"ENTERED", "BUSY"}
    BY <1>1 DEF TokenFits, FailureBound, Held, Boundaries, Scopes
  <1>5. /\ Set(t, "FAILED") /\ UNCHANGED <<environment, created, aborted>> /\ listening' = listening
        /\ Enqueue(<<>>)
    BY DEF UpdateFailed, registers
  <1>6. /\ InPlace(t) /\ State(t)' = "FAILED" /\ Node(t)' = Node(t) /\ Kind(t)' = Kind(t)
        /\ tokens'[t].link = tokens[t].link /\ (Held(t)' <=> Held(t))
        /\ tokens'[t].owned = tokens[t].owned /\ tokens'[t].owner = tokens[t].owner
    BY <1>1, <1>4, <1>5, SetInPlace, StateSet DEF States
  <1>7. TokensTurn(t, gone, 0)
    BY <1>2, <1>3, <1>6 DEF TokensTurn, InPlace
  <1>8. TokensGo(gone, shut)
    BY <1>1, <1>3 DEF TokensGo, Deletes
  <1>9. QueueStep(gone, shut, <<>>) /\ Range(<<>>) = {}
    BY <1>1, <1>3, <1>5, EnqueueNone
  <1>10. Falters(t, "updateFailed", gone, shut, <<>>)
    BY <1>1, <1>3, <1>5, <1>6, <1>7, <1>8, <1>9 DEF Falters, HeadIs
  <1>11. HeadTurns(gone)
    BY <1>1 DEF HeadTurns, Onward, Moving
  <1>12. ASSUME Attached(t) # {} PROVE GoesAhead(t)'
    <2>1. GoesAhead(t)
      BY <1>1, <1>12 DEF BoundariesOK, ActivityBound
    <2>2. ASSUME NEW c \in Queued, c.for = t, c.name \in Onward PROVE GoesAhead(t)'
      <3>1. CommandOK(c)
        BY DEF IInv, CommandsOK
      <3>2. c.name # "run"
        BY <1>4, <2>2, <3>1 DEF CommandOK, TokenFits
      <3>3. c \in Queued'
        BY <1>1, <1>3, <1>9, <2>2, <3>2, StaysQueued DEF ByScope, Onward, Moving
      <3> QED
        BY <2>2, <3>3 DEF GoesAhead, Pending
    <2>3. ASSUME Doomed(tokens[t].owner) PROVE GoesAhead(t)'
      <3>1. PICK s : s = tokens[t].owner
        OBVIOUS
      <3>2. Doomed(s)'
        BY <1>1, <1>3, <1>8, <1>9, <1>11, <2>3, <3>1, DoomStays
      <3> QED
        BY <1>6, <3>1, <3>2 DEF GoesAhead
    <2>4. ASSUME NEW b \in Attached(t), Upset(b) PROVE GoesAhead(t)'
      <3>1. PICK c \in Queued : c.name \in {"advanceToFailed", "handleFailure"} /\ c.for = b
        BY <2>4 DEF Upset, Pending
      <3>2. c \in Queued'
        BY <1>1, <1>3, <1>9, <3>1, StaysQueued DEF ByScope
      <3>3. b \in Attached(t)'
        BY <1>1, <1>6, AttachedInPlace
      <3> QED
        BY <3>1, <3>2, <3>3 DEF GoesAhead, Upset, Pending
    <2> QED
      BY <1>4, <2>1, <2>2, <2>3, <2>4 DEF GoesAhead, Pending
  <1>13. NewBound(t, gone, shut, <<>>)
    BY <1>9, PlainNew
  <1> QED
    BY <1>4, <1>6, <1>10, <1>11, <1>12, <1>13, FaltersBound

\* A scope is terminated: the tokens in it are withdrawn, those at the boundary
\* events of an activity with the token at the activity.
LEMMA TerminatedBound ==
  ASSUME IInv, BoundariesOK, ~aborted, NEW t, HeadIs("terminate", t), Terminate(t)
  PROVE  BoundariesOK'
  <1>1. /\ t \in Live /\ commands # <<>>
        /\ Head(commands) \in Queued /\ FailureBound(Head(commands))
        /\ Head(commands).for = t /\ Head(commands).name = "terminate"
    BY HeadFits DEF HeadIs, CommandOK, BoundariesOK, CommandBound
  <1>2. (created + 1)..(created + 0) = {} /\ created = created + 0 /\ 0 \in Nat
    BY <1>1, TokenFacts
  <1>3. Kind(t) \in Scopes /\ ~Held(t) /\ State(t) \notin {"ENTERED", "BUSY"}
    BY <1>1 DEF FailureBound, Held, Boundaries, Scopes
  <1>4. CASE ~tokens[t].owned
    BY <1>4, AbortBound DEF Terminate
  <1>5. CASE tokens[t].owned
    <2>1. PICK gone : gone = Within(Members(t))
      OBVIOUS
    <2>2. PICK shut : shut = IF Kind(t) = "process" THEN gone ELSE {t} \union gone
      OBVIOUS
    <2>3. PICK a, b, q : /\ a = Command("updateFailed", t) /\ b = Command("handleFailure", t)
                         /\ q = <<a, b>>
      OBVIOUS
    <2>4. /\ a.name = "updateFailed" /\ a.for = t /\ b.name = "handleFailure" /\ b.for = t
          /\ IsQueue(q) /\ Range(q) = {a, b} /\ \A x, y : Before(q, x, y) => y = b
      <3>1. PICK r : r = <<a, b>>
        OBVIOUS
      <3>2. IsQueue(<<a, b>>) /\ Range(<<a, b>>) = {a, b}
            /\ \A x, y : Before(<<a, b>>, x, y) => x = a /\ y = b
        BY TwoQueued
      <3>3. q = r /\ IsQueue(r) /\ Range(r) = {a, b} /\ \A x, y : Before(r, x, y) => y = b
        BY <2>3, <3>1, <3>2
      <3> QED
        BY <2>3, <3>3 DEF Command
    <2>5. /\ tokens' = [Without(gone) EXCEPT ![t].owned = Kind(t) = "process"]
          /\ listening' = StillListening(gone)
          /\ UNCHANGED <<model, created, aborted>>
          /\ commands' = Purged(Tail(commands), gone, shut) \o q
      BY <1>5, <2>1, <2>2, <2>3 DEF Terminate, environment
    <2>6. /\ gone \subseteq Live /\ t \notin gone
          /\ \A u \in Live : tokens[u].owner \in {t} \union gone => u \in gone
          /\ \A u \in gone : tokens[u].owner \in {t} \union gone
          /\ gone \union shut \subseteq {t} \union gone
      <3>1. /\ gone \subseteq Live /\ t \notin gone
            /\ \A u \in Live : tokens[u].owner \in gone => u \in gone
            /\ \A u \in Live : u \in Members(t) => u \in gone
            /\ \A u \in gone : u \in Members(t) \/ tokens[u].owner \in gone
        BY <1>1, <2>1, WithinScopes, NotWithinItself
      <3> QED
        BY <2>2, <3>1 DEF Members
    <2>7. QueueStep(gone, shut, q)
      BY <1>1, <2>4, <2>5, RemovalQueued
    <2>8. /\ Live' = Live \ gone
          /\ \A u \in Live \ gone : u # t => tokens'[u] = tokens[u]
          /\ tokens'[t] = [tokens[t] EXCEPT !.owned = Kind(t) = "process"]
      BY <1>1, <2>5, <2>6 DEF Without, Live
    <2>9. /\ tokens'[t].node = tokens[t].node /\ tokens'[t].state = tokens[t].state
          /\ tokens'[t].owner = tokens[t].owner /\ tokens'[t].link = tokens[t].link
      <3>1. tokens[t] \in Records
        BY <1>1, TokenFacts
      <3> QED
        BY <2>8, <3>1 DEF Records
    <2>10. Node(t)' = Node(t) /\ State(t)' = State(t) /\ Kind(t)' = Kind(t) /\ (Held(t)' <=> Held(t))
      BY <2>5, <2>9 DEF Node, State, Kind, Held
    <2>11. Range(listening') \subseteq Range(listening)
      BY <2>5, ListeningTrimmed
    <2>12. TokensTurn(t, gone, 0)
      BY <1>2, <2>5, <2>6, <2>8, <2>9, <2>10, <2>11 DEF TokensTurn
    <2>13. TokensGo(gone, shut)
      <3>1. \A x : ~Deletes(x)
        BY <1>1 DEF Deletes
      <3>2. ASSUME NEW u \in Live, Held(u) PROVE tokens[u].link \in gone <=> u \in gone
        <4>1. tokens[u].link \in Live /\ tokens[tokens[u].link].owner = tokens[u].owner
          BY <3>2 DEF BoundariesOK, BoundaryBound, BoundTo
        <4> QED
          BY <2>6, <4>1
      <3> QED
        BY <2>6, <3>1, <3>2 DEF TokensGo
    <2>14. Falters(t, "terminate", gone, shut, q)
      <3>1. \A c \in Range(q) : c.name \notin Main \union {"initiateBoundaryEvent"}
        BY <2>4 DEF Main, Moving
      <3>2. ~tokens[t].owned => ~tokens'[t].owned
        BY <1>5
      <3> QED
        BY <1>1, <1>3, <2>6, <2>7, <2>9, <2>10, <2>11, <2>12, <2>13, <3>1, <3>2 DEF Falters, HeadIs
    <2>15. GoesAhead(t)'
      <3>1. b \in Queued'
        BY <2>4, <2>7 DEF QueueStep
      <3> QED
        BY <2>4, <3>1 DEF GoesAhead, Pending, Onward
    <2>16. HeadTurns(gone)
      <3>1. \A v \in Live \ gone : tokens[v].owner # t
        BY <2>6
      <3> QED
        BY <1>1, <2>15, <3>1 DEF HeadTurns
    <2>17. NewBound(t, gone, shut, q)
      <3>1. CommandBound(a)' /\ Plain(a)
        BY <1>3, <2>4, <2>10 DEF CommandBound, MoveBound, FailureBound, InitiationBound,
           RemovalBound, Plain, Leaving
      <3>2. CommandBound(b)' /\ Plain(b)
        BY <1>3, <2>4, <2>10 DEF CommandBound, MoveBound, FailureBound, InitiationBound,
           RemovalBound, Plain, Leaving, Scopes
      <3> QED
        BY <2>4, <3>1, <3>2, PlainNew
    <2> QED
      BY <1>3, <2>10, <2>14, <2>15, <2>16, <2>17, FaltersBound
  <1> QED
    BY <1>4, <1>5

\* One token at most is changed, where it is, by the command of another.
LEMMA InPlaceBound ==
  ASSUME IInv, BoundariesOK, ~aborted, NEW t, InPlace(t),
         commands # <<>> => Head(commands).name # "deleteBoundary",
         NEW none, none = {}, NEW new, QueueStep({}, none, new),
         TokenTurns(t, {}, none, new), HeadTurns({}), NewBound(t, {}, none, new)
  PROVE  BoundariesOK'
  <1>1. created \in Nat
    BY FlowAssumption DEF IInv, Typed, Ids
  <1>2. (created + 1)..(created + 0) = {} /\ created = created + 0 /\ 0 \in Nat
    BY <1>1
  <1>3. TokensTurn(t, {}, 0)
    BY <1>2 DEF TokensTurn, InPlace
  <1>4. TokensGo({}, none)
    BY DEF TokensGo, Deletes
  <1>5. BoundStep(t, {}, 0, none, new)
    BY <1>2, <1>3, <1>4 DEF BoundStep
  <1> QED
    BY <1>5, BoundariesStay

LEMMA NothingBound ==
  ASSUME IInv, BoundariesOK, ~aborted, UNCHANGED <<model, created, tokens, aborted>>,
         Range(listening') \subseteq Range(listening),
         commands # <<>> => Head(commands).name # "deleteBoundary",
         NEW none, none = {}, NEW new, QueueStep({}, none, new),
         HeadTurns({}), NewBound(None, {}, none, new)
  PROVE  BoundariesOK'
  <1>1. None \notin Live /\ Live' = Live
    BY NothingTouched
  <1>2. InPlace(None) /\ TokenTurns(None, {}, none, new)
    BY <1>1 DEF InPlace, TokenTurns
  <1> QED
    BY <1>2, InPlaceBound

\* A failure is caught: the token at the error boundary event is completed, and
\* the activity is interrupted.
LEMMA CaughtBound ==
  ASSUME IInv, BoundariesOK, ~aborted, NEW a, HeadIs("handleFailure", a),
         NEW b \in Attached(a), Kind(b) = "errorBoundary", AdvanceToCompleted(b, Tail(commands))
  PROVE  BoundariesOK'
  <1>1. /\ commands # <<>> /\ Head(commands).name = "handleFailure" /\ Head(commands).for = a
        /\ a \in Live /\ b \in Live /\ tokens[b].link = a /\ Kind(b) \in Boundaries
        /\ a # None /\ a # b
        /\ \A d \in Rest : CommandOK(d) /\ CommandBound(d) /\ InOrder(Head(commands), d)
    <2>1. commands # <<>> /\ Head(commands).name = "handleFailure" /\ Head(commands).for = a
      BY DEF HeadIs
    <2>2. a \in Live /\ b \in Live /\ tokens[b].link = a /\ Kind(b) \in Boundaries
      BY <2>1, HeadFits DEF Attached, CommandOK
    <2>3. \A d \in Rest : CommandOK(d) /\ CommandBound(d) /\ InOrder(Head(commands), d)
      BY <2>1, HeadFits DEF BoundariesOK
    <2>4. a # None /\ a # b
      <3>1. tokens[b].link < b /\ b \in Nat /\ a # None
        BY <2>2, TokenFacts DEF TokenShaped
      <3> QED
        BY <2>2, <3>1
    <2> QED
      BY <2>1, <2>2, <2>3, <2>4
  <1>2. Held(b) /\ Kind(a) \in ActivityKinds /\ ~Dangling(b)
    BY <1>1 DEF Held, BoundariesOK, BoundaryBound, BoundTo, Dangling
  <1>3. Free(b)
    <2> SUFFICES ASSUME NEW d \in Rest, d.name \in Main, d.for = b PROVE FALSE
      BY DEF Free
    <2>1. d.name = "shutdown" => Kind(b) \in Scopes
      BY <1>1 DEF CommandOK, TokenFits
    <2>2. d.name \in Moving
      BY <2>1 DEF Main, Scopes
    <2>3. BoundaryFits(d)
      BY <1>1, <2>2 DEF CommandOK, Moving
    <2>4. d.name = "advanceToBusy"
      BY <1>1, <2>2, <2>3 DEF BoundaryFits
    <2> QED
      BY <1>1, <2>4 DEF InOrder
  <1>4. Node(b) \in model.interrupting
    BY <1>1, TokenFacts, ModelFits DEF BoundariesFit, Nodes, Kind
  <1>5. b \notin Range(listening)
    BY DEF IInv, ListeningOK, Signals
  <1>6. Attached(b) = {}
    BY <1>1, OnlyActivities DEF ActivityKinds
  <1>7. PICK none : none = {}
    OBVIOUS
  \* The commands left for the token.
  <1>8. ASSUME InPlace(b), Node(b)' = Node(b), State(b)' = "COMPLETED",
               Range(listening') \subseteq Range(listening), NEW new, QueueStep({}, none, new),
               Held(b)' => \A c \in Range(new) : c.name \notin Main
        PROVE  LeftBound(b, {}, none)
    <2>1. Kind(b)' = Kind(b)
      BY <1>8 DEF InPlace, Kind
    <2> SUFFICES ASSUME NEW c \in Rest
                 PROVE  /\ c.for = b => MoveBound(c)' /\ FailureBound(c)' /\ InitiationBound(c)'
                        /\ ~(c.name = "deleteBoundary" /\ c.arg = b)
      BY DEF LeftBound, Left
    <2>2. ASSUME c.for = b PROVE MoveBound(c)'
      <3>1. c.name \notin Main
        BY <1>3, <2>2 DEF Free
      <3> QED
        BY <3>1 DEF MoveBound, Main, Moving, Leaving
    <2>3. ASSUME c.for = b PROVE FailureBound(c)'
      <3>1. c.name \notin {"terminate", "updateFailed"}
        BY <1>1, <2>3 DEF CommandBound, FailureBound, Scopes
      <3>2. Held(b)' => Unmoved(b)'
        BY <1>3, <1>8 DEF Unmoved, Free, QueueStep, Left
      <3>3. b \notin Range(listening')
        BY <1>5, <1>8
      <3> QED
        BY <2>1, <2>3, <3>1, <3>2, <3>3 DEF FailureBound
    <2>4. ASSUME c.for = b PROVE InitiationBound(c)'
      <3>1. c.name \notin {"initiateBoundaryEvents", "initiateBoundaryEvent"}
        BY <1>1, <2>4 DEF CommandOK, TokenFits, CommandBound, InitiationBound, GoneBeyond, ActivityKinds
      <3> QED
        BY <3>1 DEF InitiationBound
    <2>5. ASSUME c.name = "deleteBoundary", c.arg = b PROVE FALSE
      BY <1>1, <2>5 DEF CommandBound, RemovalBound, ActivityKinds
    <2> QED
      BY <2>2, <2>3, <2>4, <2>5
  <1>9. CASE CompletedFeasibly(b, Tail(commands))
    <2>1. /\ InPlace(b) /\ State(b)' = "COMPLETED" /\ Node(b)' = Node(b) /\ Kind(b)' = Kind(b)
          /\ tokens'[b].link = None
          /\ \E onward \in Onwards(b) : commands' = Tail(commands) \o Consequence(b) \o onward
      BY <1>1, <1>2, <1>9, CompletedInPlace
    <2>2. PICK onward \in Onwards(b) : commands' = Tail(commands) \o Consequence(b) \o onward
      BY <2>1
    <2>3. PICK new : new = Consequence(b) \o onward
      OBVIOUS
    <2>4. IsQueue(onward) /\ IsQueue(Consequence(b))
      BY <1>1, OnwardOne, OneQueued, ConsequenceQuiet DEF Quiet
    <2>5. QueueStep({}, none, new)
      BY <1>1, <1>7, <2>2, <2>3, <2>4, EnqueueBoth
    <2>6. listening' = listening
      BY <1>2, <1>9 DEF CompletedFeasibly, registers
    <2>7. NewBound(b, {}, none, new) /\ Completes(b, new)
      BY <1>1, <1>2, <1>3, <1>4, <1>7, <2>1, <2>3, <2>5, CompletionEnqueues
    <2>8. LeftBound(b, {}, none) /\ ~Held(b)'
      BY <1>8, <2>1, <2>5, <2>6 DEF Held
    <2>9. Attached(b)' = {}
      BY <1>1, <1>6, <2>1, AttachedInPlace
    <2>10. TokenTurns(b, {}, none, new)
      BY <1>1, <2>1, <2>7, <2>8, <2>9 DEF TokenTurns
    <2>11. GoesAhead(a)'
      <3>1. PICK c : Consequence(b) = <<c>> /\ c.for = a /\ c.name = "interruptActivity"
        BY <1>1, <1>4, ConsequenceOf
      <3>2. IsQueue(<<c>>) /\ Range(<<c>>) = {c}
        BY OneQueued
      <3>3. c \in Range(new)
        BY <2>3, <2>4, <3>1, <3>2, JoinedOrder
      <3> QED
        BY <2>5, <3>1, <3>3 DEF QueueStep, GoesAhead, Pending, Onward
    <2>12. HeadTurns({})
      BY <1>1, <1>2, <2>1, <2>11 DEF HeadTurns, Held, InPlace, Kind, Node, ActivityKinds, Boundaries
    <2> QED
      BY <1>1, <1>7, <2>1, <2>5, <2>7, <2>10, <2>12, InPlaceBound
  <1>10. CASE CompletedInfeasibly(b, Tail(commands))
    <2>1. PICK c : c = Command("advanceToFailed", b)
      OBVIOUS
    <2>2. /\ Set(b, "COMPLETED") /\ UNCHANGED <<environment, created, aborted>>
          /\ listening' = listening /\ Enqueue(<<c>>)
      BY <1>10, <2>1 DEF CompletedInfeasibly, Fails, Enqueue, registers
    <2>3. c.name = "advanceToFailed" /\ c.for = b
      BY <2>1 DEF Command
    <2>4. Members(b) = {} /\ Kind(b) \notin Scopes
      BY <1>1, TokenFacts DEF Scopes, Boundaries
    <2>5. /\ InPlace(b) /\ State(b)' = "COMPLETED" /\ Node(b)' = Node(b) /\ Kind(b)' = Kind(b)
          /\ tokens'[b].link = tokens[b].link /\ (Held(b)' <=> Held(b))
      BY <1>1, <2>2, <2>4, SetInPlace DEF States
    <2>6. QueueStep({}, none, <<c>>) /\ Range(<<c>>) = {c} /\ c \in Queued'
      BY <1>1, <1>7, <2>2, EnqueueOne
    <2>7. c.name \notin Main
      BY <2>3 DEF Main, Moving
    <2>8. LeftBound(b, {}, none)
      BY <1>8, <2>2, <2>5, <2>6, <2>7
    <2>9. Attached(b)' = {}
      BY <1>1, <1>6, <2>5, AttachedInPlace
    <2>10. Awaits(b)' /\ Upset(b)'
      BY <2>3, <2>6 DEF Awaits, Upset, Pending
    <2>11. TokenTurns(b, {}, none, <<c>>)
      BY <1>1, <2>5, <2>8, <2>9, <2>10 DEF TokenTurns
    <2>12. GoesAhead(a)'
      <3>1. b \in Attached(a)'
        BY <1>1, <2>5 DEF Attached, InPlace
      <3> QED
        BY <2>10, <3>1 DEF GoesAhead
    <2>13. HeadTurns({})
      BY <1>1, <1>2, <2>5, <2>12 DEF HeadTurns, Held, InPlace, Kind, Node, ActivityKinds, Boundaries
    <2>14. Unmoved(b)' /\ b \notin Range(listening')
      BY <1>3, <1>5, <2>2, <2>6, <2>7 DEF Unmoved, Free, QueueStep, Left
    <2>15. CommandBound(c)' /\ Plain(c)
      BY <2>3, <2>14 DEF CommandBound, MoveBound, FailureBound, InitiationBound, RemovalBound,
         Plain, Leaving
    <2>16. NewBound(b, {}, none, <<c>>)
      BY <2>3, <2>6, <2>15, PlainNew
    <2> QED
      BY <1>1, <1>7, <2>5, <2>6, <2>11, <2>13, <2>16, InPlaceBound
  <1> QED
    BY <1>9, <1>10 DEF AdvanceToCompleted

\* A failure is not caught: the scope around fails, or the instance is deleted.
LEMMA UncaughtBound ==
  ASSUME IInv, BoundariesOK, ~aborted, NEW t, HeadIs("handleFailure", t),
         Enqueue(IF Kind(t) = "process" THEN <<Command("deleteInstance", t)>>
                 ELSE <<Command("advanceToFailed", tokens[t].owner)>>),
         UNCHANGED <<environment, created, tokens, registers, aborted>>
  PROVE  BoundariesOK'
  <1>1. /\ commands # <<>> /\ t \in Live
        /\ Head(commands).name = "handleFailure" /\ Head(commands).for = t
    BY HeadFits DEF HeadIs, CommandOK
  <1>2. UNCHANGED <<model, created, tokens, aborted>> /\ listening' = listening
    BY DEF environment, registers
  <1>3. PICK none : none = {}
    OBVIOUS
  <1>4. Attached(t)' = Attached(t) /\ \A u \in Live : Kind(u)' = Kind(u) /\ (Held(u)' <=> Held(u))
    <2>1. tokens' = tokens /\ Live' = Live /\ \A u : Node(u)' = Node(u) /\ Kind(u)' = Kind(u)
      BY <1>2 DEF Live, Kind, Node
    <2> QED
      BY <2>1 DEF Attached, Held
  <1>5. PICK s : s = tokens[t].owner
    OBVIOUS
  <1>6. ASSUME NEW c, Enqueue(<<c>>), CommandBound(c)', Plain(c), c.name \notin Main,
               Kind(t) # "process" => c.name = "advanceToFailed" /\ c.for = s
        PROVE  BoundariesOK'
    <2>1. QueueStep({}, none, <<c>>) /\ Range(<<c>>) = {c} /\ c \in Queued'
      BY <1>1, <1>3, <1>6, EnqueueOne
    <2>2. Kind(t) # "process" => Doomed(s)'
      BY <1>6, <2>1 DEF Doomed, Pending
    <2>3. Kind(t) # "process" => Awaits(t)' /\ GoesAhead(t)'
      BY <1>2, <1>5, <2>2 DEF Awaits, GoesAhead
    <2>4. ASSUME Held(t), NEW a, a = tokens[t].link PROVE GoesAhead(a)'
      <3>1. tokens[a].owner = s /\ Kind(t) # "process"
        BY <1>1, <1>5, <2>4 DEF BoundariesOK, BoundaryBound, BoundTo, Held, Boundaries
      <3> QED
        BY <1>2, <2>2, <3>1 DEF GoesAhead
    <2>5. Held(t) \/ Attached(t) # {} => Kind(t) # "process"
      BY <1>1, OnlyActivities DEF Held, Boundaries, ActivityKinds
    <2>6. HeadTurns({})
      BY <1>1, <1>4, <2>3, <2>4, <2>5 DEF HeadTurns
    <2>7. NewBound(None, {}, none, <<c>>)
      BY <1>6, <2>1, PlainNew
    <2> QED
      BY <1>1, <1>2, <1>3, <2>1, <2>6, <2>7, NothingBound
  <1>7. CASE Kind(t) = "process"
    <2>1. PICK c : c = Command("deleteInstance", t)
      OBVIOUS
    <2>2. c.name = "deleteInstance" /\ Enqueue(<<c>>)
      BY <1>7, <2>1 DEF Command
    <2>3. CommandBound(c)' /\ Plain(c)
      BY <2>2, Unbound DEF Leaving
    <2> QED
      BY <1>6, <1>7, <2>2, <2>3 DEF Main, Moving
  <1>8. CASE Kind(t) # "process"
    <2>1. PICK c : c = Command("advanceToFailed", s)
      OBVIOUS
    <2>2. c.name = "advanceToFailed" /\ c.for = s /\ Enqueue(<<c>>)
      BY <1>5, <1>8, <2>1 DEF Command
    <2>3. s \in Live /\ t \in Members(s)
      BY <1>1, <1>5, <1>8, TokenFacts DEF InScope, Members
    <2>4. Kind(s) \in Scopes
      BY <2>3, TokenFacts
    <2>5. Kind(s)' # "task" /\ ~Held(s)'
      BY <1>4, <2>3, <2>4 DEF Held, Scopes, Boundaries
    <2>6. CommandBound(c)' /\ Plain(c)
      BY <2>2, <2>5 DEF CommandBound, MoveBound, FailureBound, InitiationBound, RemovalBound,
         Plain, Leaving
    <2> QED
      BY <1>6, <2>2, <2>6 DEF Main, Moving
  <1> QED
    BY <1>7, <1>8

LEMMA HandleFailureBound ==
  ASSUME IInv, BoundariesOK, ~aborted, NEW t, HeadIs("handleFailure", t), HandleFailure(t)
  PROVE  BoundariesOK'
  <1>1. CASE \E b \in {b \in Attached(t) : Kind(b) = "errorBoundary"} :
               AdvanceToCompleted(b, Tail(commands))
    BY <1>1, CaughtBound
  <1>2. CASE /\ Enqueue(IF Kind(t) = "process" THEN <<Command("deleteInstance", t)>>
                        ELSE <<Command("advanceToFailed", tokens[t].owner)>>)
             /\ UNCHANGED <<environment, created, tokens, registers, aborted>>
    BY <1>2, UncaughtBound
  <1> QED
    BY <1>1, <1>2 DEF HandleFailure

-----------------------------------------------------------------------------
\* Nothing rests on other commands.
LEMMA NothingRests ==
  ASSUME NEW gone,
         commands # <<>> => Head(commands).name \notin
           Onward \union {"initiateBoundaryEvents", "initiateBoundaryEvent"}
  PROVE  HeadTurns(gone)
  BY DEF HeadTurns, Onward, Moving

\* Tokens are removed, and the others stay as they are.
LEMMA RemovedBound ==
  ASSUME IInv, BoundariesOK, ~aborted, NEW gone, gone \subseteq Live, tokens' = Without(gone),
         UNCHANGED <<model, created, aborted>>, Range(listening') \subseteq Range(listening),
         NEW shut, NEW new, QueueStep(gone, shut, new), TokensGo(gone, shut),
         HeadTurns(gone), NewBound(None, gone, shut, new)
  PROVE  BoundariesOK'
  <1>1. created \in Nat /\ None \notin Live
    BY FlowAssumption DEF IInv, Typed, Ids, None
  <1>2. (created + 1)..(created + 0) = {} /\ created = created + 0 /\ 0 \in Nat
    BY <1>1
  <1>3. Live' = Live \ gone /\ \A u \in Live \ gone : tokens'[u] = tokens[u]
    BY DEF Live, Without
  <1>4. TokensTurn(None, gone, 0)
    BY <1>1, <1>2, <1>3 DEF TokensTurn
  <1>5. BoundStep(None, gone, 0, shut, new)
    BY <1>1, <1>2, <1>4 DEF BoundStep, TokenTurns
  <1> QED
    BY <1>5, BoundariesStay

\* A token at a boundary event and its activity are in the same scope.
LEMMA HeldBeside ==
  ASSUME IInv, BoundariesOK, ~aborted, NEW b \in Live, Held(b), NEW a, a = tokens[b].link
  PROVE  /\ a \in Live /\ tokens[a].owner = tokens[b].owner
         /\ Kind(a) \in ActivityKinds /\ Kind(b) \in Boundaries
         /\ Kind(a) \notin Boundaries /\ Kind(b) \notin ActivityKinds
  BY DEF BoundariesOK, BoundaryBound, BoundTo, Held, Boundaries, ActivityKinds

LEMMA NoneNewBound ==
  ASSUME NEW t, NEW gone, NEW shut
  PROVE  NewBound(t, gone, shut, <<>>)
  BY PlainNew, NoneQueued

LEMMA InstanceDeletedBound ==
  ASSUME IInv, BoundariesOK, ~aborted, NEW t, HeadIs("deleteInstance", t), DeleteInstance(t)
  PROVE  BoundariesOK'
  <1>1. commands # <<>> /\ Head(commands).name = "deleteInstance" /\ t \in Live /\ Kind(t) = "process"
    BY HeadFits DEF HeadIs, CommandOK, TokenFits
  <1>2. PICK gone : gone = Within({t})
    OBVIOUS
  <1>3. /\ gone \subseteq Live /\ \A u \in Live : tokens[u].owner \in gone => u \in gone
        /\ \A u \in gone : u = t \/ tokens[u].owner \in gone
    BY <1>2, WithinScopes
  <1>4. /\ tokens' = Without(gone) /\ listening' = StillListening(gone)
        /\ waiting' = waiting \ gone /\ UNCHANGED <<model, created, aborted>>
        /\ commands' = Purged(Tail(commands), gone, gone) \o <<>>
    BY <1>2 DEF DeleteInstance, Removing, environment
  <1>5. QueueStep(gone, gone, <<>>)
    BY <1>1, <1>4, NoneQueued, RemovalQueued
  <1>6. \A b \in Live : Held(b) => (tokens[b].link \in gone <=> b \in gone)
    BY <1>1, <1>3, HeldBeside DEF ActivityKinds, Boundaries
  <1>7. TokensGo(gone, gone)
    BY <1>1, <1>3, <1>6 DEF TokensGo, Deletes
  <1>8. HeadTurns(gone)
    BY <1>1, NothingRests DEF Onward, Moving
  <1>9. Range(listening') \subseteq Range(listening)
    BY <1>4, ListeningTrimmed
  <1> QED
    BY <1>3, <1>4, <1>5, <1>7, <1>8, <1>9, NoneNewBound, RemovedBound

LEMMA BoundaryDeletedBound ==
  ASSUME IInv, BoundariesOK, ~aborted, NEW s, HeadIs("deleteBoundary", s),
         NEW a, a = Head(commands).arg, DeleteBoundary(s, a)
  PROVE  BoundariesOK'
  <1>1. commands # <<>> /\ Head(commands).name = "deleteBoundary"
    BY DEF HeadIs
  <1>2. CASE Abort
    BY <1>2, AbortBound
  <1>3. CASE ~Abort
    <2>1. PICK gone : gone = Attached(a)
      OBVIOUS
    <2>2. /\ gone \subseteq Live /\ \A u \in Live : tokens[u].owner \notin gone
      BY <2>1, AttachedLeaves
    <2>3. /\ tokens' = Without(gone) /\ listening' = StillListening(gone)
          /\ waiting' = waiting \ gone /\ UNCHANGED <<model, created, aborted>>
          /\ commands' = Purged(Tail(commands), gone, gone) \o <<>>
      BY <1>3, <2>1 DEF DeleteBoundary, Removing, environment
    <2>4. QueueStep(gone, gone, <<>>)
      BY <1>1, <2>3, NoneQueued, RemovalQueued
    <2>5. \A b \in Live : Held(b) => tokens[b].link \notin gone
      BY <2>1, HeldBeside DEF Attached
    <2>6. \A b \in gone : tokens[b].link = a
      BY <2>1 DEF Attached
    <2>7. Deletes(a) /\ \A x : Deletes(x) => x = a
      BY <1>1 DEF Deletes
    <2>8. TokensGo(gone, gone)
      BY <2>1, <2>2, <2>5, <2>6, <2>7 DEF TokensGo
    <2>9. HeadTurns(gone)
      BY <1>1, NothingRests DEF Onward, Moving
    <2>10. Range(listening') \subseteq Range(listening)
      BY <2>3, ListeningTrimmed
    <2> QED
      BY <2>2, <2>3, <2>4, <2>8, <2>9, <2>10, NoneNewBound, RemovedBound
  <1> QED
    BY <1>2, <1>3

\* An activity is interrupted, with what is within it and the tokens at its boundary events.
LEMMA InterruptedBound ==
  ASSUME IInv, BoundariesOK, ~aborted, NEW a, HeadIs("interruptActivity", a), InterruptActivity(a)
  PROVE  BoundariesOK'
  <1>1. commands # <<>> /\ Head(commands).name = "interruptActivity" /\ Head(commands).for = a
        /\ a \in Live
    BY HeadFits DEF HeadIs, CommandOK
  <1>2. CASE Kind(a) \notin ActivityKinds
    BY <1>2, AbortBound DEF InterruptActivity
  <1>3. CASE Kind(a) \in ActivityKinds
    <2>1. PICK in, at : in = Within({a}) /\ at = Attached(a)
      OBVIOUS
    <2>2. PICK gone : gone = in \union at
      OBVIOUS
    <2>3. /\ in \subseteq Live /\ \A u \in Live : tokens[u].owner \in in => u \in in
          /\ a \in in /\ \A u \in in : u = a \/ tokens[u].owner \in in
      BY <1>1, <2>1, WithinScopes
    <2>4. at \subseteq Live /\ \A u \in Live : tokens[u].owner \notin at
      BY <2>1, AttachedLeaves
    <2>5. /\ tokens' = Without(gone) /\ listening' = StillListening(gone)
          /\ waiting' = waiting \ gone /\ UNCHANGED <<model, created, aborted>>
          /\ commands' = Purged(Tail(commands), gone, gone) \o <<>>
      BY <1>3, <2>1, <2>2 DEF InterruptActivity, Removing, environment
    <2>6. QueueStep(gone, gone, <<>>)
      BY <1>1, <2>5, NoneQueued, RemovalQueued
    <2>7. ASSUME NEW b \in Live, Held(b) PROVE tokens[b].link \in gone <=> b \in gone
      <3>1. PICK l : l = tokens[b].link
        OBVIOUS
      <3>2. /\ l \in Live /\ tokens[l].owner = tokens[b].owner /\ Kind(b) \notin ActivityKinds
            /\ Kind(l) \notin Boundaries
        BY <2>7, <3>1, HeldBeside
      <3>3. b # a /\ l \notin at
        BY <1>3, <2>1, <3>2 DEF Attached
      <3>4. l = a <=> b \in at
        BY <2>1, <2>7, <3>1 DEF Attached, Held
      <3> QED
        BY <2>2, <2>3, <3>1, <3>2, <3>3, <3>4
    <2>8. TokensGo(gone, gone)
      BY <1>1, <2>2, <2>3, <2>4, <2>7 DEF TokensGo, Deletes
    <2>9. HeadTurns(gone)
      BY <1>1, <2>2, <2>3 DEF HeadTurns
    <2>10. Range(listening') \subseteq Range(listening)
      BY <2>5, ListeningTrimmed
    <2> QED
      BY <2>2, <2>3, <2>4, <2>5, <2>6, <2>8, <2>9, <2>10, NoneNewBound, RemovedBound
  <1> QED
    BY <1>2, <1>3

\* A scope is over, and the tokens in it are removed.
LEMMA ShutdownBound ==
  ASSUME IInv, BoundariesOK, ~aborted, NEW s, HeadIs("shutdown", s), Shutdown(s)
  PROVE  BoundariesOK'
  <1>1. /\ s \in Live /\ TokenFits("shutdown", s) /\ commands # <<>>
        /\ Head(commands).name = "shutdown"
    BY HeadMoves DEF Main, HeadIs
  <1>2. CASE Members(s) = {}
    BY <1>2, AbortBound DEF Shutdown
  <1>3. CASE Members(s) # {}
    <2>1. PICK gone : gone = Members(s)
      OBVIOUS
    <2>2. gone \subseteq Live /\ (\A u \in Live : u \in gone <=> tokens[u].owner = s)
          /\ \A u \in gone : Members(u) = {}
      BY <1>1, <2>1 DEF TokenFits, Members
    <2>3. PICK c : c = Command("advanceToCompleted", s)
      OBVIOUS
    <2>4. /\ tokens' = Without(gone) /\ listening' = StillListening(gone)
          /\ waiting' = waiting \ gone /\ UNCHANGED <<model, created, aborted>>
          /\ commands' = Purged(Tail(commands), gone, gone) \o <<c>>
          /\ c.name = "advanceToCompleted" /\ c.for = s
      BY <1>3, <2>1, <2>3 DEF Shutdown, Removing, environment, Command
    <2>5. QueueStep(gone, gone, <<c>>) /\ Range(<<c>>) = {c}
      BY <1>1, <2>4, OneQueued, RemovalQueued
    <2>6. \A b \in Live : Held(b) => (tokens[b].link \in gone <=> b \in gone)
      BY <2>2, HeldBeside
    <2>7. TokensGo(gone, gone)
      BY <1>1, <2>2, <2>6 DEF TokensGo, Deletes, Members
    <2>8. HeadTurns(gone)
      BY <1>1, NothingRests DEF Onward, Moving
    <2>9. Range(listening') \subseteq Range(listening)
      BY <2>4, ListeningTrimmed
    <2>10. tokens[s].owned
      BY <1>1, <1>3, TokenFacts
    <2>11. CommandBound(c)' /\ Plain(c)
      BY <2>4, Unbound DEF Leaving
    <2>12. NewBound(None, gone, gone, <<c>>)
      BY <2>4, <2>5, <2>10, <2>11, PlainNew
    <2> QED
      BY <2>2, <2>4, <2>5, <2>7, <2>8, <2>9, <2>12, RemovedBound
  <1> QED
    BY <1>2, <1>3

-----------------------------------------------------------------------------
\* A token that is neither at an activity nor at a boundary event.
LEMMA ElsewhereTurns ==
  ASSUME IInv, BoundariesOK, ~aborted, NEW t \in Live, NEW gone, NEW k, TokensTurn(t, gone, k),
         t \notin gone, Kind(t) \notin ActivityKinds \union Boundaries, Kind(t)' = Kind(t),
         \A x \in (created + 1)..(created + k) : Kind(x)' \notin Boundaries,
         NEW shut, LeftBound(t, gone, shut), NEW new
  PROVE  TokenTurns(t, gone, shut, new) /\ Attached(t)' = {}
  <1>1. Attached(t) = {}
    BY OnlyActivities
  <1>2. ASSUME NEW b \in Attached(t)' PROVE FALSE
    <2>1. b \in Live' /\ Kind(b)' \in Boundaries /\ tokens'[b].link = t
      BY DEF Attached
    <2>2. b \in Live \ gone /\ b # t
      BY <2>1 DEF TokensTurn
    <2>3. tokens'[b] = tokens[b] /\ Node(b)' = Node(b) /\ Kind(b)' = Kind(b)
      BY <2>2 DEF TokensTurn, Node, Kind
    <2> QED
      BY <1>1, <2>1, <2>2, <2>3 DEF Attached
  <1> QED
    BY <1>2 DEF TokenTurns, Held

\* Tokens are created, and the others stay as they are.
LEMMA CreatedBound ==
  ASSUME IInv, BoundariesOK, ~aborted, NEW gone, NEW k, NEW made, MadeFrom(gone, k, made),
         model' = model, created' = created + k, aborted' = aborted,
         Range(listening') \subseteq Range(listening),
         NEW shut, NEW new, QueueStep(gone, shut, new), TokensGo(gone, shut), HeadTurns(gone),
         \A x \in (created + 1)..(created + k) : BornBound(x, None, gone, shut),
         NewBound(None, gone, shut, new)
  PROVE  BoundariesOK'
  <1>1. None \notin Live
    BY FlowAssumption DEF IInv, Typed, Ids, None
  <1>2. /\ Live' = (Live \ gone) \union (created + 1)..(created + k)
        /\ \A u \in Live \ gone : tokens'[u] = tokens[u]
    BY AddedTokens
  <1>3. TokensTurn(None, gone, k)
    BY <1>1, <1>2 DEF TokensTurn, MadeFrom
  <1>4. BoundStep(None, gone, k, shut, new)
    BY <1>1, <1>3 DEF BoundStep, TokenTurns
  <1> QED
    BY <1>4, BoundariesStay

\* The other alternatives behind an event-based gateway are withdrawn.
LEMMA GatewayActivatedBound ==
  ASSUME IInv, BoundariesOK, ~aborted, NEW t, HeadIs("handleEventBasedGatewayActivation", t),
         HandleEventBasedGatewayActivation(t)
  PROVE  BoundariesOK'
  <1>1. /\ commands # <<>> /\ Head(commands).name = "handleEventBasedGatewayActivation"
        /\ t \in Live /\ Kind(t) \notin Boundaries
        /\ \A d \in Rest : d \in Queued /\ CommandOK(d) /\ CommandBound(d)
    BY HeadFits DEF HeadIs, CommandOK, TokenFits, BoundariesOK
  <1>2. CASE tokens[t].link \notin Live
    BY <1>2, AbortBound DEF HandleEventBasedGatewayActivation
  <1>3. CASE tokens[t].link \in Live
    <2>1. PICK g : g = tokens[t].link
      OBVIOUS
    <2>2. PICK gone : gone = (Alternatives(g) \ {t}) \union {g}
      OBVIOUS
    <2>3. /\ tokens' = [Without(gone) EXCEPT ![t].link = None]
          /\ listening' = StillListening(gone) /\ waiting' = waiting \ gone
          /\ UNCHANGED <<model, created, aborted>>
          /\ commands' = Purged(Tail(commands), gone, gone) \o <<>>
      BY <1>3, <2>1, <2>2 DEF HandleEventBasedGatewayActivation, Losers, Removing, environment
    <2>4. /\ tokens[t] \in Records /\ TokenShaped(t) /\ created \in Nat /\ None \notin Live
          /\ t \in Nat
      BY <1>1, TokenFacts, NoneChanged
    <2>5. Alternative(t) /\ g # None
      BY <1>1, <1>3, <2>1, <2>4 DEF Alternative
    <2>6. g \in Live /\ g # t /\ Kind(g) = "eventBased"
      <3>1. AlternativePlaced(t)
        BY <1>1, <2>5 DEF IInv, AlternativesOK
      <3>2. g < t
        BY <2>1, <2>4 DEF TokenShaped
      <3> QED
        BY <2>1, <2>4, <3>1, <3>2 DEF AlternativePlaced, Rests
    <2>7. /\ gone \subseteq Live /\ t \notin gone
          /\ \A v \in gone : Kind(v) \in {"eventBased", "timerCatch", "signalCatch"}
      <3>1. ASSUME NEW v \in Alternatives(g)
            PROVE  v \in Live /\ Kind(v) \in {"eventBased", "timerCatch", "signalCatch"}
        <4>1. v \in Live /\ Alternative(v)
          BY <2>5 DEF Alternatives, Alternative
        <4> QED
          BY <4>1, AlternativeAt
      <3> QED
        BY <2>2, <2>6, <3>1
    <2>8. \A u \in Live : tokens[u].owner \notin gone
      <3>1. \A v \in gone : v \in Live /\ Members(v) = {}
        BY <2>7, TokenFacts DEF Scopes
      <3> QED
        BY <3>1 DEF Members
    <2>9. \A b \in Live : Held(b) => b \notin gone /\ tokens[b].link \notin gone
      BY <2>7, HeldBeside DEF Boundaries, ActivityKinds
    <2>10. /\ Live' = Live \ gone /\ tokens'[t] = [tokens[t] EXCEPT !.link = None]
           /\ \A u \in Live \ gone : u # t => tokens'[u] = tokens[u]
      BY <1>1, <2>3, <2>7 DEF Live, Without
    <2>11. /\ tokens'[t].node = tokens[t].node /\ tokens'[t].owner = tokens[t].owner
           /\ tokens'[t].link = None /\ tokens'[t].state = tokens[t].state
           /\ tokens'[t].owned = tokens[t].owned
      BY <2>4, <2>10 DEF Records
    <2>12. Node(t)' = Node(t) /\ Kind(t)' = Kind(t) /\ State(t)' = State(t)
      BY <2>3, <2>11 DEF Node, Kind, State
    <2>13. Range(listening') \subseteq Range(listening)
      BY <2>3, ListeningTrimmed
    <2>14. (created + 1)..(created + 0) = {} /\ created = created + 0 /\ 0 \in Nat
      BY <2>4
    <2>15. TokensTurn(t, gone, 0)
      BY <2>3, <2>7, <2>10, <2>11, <2>12, <2>13, <2>14 DEF TokensTurn
    <2>16. TokensGo(gone, gone)
      BY <1>1, <2>8, <2>9 DEF TokensGo, Deletes
    <2>17. QueueStep(gone, gone, <<>>) /\ Range(<<>>) = {} /\ \A c, d : ~Before(<<>>, c, d)
      BY <1>1, <2>3, NoneQueued, RemovalQueued
    <2>18. Kind(t) \in {"eventBased", "timerCatch", "signalCatch"}
      BY <1>1, <2>5, AlternativeAt
    <2>19. Kind(t) \notin ActivityKinds \union Boundaries \union Scopes \union {"task"}
      BY <2>18 DEF ActivityKinds, Boundaries, Scopes
    <2>20. LeftBound(t, gone, gone)
      <3> SUFFICES ASSUME NEW c \in Left(gone, gone)
                   PROVE  /\ c.for = t => MoveBound(c)' /\ FailureBound(c)' /\ InitiationBound(c)'
                          /\ ~(c.name = "deleteBoundary" /\ c.arg = t)
        BY DEF LeftBound
      <3>1. c \in Rest /\ CommandOK(c) /\ CommandBound(c)
        BY <1>1 DEF Left
      <3>2. ASSUME c.for = t PROVE MoveBound(c)'
        BY <2>12, <2>19, <3>1, <3>2 DEF CommandBound, MoveBound
      <3>3. ASSUME c.for = t PROVE FailureBound(c)'
        BY <2>12, <2>19, <3>1, <3>3 DEF CommandBound, FailureBound, Held
      <3>4. ASSUME c.for = t PROVE InitiationBound(c)'
        <4>1. c.name # "initiateBoundaryEvents"
          BY <2>19, <3>1, <3>4 DEF CommandOK, TokenFits
        <4>2. ASSUME c.name = "initiateBoundaryEvent" PROVE GoneBeyond(c)' /\ Attached(t)' = {}
          <5>1. GoneBeyond(c)
            BY <2>19, <3>1, <3>4, <4>2 DEF CommandBound, InitiationBound
          <5>2. \A d \in Queued' : d \in Queued
            BY <1>1, <2>17 DEF QueueStep, Left
          <5>3. \A d : Ahead(d, c)' => Ahead(d, c)
            BY <2>17 DEF QueueStep
          <5>4. GoneBeyond(c)'
            BY <2>11, <2>12, <2>19, <3>4, <5>1, <5>2, <5>3 DEF GoneBeyond
          <5>5. Attached(t) = {}
            BY <1>1, <2>19, OnlyActivities
          <5>6. ASSUME NEW b \in Attached(t)' PROVE FALSE
            <6>1. b \in Live \ gone /\ Kind(b)' \in Boundaries /\ tokens'[b].link = t
              BY <2>10 DEF Attached
            <6>2. b # t
              BY <2>12, <2>19, <6>1
            <6>3. tokens'[b] = tokens[b] /\ Kind(b)' = Kind(b)
              BY <2>3, <2>10, <6>1, <6>2 DEF Kind, Node
            <6> QED
              BY <5>5, <6>1, <6>3 DEF Attached
          <5> QED
            BY <5>4, <5>6
        <4> QED
          BY <3>4, <4>1, <4>2 DEF InitiationBound
      <3>5. ~(c.name = "deleteBoundary" /\ c.arg = t)
        BY <1>1, <2>19, <3>1 DEF CommandBound, RemovalBound
      <3> QED
        BY <3>2, <3>3, <3>4, <3>5
    <2>21. TokenTurns(t, gone, gone, <<>>)
      BY <1>1, <2>7, <2>12, <2>14, <2>15, <2>19, <2>20, ElsewhereTurns
    <2>22. HeadTurns(gone)
      BY <1>1, NothingRests DEF Onward, Moving
    <2>23. NewBound(t, gone, gone, <<>>)
      BY NoneNewBound
    <2>24. BoundStep(t, gone, 0, gone, <<>>)
      BY <2>14, <2>15, <2>16, <2>17, <2>21, <2>22, <2>23 DEF BoundStep
    <2> QED
      BY <2>24, BoundariesStay
  <1> QED
    BY <1>2, <1>3

\* A gateway sends copies of its token along its flows.
LEMMA DivergedBound ==
  ASSUME IInv, BoundariesOK, ~aborted, NEW t, HeadIs("handleDivergingGateway", t),
         HandleDivergingGateway(t)
  PROVE  BoundariesOK'
  <1>1. PICK out \in Branches(t) :
          LET k == Len(out)
              copy == [tokens[t] EXCEPT !.link = IF Kind(t) = "eventBased" THEN t ELSE None,
                                        !.flow = <<>>]
              keep == IF Kind(t) = "eventBased" THEN {} ELSE {t}
          IN
          /\ created + k <= MaxTokens
          /\ tokens' = Added(Without(keep), [i \in 1..k |-> copy])
          /\ created' = created + k
          /\ commands' = Purged(Tail(commands), keep, {}) \o
                           [i \in 1..k |-> With("advanceToDeparted", NewId(i), <<Node(t), out[i]>>)]
          /\ UNCHANGED <<environment, registers, aborted>>
    BY DEF HandleDivergingGateway
  <1>2. PICK k, gone, copy, none :
          /\ k = Len(out) /\ gone = IF Kind(t) = "eventBased" THEN {} ELSE {t}
          /\ copy = [tokens[t] EXCEPT !.link = IF Kind(t) = "eventBased" THEN t ELSE None,
                                      !.flow = <<>>]
          /\ none = {}
    OBVIOUS
  <1>3. PICK made, q :
          /\ made = [i \in 1..k |-> copy]
          /\ q = [i \in 1..k |-> With("advanceToDeparted", created + i, <<Node(t), out[i]>>)]
    OBVIOUS
  <1>4. /\ tokens' = Added(Without(gone), made) /\ created' = created + k
        /\ UNCHANGED <<model, aborted>> /\ listening' = listening
        /\ commands' = Purged(Tail(commands), gone, none) \o q
    BY <1>1, <1>2, <1>3 DEF environment, registers, NewId
  <1>5. /\ t \in Live /\ commands # <<>> /\ Head(commands).name = "handleDivergingGateway"
        /\ Kind(t) \in Gateways /\ Members(t) = {} /\ Head(commands).for = t
        /\ tokens[t] \in Records
    BY HeadFits, TokenFacts DEF HeadIs, CommandOK, TokenFits, Moving
  <1>6. k \in Nat
    BY <1>2, <1>5, BranchesFollowFlows
  <1>7. gone \subseteq {t} /\ gone \subseteq Live /\ Kind(t) \notin ActivityKinds \union Boundaries
    BY <1>2, <1>5 DEF Gateways, ActivityKinds, Boundaries
  <1>8. MadeFrom(gone, k, made)
    <2>1. DOMAIN made = 1..k /\ made = [i \in 1..k |-> made[i]]
      BY <1>3
    <2>2. Len(made) = k
      BY <1>6, <2>1, FunctionQueued
    <2> QED
      BY <1>4, <1>6, <1>7, <2>2 DEF MadeFrom
  <1>9. /\ Live' = (Live \ gone) \union (created + 1)..(created + k)
        /\ \A u \in Live \ gone : tokens'[u] = tokens[u]
        /\ \A i \in 1..k : tokens'[created + i] = made[i]
    BY <1>8, AddedTokens
  <1>10. /\ IsQueue(q) /\ DOMAIN q = 1..k
         /\ \A c \in Range(q) : \E i \in 1..k : c = q[i]
         /\ \A i \in 1..k : q[i].for = created + i /\ q[i].name = "advanceToDeparted"
    <2>1. DOMAIN q = 1..k /\ q = [i \in 1..k |-> q[i]]
      BY <1>3
    <2>2. \A i \in 1..k : q[i].for = created + i /\ q[i].name = "advanceToDeparted"
      BY <1>3 DEF With
    <2> QED
      BY <1>6, <2>1, <2>2, FunctionQueued
  <1>11. QueueStep(gone, none, q)
    BY <1>4, <1>5, <1>10, RemovalQueued
  <1>12. TokensGo(gone, none)
    <2>1. \A b \in Live : Held(b) => b \notin gone /\ tokens[b].link \notin gone
      BY <1>7, HeldBeside
    <2> QED
      BY <1>2, <1>5, <1>7, <2>1 DEF TokensGo, Deletes, Members
  <1>13. created \in Nat /\ \A u \in Live : u \in 1..created
    BY FlowAssumption DEF IInv, Typed, Ids
  <1>14. ASSUME NEW x \in (created + 1)..(created + k) PROVE Kind(x)' = Kind(t) /\ x \notin Live
    <2>1. x - created \in 1..k /\ x = created + (x - created)
      BY <1>6, <1>13
    <2>2. tokens'[x] = copy
      BY <1>3, <1>9, <2>1
    <2>3. copy.node = tokens[t].node
      BY <1>2, <1>5 DEF Records
    <2> QED
      BY <1>4, <1>13, <2>2, <2>3 DEF Kind, Node
  <1>15. \A x \in (created + 1)..(created + k) : BornBound(x, None, gone, none)
    BY <1>7, <1>14 DEF BornBound
  <1>16. HeadTurns(gone)
    <2>1. t \notin gone => Attached(t)' = {}
      <3> SUFFICES ASSUME t \notin gone, NEW b \in Attached(t)' PROVE FALSE
        OBVIOUS
      <3>1. b \in Live' /\ Kind(b)' \in Boundaries /\ tokens'[b].link = t
        BY DEF Attached
      <3>2. b \in Live \ gone
        BY <1>7, <1>9, <1>14, <3>1
      <3>3. tokens'[b] = tokens[b] /\ Kind(b)' = Kind(b)
        BY <1>4, <1>9, <3>2 DEF Kind, Node
      <3>4. b \in Attached(t)
        BY <3>1, <3>2, <3>3 DEF Attached
      <3> QED
        BY <1>5, <1>7, <3>4, OnlyActivities
    <2> QED
      BY <1>5, <2>1 DEF HeadTurns
  <1>17. NewBound(None, gone, none, q)
    <2>1. ASSUME NEW c \in Range(q) PROVE CommandBound(c)' /\ Plain(c) /\ c.for \notin Live
      <3>1. PICK i \in 1..k : c = q[i]
        BY <1>10
      <3>2. PICK x : x = c.for
        OBVIOUS
      <3>3. c.name = "advanceToDeparted" /\ x = created + i
        BY <1>10, <3>1, <3>2
      <3>4. x \in (created + 1)..(created + k)
        BY <1>6, <1>13, <3>3
      <3>5. Kind(x)' \notin ActivityKinds /\ x \notin Live
        BY <1>7, <1>14, <3>4
      <3> QED
        BY <3>2, <3>3, <3>5 DEF CommandBound, MoveBound, FailureBound, InitiationBound,
           RemovalBound, Plain
    <2> QED
      BY <2>1, PlainNew
  <1> QED
    BY <1>4, <1>8, <1>11, <1>12, <1>15, <1>16, <1>17, CreatedBound

\* A token created elsewhere than at an activity or a boundary event is advanced.
LEMMA BornElsewhere ==
  ASSUME IInv, NEW gone, NEW new, NEW x, MadeFrom(gone, 1, new), model' = model,
         x = created + 1, new[1].node \in Nodes,
         model.kind[new[1].node] \notin ActivityKinds \union Boundaries,
         NEW shut, NEW c, c.for = x, c.name \in {"advanceToEntered", "advanceToBusy"},
         NEW q, Range(q) = {c}
  PROVE  /\ \A y \in (created + 1)..(created + 1) : BornBound(y, None, gone, shut)
         /\ NewBound(None, gone, shut, q)
         /\ Live' = (Live \ gone) \union {x} /\ x \notin Live
         /\ \A u \in Live \ gone : tokens'[u] = tokens[u]
         /\ Kind(x)' \notin ActivityKinds \union Boundaries
  <1>1. PICK k : k = 1
    OBVIOUS
  <1>2. created \in Nat /\ \A u \in Live : u \in 1..created
    BY FlowAssumption DEF IInv, Typed, Ids
  <1>3. /\ Live' = (Live \ gone) \union (created + 1)..(created + k)
        /\ \A u \in Live \ gone : tokens'[u] = tokens[u]
        /\ \A i \in 1..k : tokens'[created + i] = new[i]
    <2>1. MadeFrom(gone, k, new)
      BY <1>1
    <2> QED
      BY <2>1, AddedTokens
  <1>4. (created + 1)..(created + 1) = {x} /\ x \notin Live /\ 1 \in 1..k
    BY <1>1, <1>2
  <1>5. tokens'[x] = new[1]
    BY <1>3, <1>4
  <1>6. Kind(x)' \notin ActivityKinds \union Boundaries
    BY <1>5 DEF Kind, Node
  <1>7. \A y \in (created + 1)..(created + 1) : BornBound(y, None, gone, shut)
    BY <1>4, <1>6 DEF BornBound
  <1>8. CommandBound(c)' /\ Plain(c)
    <2>1. MoveBound(c)'
      BY <1>6 DEF MoveBound, Leaving
    <2> QED
      BY <2>1 DEF CommandBound, FailureBound, InitiationBound, RemovalBound, Plain
  <1>9. NewBound(None, gone, shut, q)
    BY <1>4, <1>8, PlainNew
  <1> QED
    BY <1>1, <1>3, <1>4, <1>6, <1>7, <1>9

\* A token is created at the start of a scope.
LEMMA RunBound ==
  ASSUME IInv, BoundariesOK, ~aborted, NEW s, HeadIs("run", s), Run(s)
  PROVE  BoundariesOK'
  <1> DEFINE start == CHOOSE n \in Nodes : model.kind[n] = "start" /\ model.scope[n] = Node(s)
  <1>1. /\ commands # <<>> /\ Head(commands).name = "run" /\ Head(commands).for = s
        /\ s \in Live /\ Kind(s) \in Scopes /\ State(s) = "BUSY" /\ Node(s) \in Nodes
    <2>1. commands # <<>> /\ Head(commands).name = "run" /\ Head(commands).for = s
      BY DEF HeadIs
    <2>2. s \in Live /\ Kind(s) \in Scopes /\ State(s) = "BUSY"
      BY <2>1, HeadFits DEF CommandOK, TokenFits
    <2> QED
      BY <2>1, <2>2, TokenFacts
  <1>2. PICK n : n = start
    OBVIOUS
  <1>3. n \in Nodes /\ model.kind[n] = "start"
    <2>1. \E m \in Nodes : model.kind[m] = "start" /\ model.scope[m] = Node(s)
      BY <1>1, ModelFits DEF ScopesStart, Nodes, Kind
    <2> QED
      BY <1>2, <2>1
  <1> HIDE DEF start
  <1>4. PICK x, none, new : x = created + 1 /\ none = {} /\ new = <<Token(n, "ENTERED", s, None)>>
    OBVIOUS
  <1>5. PICK c : c = Command("advanceToBusy", x)
    OBVIOUS
  <1>6. /\ created' = created + 1 /\ tokens' = Added(tokens, new) /\ Enqueue(<<c>>)
        /\ UNCHANGED <<model, aborted>> /\ listening' = listening
    BY <1>2, <1>4, <1>5 DEF Run, NewId, environment, registers, start
  <1>7. MadeFrom({}, 1, new) /\ new[1].node = n
    BY <1>4, <1>6 DEF MadeFrom, Token
  <1>8. c.name = "advanceToBusy" /\ c.for = x
    BY <1>5 DEF Command
  <1>9. QueueStep({}, none, <<c>>) /\ Range(<<c>>) = {c}
    BY <1>1, <1>4, <1>6, EnqueueOne
  <1>10. /\ \A y \in (created + 1)..(created + 1) : BornBound(y, None, {}, none)
         /\ NewBound(None, {}, none, <<c>>)
         /\ \A u \in Live \ {} : tokens'[u] = tokens[u]
    <2>1. model.kind[n] \notin ActivityKinds \union Boundaries
      BY <1>3 DEF ActivityKinds, Boundaries
    <2>2. PICK gone, q : gone = {} /\ q = <<c>>
      OBVIOUS
    <2>3. MadeFrom(gone, 1, new) /\ new[1].node \in Nodes /\ Range(q) = {c} /\ model' = model
      BY <1>3, <1>6, <1>7, <1>9, <2>2
    <2>4. /\ \A y \in (created + 1)..(created + 1) : BornBound(y, None, gone, none)
          /\ NewBound(None, gone, none, q)
          /\ \A u \in Live \ gone : tokens'[u] = tokens[u]
      BY <1>4, <1>7, <1>8, <2>1, <2>3, BornElsewhere
    <2> QED
      BY <2>2, <2>4
  <1>11. State(s)' = "BUSY"
    BY <1>1, <1>10 DEF State
  <1>12. HeadTurns({})
    BY <1>1, <1>11 DEF HeadTurns, GoesAhead
  <1>13. TokensGo({}, none)
    BY <1>1, <1>4 DEF TokensGo, Deletes
  <1> QED
    BY <1>6, <1>7, <1>9, <1>10, <1>12, <1>13, CreatedBound

\* The token at a converging gateway is released, or several are merged into one.
LEMMA ReleasedBound ==
  ASSUME IInv, BoundariesOK, ~aborted, commands # <<>>,
         Head(commands).name = "createMergedToken", NEW t \in waiting,
         tokens' = [tokens EXCEPT ![t].flow = <<>>],
         Enqueue(<<Command("advanceToEntered", t)>>),
         UNCHANGED <<environment, created, listening, aborted>>
  PROVE  BoundariesOK'
  <1>1. /\ t \in Live /\ Kind(t) \in Gateways \ {"eventBased"}
        /\ Members(t) = {} /\ Free(t) /\ t \notin Range(listening) /\ State(t) = "WAITING"
    BY WaitingFacts
  <1>2. PICK r : r = [tokens[t] EXCEPT !.flow = <<>>]
    OBVIOUS
  <1>3. tokens[t] \in Records /\ ~tokens[t].owned
    BY <1>1, TokenFacts DEF TokenShaped, Gateways, Scopes
  <1>4. /\ r \in Records /\ r.node = tokens[t].node /\ r.owner = tokens[t].owner
        /\ r.link = tokens[t].link /\ r.owned = tokens[t].owned /\ r.state = tokens[t].state
    BY <1>2, <1>3 DEF Records
  <1>5. tokens' = [tokens EXCEPT ![t] = r] /\ UNCHANGED <<model, created>>
    BY <1>2 DEF environment
  <1>6. /\ Live' = Live /\ tokens'[t] = r
        /\ \A u \in Live : Node(u)' = Node(u) /\ Kind(u)' = Kind(u)
        /\ \A u \in Live : u # t => tokens'[u] = tokens[u] /\ State(u)' = State(u)
    <2>1. r.link \in {tokens[t].link, None} /\ ~r.owned
      BY <1>3, <1>4
    <2>2. t \in Live /\ Members(t) = {} /\ Kind(t) \notin Scopes
      BY <1>1 DEF Gateways, Scopes
    <2>3. r.node = tokens[t].node /\ r.owner = tokens[t].owner /\ r \in Records
      BY <1>4
    <2> QED
      BY <1>5, <2>1, <2>2, <2>3, TokenChanged
  <1>7. /\ State(t)' = State(t) /\ Kind(t)' = Kind(t) /\ Node(t)' = Node(t)
        /\ tokens'[t].owned = tokens[t].owned
    BY <1>1, <1>4, <1>6 DEF State
  <1>8. InPlace(t)
    BY <1>1, <1>4, <1>5, <1>6 DEF InPlace
  <1>9. PICK none : none = {}
    OBVIOUS
  <1>10. PICK c : c = Command("advanceToEntered", t)
    OBVIOUS
  <1>11. c.name = "advanceToEntered" /\ c.for = t /\ Enqueue(<<c>>)
    BY <1>10 DEF Command
  <1>12. QueueStep({}, none, <<c>>) /\ Range(<<c>>) = {c} /\ c \in Queued'
    BY <1>9, <1>11, EnqueueOne
  <1>13. Kind(t) \notin ActivityKinds \union Boundaries \union Scopes \union {"task"}
    BY <1>1 DEF Gateways, ActivityKinds, Boundaries, Scopes
  <1>14. Attached(t) = {} /\ Attached(t)' = {}
    BY <1>1, <1>8, <1>13, OnlyActivities, AttachedInPlace
  <1>15. NewBound(t, {}, none, <<c>>)
    <2>1. CommandBound(c)' /\ Plain(c)
      BY <1>7, <1>11, <1>13
         DEF CommandBound, MoveBound, FailureBound, InitiationBound, RemovalBound, Plain, Leaving
    <2> QED
      BY <1>11, <1>12, <2>1, PlainNew
  <1>16. LeftBound(t, {}, none)
    <2> SUFFICES ASSUME NEW d \in Rest, d \in Left({}, none)
                 PROVE  /\ d.for = t => MoveBound(d)' /\ FailureBound(d)' /\ InitiationBound(d)'
                        /\ ~(d.name = "deleteBoundary" /\ d.arg = t)
      BY DEF LeftBound, Left
    <2>1. d \in Queued /\ CommandOK(d) /\ CommandBound(d)
      BY HeadFits DEF BoundariesOK
    <2>2. ASSUME d.for = t PROVE MoveBound(d)'
      BY <1>7, <1>13, <2>1, <2>2 DEF CommandBound, MoveBound
    <2>3. ASSUME d.for = t PROVE FailureBound(d)'
      BY <1>7, <1>13, <2>1, <2>3 DEF CommandBound, FailureBound, Held
    <2>4. ASSUME d.for = t PROVE InitiationBound(d)'
      <3>1. d.name # "initiateBoundaryEvents"
        BY <1>13, <2>1, <2>4 DEF CommandOK, TokenFits
      <3>2. ASSUME d.name = "initiateBoundaryEvent" PROVE GoneBeyond(d)'
        <4>1. GoneBeyond(d)
          BY <1>13, <2>1, <2>4, <3>2 DEF CommandBound, InitiationBound
        <4>2. \A e \in Queued' : e \in Queued \/ e = c
          BY <1>12, RestQueued DEF QueueStep, Left, IInv, Typed
        <4>3. ASSUME NEW e \in Queued', e.name \in Main, e.for = t, NEW b \in {TRUE}
              PROVE  e.name = "advanceToEntered" /\ ~Ahead(e, d)'
          <5>1. e = c
            <6>1. e \notin Rest
              BY <1>1, <4>3 DEF Free
            <6> QED
              BY <1>12, <4>3, <6>1 DEF QueueStep, Left
          <5>2. ~Before(<<c>>, e, d)
            BY DEF Before
          <5>3. c \notin Rest
            BY <1>1, <1>11 DEF Free, Main, Moving
          <5> QED
            BY <1>11, <1>12, <5>1, <5>2, <5>3 DEF QueueStep, Left
        <4> QED
          BY <1>7, <1>13, <2>4, <4>1, <4>3 DEF GoneBeyond
      <3> QED
        BY <1>14, <2>4, <3>1, <3>2 DEF InitiationBound
    <2>5. ~(d.name = "deleteBoundary" /\ d.arg = t)
      BY <1>1, <1>13, <2>1 DEF CommandBound, RemovalBound
    <2> QED
      BY <2>2, <2>3, <2>4, <2>5
  <1>17. TokenTurns(t, {}, none, <<c>>)
    BY <1>7, <1>13, <1>14, <1>16 DEF TokenTurns, Held
  <1>18. HeadTurns({})
    BY NothingRests DEF Onward, Moving
  <1> QED
    BY <1>8, <1>9, <1>12, <1>15, <1>17, <1>18, InPlaceBound

LEMMA MergedBound ==
  ASSUME IInv, BoundariesOK, ~aborted, commands # <<>>, NEW s, NEW n,
         Head(commands).name = "createMergedToken",
         NEW there, there = {t \in waiting : tokens[t].owner = s /\ Node(t) = n},
         there # {}, NEW gone, gone \subseteq there,
         created' = created + 1,
         tokens' = Added(Without(gone), <<Token(n, "WAITING", s, None)>>),
         Removing(gone, <<Command("advanceToEntered", NewId(1))>>),
         UNCHANGED <<environment, aborted>>
  PROVE  BoundariesOK'
  <1>1. PICK w \in there : TRUE
    OBVIOUS
  <1>2. \A t \in there : /\ t \in Live /\ Node(t) = n
                         /\ Kind(t) \in Gateways \ {"eventBased"} /\ Members(t) = {}
    BY WaitingFacts
  <1>3. n \in Nodes /\ model.kind[n] \in Gateways \ {"eventBased"}
    BY <1>1, <1>2, TokenFacts DEF Kind
  <1>4. PICK x, new : x = created + 1 /\ new = <<Token(n, "WAITING", s, None)>>
    OBVIOUS
  <1>5. PICK c, q : c = Command("advanceToEntered", x) /\ q = <<c>>
    OBVIOUS
  <1>6. /\ tokens' = Added(Without(gone), new) /\ model' = model /\ aborted' = aborted
        /\ listening' = StillListening(gone) /\ waiting' = waiting \ gone
        /\ commands' = Purged(Tail(commands), gone, gone) \o q
    BY <1>4, <1>5 DEF Removing, NewId, environment
  <1>7. MadeFrom(gone, 1, new) /\ new[1].node = n
    BY <1>2, <1>4, <1>6 DEF MadeFrom, Token
  <1>8. c.name = "advanceToEntered" /\ c.for = x
    BY <1>5 DEF Command
  <1>9. QueueStep(gone, gone, q) /\ Range(q) = {c}
    <2>1. IsQueue(q) /\ Range(q) = {c}
      BY <1>5, OneQueued
    <2> QED
      BY <1>6, <2>1, RemovalQueued
  <1>10. /\ \A y \in (created + 1)..(created + 1) : BornBound(y, None, gone, gone)
         /\ NewBound(None, gone, gone, q)
    <2>1. model.kind[new[1].node] \notin ActivityKinds \union Boundaries /\ new[1].node \in Nodes
      BY <1>3, <1>7 DEF Gateways, ActivityKinds, Boundaries
    <2>2. /\ MadeFrom(gone, 1, new) /\ model' = model /\ x = created + 1
          /\ c.for = x /\ c.name \in {"advanceToEntered", "advanceToBusy"} /\ Range(q) = {c}
      BY <1>4, <1>6, <1>7, <1>8, <1>9
    <2>3. PICK shut : shut = gone
      OBVIOUS
    <2>4. /\ \A y \in (created + 1)..(created + 1) : BornBound(y, None, gone, shut)
          /\ NewBound(None, gone, shut, q)
      BY <2>1, <2>2, BornElsewhere
    <2> QED
      BY <2>3, <2>4
  <1>11. Range(listening') \subseteq Range(listening)
    <2>1. listening' = StillListening(gone)
      BY <1>6
    <2> QED
      BY <2>1, ListeningTrimmed
  <1>12. TokensGo(gone, gone)
    <2>1. \A u \in Live : tokens[u].owner \notin gone
      BY <1>2 DEF Members
    <2>2. \A b \in Live : Held(b) => b \notin gone /\ tokens[b].link \notin gone
      BY <1>2, HeldBeside DEF Gateways, Boundaries, ActivityKinds
    <2> QED
      BY <2>1, <2>2 DEF TokensGo, Deletes
  <1>13. HeadTurns(gone)
    BY NothingRests DEF Onward, Moving
  <1> QED
    BY <1>6, <1>7, <1>9, <1>10, <1>11, <1>12, <1>13, CreatedBound

LEMMA CreateMergedBound ==
  ASSUME IInv, BoundariesOK, ~aborted, NEW s, HeadIs("createMergedToken", s),
         CreateMergedToken(s, Head(commands).arg)
  PROVE  BoundariesOK'
  <1>1. PICK n : n = Head(commands).arg
    OBVIOUS
  <1>2. PICK there, gone, first : Merging(s, n, there, gone, first)
    BY <1>1, MergeConsumes
  <1>3. there = {t \in waiting : tokens[t].owner = s /\ Node(t) = n} /\ gone \subseteq there
    BY <1>2 DEF Merging
  <1>4. commands # <<>> /\ Head(commands).name = "createMergedToken"
    BY DEF HeadIs
  <1>5. CASE there = {}
    BY <1>2, <1>5, AbortBound DEF Merging
  <1>6. CASE there # {} /\ gone = {first}
    <2>1. /\ tokens' = [tokens EXCEPT ![first].flow = <<>>]
          /\ Enqueue(<<Command("advanceToEntered", first)>>)
          /\ UNCHANGED <<environment, created, listening, aborted>>
      BY <1>2, <1>6 DEF Merging
    <2>2. first \in waiting
      BY <1>3, <1>6
    <2> QED
      BY <1>4, <2>1, <2>2, ReleasedBound
  <1>7. CASE there # {} /\ gone # {first}
    <2>1. /\ tokens' = Added(Without(gone), <<Token(n, "WAITING", s, None)>>)
          /\ created' = created + 1
          /\ Removing(gone, <<Command("advanceToEntered", NewId(1))>>)
          /\ UNCHANGED <<environment, aborted>>
      BY <1>2, <1>7 DEF Merging
    <2> QED
      BY <1>3, <1>4, <1>7, <2>1, MergedBound
  <1> QED
    BY <1>5, <1>6, <1>7

\* Tokens come to boundary events of an activity that has none there.
LEMMA InitiatedBound ==
  ASSUME IInv, BoundariesOK, ~aborted, NEW a,
         NEW name \in {"initiateBoundaryEvent", "initiateBoundaryEvents"}, HeadIs(name, a),
         NEW k, NEW node, NEW new, NEW q, Initiates(a, k, node, new, q),
         Kind(a) \in ActivityKinds, State(a) \in Inhabited,
         State(a) = "BUSY" \/ \E d \in Rest : d.for = a /\ d.name \in Onward,
         \A i \in 1..k :
           /\ node[i] \in Range(BoundaryEvents(Node(a)))
           /\ \A j \in 1..k : node[i] = node[j] => i = j
           /\ \A b \in Attached(a) : Node(b) # node[i]
           /\ \A c \in Rest : c.for = a =>
                c.name \notin Leaving /\ ~(c.name = "initiateBoundaryEvent" /\ c.arg = node[i]),
         name = "initiateBoundaryEvents" =>
           \A n \in Range(BoundaryEvents(Node(a))) : \E i \in 1..k : node[i] = n,
         name = "initiateBoundaryEvent" => \E i \in 1..k : node[i] = Head(commands).arg
  PROVE  BoundariesOK'
  <1>1. /\ commands # <<>> /\ Head(commands).name = name /\ Head(commands).for = a
        /\ a \in Live /\ a # None /\ created \in Nat
    <2>1. commands # <<>> /\ Head(commands).name = name /\ Head(commands).for = a
      BY DEF HeadIs
    <2>2. a \in Live
      BY <2>1, HeadFits DEF CommandOK
    <2> QED
      BY <2>1, <2>2, TokenFacts
  <1>2. PICK none : none = {}
    OBVIOUS
  <1>3. /\ k \in Nat /\ Len(new) = k /\ DOMAIN q = 1..k /\ q = [i \in 1..k |-> q[i]]
        /\ tokens' = Added(tokens, new) /\ created' = created + k /\ Enqueue(q)
        /\ model' = model /\ aborted' = aborted /\ listening' = listening
        /\ \A i \in 1..k : /\ new[i] = Token(node[i], "ENTERED", tokens[a].owner, a)
                           /\ q[i] = Command("advanceToBusy", created + i)
                           /\ model.kind[node[i]] \in Boundaries
    BY DEF Initiates, environment, registers
  <1>4. MadeFrom({}, k, new)
    BY <1>3 DEF MadeFrom
  <1>5. /\ Live' = Live \union (created + 1)..(created + k)
        /\ \A u \in Live : tokens'[u] = tokens[u]
        /\ \A i \in 1..k : tokens'[created + i] = new[i]
    <2>1. PICK gone : gone = {}
      OBVIOUS
    <2>2. MadeFrom(gone, k, new)
      BY <1>4, <2>1
    <2>3. /\ Live' = (Live \ gone) \union (created + 1)..(created + k)
          /\ \A u \in Live \ gone : tokens'[u] = tokens[u]
          /\ \A i \in 1..k : tokens'[created + i] = new[i]
      BY <2>2, AddedTokens
    <2> QED
      BY <2>1, <2>3
  <1>6. ASSUME NEW i \in 1..k, NEW x, x = created + i
        PROVE  /\ x \in Live' /\ tokens'[x].owner = tokens[a].owner /\ tokens'[x].link = a
               /\ Node(x)' = node[i] /\ Kind(x)' \in Boundaries /\ x \notin Live
               /\ x \in (created + 1)..(created + k)
    <2>1. tokens'[x] = new[i] /\ x \in (created + 1)..(created + k)
      BY <1>1, <1>3, <1>5, <1>6
    <2>2. PICK n : n = node[i]
      OBVIOUS
    <2>3. tokens'[x] = Token(n, "ENTERED", tokens[a].owner, a)
      BY <1>3, <2>1, <2>2
    <2>4. /\ tokens'[x].owner = tokens[a].owner /\ tokens'[x].link = a /\ tokens'[x].node = n
      BY <2>3 DEF Token
    <2>5. x \notin Live
      <3>1. \A u \in Live : u \in 1..created
        BY DEF IInv, Typed
      <3> QED
        BY <1>1, <1>6, <3>1
    <2> QED
      BY <1>3, <1>5, <2>1, <2>2, <2>4, <2>5 DEF Node, Kind
  <1>7. \A x \in (created + 1)..(created + k) : \E i \in 1..k : x = created + i
    <2>1. \A x \in (created + 1)..(created + k) : x - created \in 1..k /\ x = created + (x - created)
      BY <1>1, <1>3
    <2> QED
      BY <2>1
  <1>8. IsQueue(q) /\ \A c \in Range(q) : \E i \in 1..k : c = q[i]
    BY <1>3, FunctionQueued
  <1>9. QueueStep({}, none, q)
    <2>1. QueueStep({}, {}, q)
      BY <1>1, <1>3, <1>8, CommandsEnqueued DEF Enqueue, IInv, Typed
    <2> QED
      BY <1>2, <2>1
  <1>10. \A d \in Rest : d \in Queued'
    BY <1>2, <1>9 DEF QueueStep, Left, Stays
  <1>11. \A i \in 1..k : q[i] \in Queued' /\ q[i] \in Range(q)
    BY <1>3, <1>9 DEF QueueStep, Range
  <1>12. /\ State(a)' = State(a) /\ Node(a)' = Node(a) /\ BoundaryEvents(Node(a))' = BoundaryEvents(Node(a))
    BY <1>1, <1>3, <1>5 DEF State, Node, BoundaryEvents
  <1>13. GoesAhead(a)'
    BY <1>10, <1>12 DEF GoesAhead, Pending
  <1>14. ASSUME NEW b \in Attached(a)'
         PROVE  \/ b \in Attached(a) /\ Node(b)' = Node(b)
                \/ \E i \in 1..k : b = created + i
    <2>1. b \in Live' /\ tokens'[b].link = a /\ Kind(b)' \in Boundaries
      BY DEF Attached
    <2>2. CASE b \in Live
      <3>1. tokens'[b] = tokens[b] /\ Kind(b)' = Kind(b) /\ Node(b)' = Node(b)
        BY <1>3, <1>5, <2>2 DEF Kind, Node
      <3> QED
        BY <2>1, <2>2, <3>1 DEF Attached
    <2> QED
      BY <1>5, <1>7, <2>1, <2>2
  <1>15. ASSUME NEW x \in (created + 1)..(created + k) PROVE BornBound(x, None, {}, none)
    <2>1. PICK i \in 1..k : x = created + i
      BY <1>7
    <2>2. PICK c : c = q[i]
      OBVIOUS
    <2>3. c \in Queued' /\ c.for = x /\ c.name = "advanceToBusy"
      <3>1. c = Command("advanceToBusy", x)
        BY <1>3, <2>1, <2>2
      <3> QED
        <4>1. c \in Queued'
          BY <1>11, <2>2
        <4>2. c.for = x /\ c.name = "advanceToBusy"
          BY <3>1 DEF Command
        <4> QED
          BY <4>1, <4>2
    <2>4. Awaits(x)'
      BY <2>3 DEF Awaits, Pending
    <2>5. ASSUME NEW b \in Attached(a)', Node(b)' = Node(x)' PROVE b = x
      <3>1. CASE b \in Attached(a) /\ Node(b)' = Node(b)
        BY <1>6, <2>1, <2>5, <3>1
      <3>2. CASE \E j \in 1..k : b = created + j
        <4>1. PICK j \in 1..k : b = created + j
          BY <3>2
        <4>2. Node(b)' = node[j] /\ Node(x)' = node[i]
          BY <1>6, <2>1, <4>1
        <4> QED
          BY <2>1, <2>5, <4>1, <4>2
      <3> QED
        BY <1>14, <2>5, <3>1, <3>2
    <2>6. Node(x)' = node[i] /\ tokens'[x].link = a /\ tokens'[x].owner = tokens[a].owner /\ Kind(x)' \in Boundaries
      BY <1>6, <2>1
    <2>7. node[i] \in Range(BoundaryEvents(Node(a)))
      OBVIOUS
    <2>8. \A d \in Left({}, none) : d.for = a =>
             d.name \notin Leaving /\ ~(d.name = "initiateBoundaryEvent" /\ d.arg = Node(x)')
      BY <2>6 DEF Left
    <2>9. Kind(x)' \notin ActivityKinds
      BY <2>6 DEF Boundaries, ActivityKinds
    <2> QED
      BY <1>1, <1>13, <2>4, <2>5, <2>6, <2>7, <2>8, <2>9 DEF BornBound
  <1>16. \A i \in 1..k : \E b \in Attached(a)' : Node(b)' = node[i]
    BY <1>6 DEF Attached
  <1>17. HeadTurns({})
    <2>1. name = "initiateBoundaryEvents" => Armed(a)'
      BY <1>12, <1>16 DEF Armed, ArmedAt
    <2>2. name = "initiateBoundaryEvent" => \E b \in Attached(a)' : Node(b)' = Head(commands).arg
      BY <1>16
    <2> QED
      BY <1>1, <1>13, <2>1, <2>2 DEF HeadTurns
  <1>18. NewBound(None, {}, none, q)
    <2>1. ASSUME NEW c \in Range(q) PROVE CommandBound(c)' /\ Plain(c) /\ c.for \notin Live
      <3>1. PICK i \in 1..k : c = q[i]
        BY <1>8
      <3>2. PICK x : x = c.for
        OBVIOUS
      <3>3. c.name = "advanceToBusy" /\ x = created + i
        BY <1>3, <3>1, <3>2 DEF Command
      <3>4. Kind(x)' \notin ActivityKinds /\ x \notin Live /\ tokens'[x].link # None
        BY <1>1, <1>6, <3>3 DEF Boundaries, ActivityKinds
      <3> QED
        BY <3>2, <3>3, <3>4 DEF CommandBound, MoveBound, FailureBound, InitiationBound,
           RemovalBound, Plain, Leaving
    <2> QED
      BY <2>1, PlainNew
  <1>19. TokensGo({}, none)
    BY <1>1, <1>2 DEF TokensGo, Deletes
  <1> QED
    BY <1>3, <1>4, <1>9, <1>15, <1>17, <1>18, <1>19, CreatedBound

\* Tokens come to the boundary events of an activity that is entered.
LEMMA InitiateBoundaryEventsBound ==
  ASSUME IInv, BoundariesOK, ~aborted, NEW a, HeadIs("initiateBoundaryEvents", a),
         InitiateBoundaryEvents(a)
  PROVE  BoundariesOK'
  <1>1. /\ commands # <<>> /\ Head(commands).name = "initiateBoundaryEvents"
        /\ Head(commands).for = a /\ Head(commands) \in Queued /\ CommandOK(Head(commands))
        /\ \A d \in Rest : d \in Queued /\ Compatible(Head(commands), d)
    BY HeadFits DEF HeadIs
  <1>2. CommandBound(Head(commands)) /\ \A d \in Rest : CommandBound(d)
    BY <1>1 DEF BoundariesOK
  <1>3. /\ State(a) = "ENTERED" /\ Attached(a) = {} /\ Kind(a) \in ActivityKinds
        /\ Pending({"advanceToBusy", "advanceToFailed"}, a) /\ ~Pending({"initiateBoundaryEvent"}, a)
    BY <1>1, <1>2 DEF CommandBound, InitiationBound, CommandOK, TokenFits
  <1>4. PICK node, k : node = BoundaryEvents(Node(a)) /\ k = Len(node)
    OBVIOUS
  <1>5. PICK new, q : /\ new = [i \in 1..k |-> Token(node[i], "ENTERED", tokens[a].owner, a)]
                      /\ q = [i \in 1..k |-> Command("advanceToBusy", created + i)]
    OBVIOUS
  <1>6. /\ tokens' = Added(tokens, new) /\ created' = created + k /\ created + k <= MaxTokens
        /\ Enqueue(q) /\ UNCHANGED <<environment, registers, aborted>>
    BY <1>3, <1>4, <1>5 DEF InitiateBoundaryEvents, NewId
  <1>7. node \in Seq({b \in Nodes : model.kind[b] \in Boundaries})
    BY <1>4, ModelFits DEF BoundaryEvents, BoundariesFit, Nodes
  <1>8. /\ k \in Nat /\ DOMAIN node = 1..k
        /\ \A i \in 1..k : node[i] \in Nodes /\ model.kind[node[i]] \in Boundaries
    BY <1>4, <1>7
  <1>9. Len(new) = k /\ DOMAIN q = 1..k /\ q = [i \in 1..k |-> q[i]]
    BY <1>5, <1>8
  <1>10. \A d \in Rest : d.name = "handleFailure" => d.for # a
    BY <1>1 DEF Compatible, Failing
  <1>11. \A i \in 1..k : /\ new[i] = Token(node[i], "ENTERED", tokens[a].owner, a)
                         /\ q[i] = Command("advanceToBusy", created + i)
    BY <1>5
  <1>12. Initiates(a, k, node, new, q)
    BY <1>6, <1>8, <1>9, <1>10, <1>11 DEF Initiates
  <1>13. \A i, j \in 1..k : node[i] = node[j] => i = j
    <2>1. PICK n : n = Node(a)
      OBVIOUS
    <2>2. CASE n \in DOMAIN model.boundary
      <3>1. node = model.boundary[n]
        BY <1>4, <2>1, <2>2 DEF BoundaryEvents
      <3>2. \A i, j \in DOMAIN model.boundary[n] :
              model.boundary[n][i] = model.boundary[n][j] => i = j
        BY <2>2, ModelFits DEF BoundariesFit
      <3> QED
        BY <1>8, <3>1, <3>2
    <2>3. CASE n \notin DOMAIN model.boundary
      <3>1. node = <<>>
        BY <1>4, <2>1, <2>3 DEF BoundaryEvents
      <3> QED
        BY <1>4, <1>8, <3>1
    <2> QED
      BY <2>2, <2>3
  <1>14. Range(node) = {node[i] : i \in 1..k}
    BY <1>8 DEF Range
  <1>15. \A i \in 1..k : node[i] \in Range(BoundaryEvents(Node(a)))
    BY <1>4, <1>14
  <1>16. \A n \in Range(BoundaryEvents(Node(a))) : \E i \in 1..k : node[i] = n
    BY <1>4, <1>14
  <1>17. \E d \in Rest : d.for = a /\ d.name \in Onward
    <2>1. PICK d \in Queued : d.for = a /\ d.name \in {"advanceToBusy", "advanceToFailed"}
      BY <1>3 DEF Pending
    <2>2. d \in Rest
      BY <1>1, <2>1, RestQueued DEF IInv, Typed
    <2> QED
      BY <2>1, <2>2 DEF Onward, Moving
  <1>18. \A c \in Rest : c.for = a => c.name \notin Leaving /\ c.name # "initiateBoundaryEvent"
    BY <1>1, <1>2, <1>3 DEF CommandBound, MoveBound, Pending
  <1>19. State(a) \in Inhabited
    BY <1>3 DEF Inhabited
  <1>20. PICK name : name = "initiateBoundaryEvents"
    OBVIOUS
  <1>21. \A i \in 1..k :
           /\ node[i] \in Range(BoundaryEvents(Node(a)))
           /\ \A j \in 1..k : node[i] = node[j] => i = j
           /\ \A b \in Attached(a) : Node(b) # node[i]
           /\ \A c \in Rest : c.for = a =>
                c.name \notin Leaving /\ ~(c.name = "initiateBoundaryEvent" /\ c.arg = node[i])
    BY <1>3, <1>13, <1>15, <1>18
  <1> QED
    BY <1>3, <1>12, <1>16, <1>17, <1>19, <1>20, <1>21, InitiatedBound

\* A token comes to the boundary event of an activity that is not about to be left.
LEMMA InitiateBoundaryEventBound ==
  ASSUME IInv, BoundariesOK, ~aborted, RearmedInTime, NEW a, HeadIs("initiateBoundaryEvent", a),
         InitiateBoundaryEvent(a, Head(commands).arg)
  PROVE  BoundariesOK'
  <1>1. PICK n, h : n = Head(commands).arg /\ h = Head(commands)
    OBVIOUS
  <1>2. /\ commands # <<>> /\ h.name = "initiateBoundaryEvent" /\ h.for = a /\ h.arg = n
        /\ h \in Queued /\ CommandOK(h) /\ CommandBound(h)
        /\ \A d \in Rest : d \in Queued /\ InOrder(h, d) /\ CommandBound(d) /\ Ahead(h, d)
        /\ \A d \in Queued : d = h \/ d \in Rest
    <2>1. commands # <<>> /\ h.name = "initiateBoundaryEvent" /\ h.for = a /\ h.arg = n
      BY <1>1 DEF HeadIs
    <2> QED
      BY <1>1, <2>1, HeadFits, RestQueued DEF BoundariesOK, IInv, Typed
  <1>3. a \in Live /\ n \in Nodes \ model.interrupting /\ model.kind[n] \in Boundaries
    BY <1>2 DEF CommandOK, ArgumentFits
  <1>4. State(a) = "BUSY" \/ \E d \in Rest : d.name = "advanceFromCompleted" /\ d.for = a
    <2>1. State(a) = "BUSY" \/ \E d \in Queued : d.name = "advanceFromCompleted" /\ d.for = a
      BY <1>1, <1>2 DEF RearmedInTime
    <2> QED
      BY <1>2, <2>1
  <1>5. /\ Kind(a) \in ActivityKinds /\ n \in Range(BoundaryEvents(Node(a)))
        /\ \A b \in Attached(a) : Node(b) # n
    <2>1. ~GoneBeyond(h)
      BY <1>2, <1>4 DEF GoneBeyond, Main, Moving
    <2> QED
      BY <1>2, <2>1 DEF CommandBound, InitiationBound
  <1>6. State(a) \in Inhabited
    BY <1>2, <1>4 DEF CommandBound, MoveBound, Inhabited
  <1>7. ASSUME NEW c \in Rest, c.for = a PROVE c.name \notin Leaving
    <2>1. CASE State(a) = "BUSY"
      BY <1>2, <1>5, <1>7, <2>1 DEF CommandBound, MoveBound
    <2>2. CASE \E d \in Rest : d.name = "advanceFromCompleted" /\ d.for = a
      <3>1. PICK d \in Rest : d.name = "advanceFromCompleted" /\ d.for = a
        BY <2>2
      <3>2. ASSUME c.name \in Leaving PROVE FALSE
        <4>1. c # d
          BY <3>1, <3>2 DEF Leaving
        <4>2. Ahead(c, d) \/ Ahead(d, c)
          BY <1>2, <4>1 DEF IInv, Ahead, Before, Queued, Range
        <4>3. ~InOrder(c, d) /\ ~InOrder(d, c)
          BY <1>7, <3>1, <3>2 DEF InOrder, Main, Moving, Leaving
        <4> QED
          BY <1>2, <4>2, <4>3 DEF IInv, OrderOK
      <3> QED
        BY <3>2
    <2> QED
      BY <1>4, <2>1, <2>2
  <1>8. ASSUME NEW c \in Rest, c.for = a PROVE ~(c.name = "initiateBoundaryEvent" /\ c.arg = n)
    BY <1>2, <1>8 DEF BoundariesOK, OrderBound
  <1>9. PICK x : x = created + 1
    OBVIOUS
  <1>10. PICK new, q, node : /\ new = <<Token(n, "ENTERED", tokens[a].owner, a)>>
                             /\ q = <<Command("advanceToBusy", x)>> /\ node = <<n>>
    OBVIOUS
  <1>11. /\ tokens' = Added(tokens, new) /\ created' = created + 1 /\ created + 1 <= MaxTokens
         /\ Enqueue(q) /\ UNCHANGED <<environment, registers, aborted>>
    BY <1>1, <1>9, <1>10 DEF InitiateBoundaryEvent, NewId
  <1>12. PICK k \in Nat : k = 1
    OBVIOUS
  <1>13. /\ Len(new) = k /\ DOMAIN q = 1..k /\ q = [i \in 1..k |-> q[i]]
         /\ \A i \in 1..k : i = 1
         /\ new[1] = Token(n, "ENTERED", tokens[a].owner, a) /\ node[1] = n
         /\ q[1] = Command("advanceToBusy", created + 1) /\ 1 \in 1..k
    BY <1>9, <1>10, <1>12
  <1>14. n \in Nodes /\ model.kind[n] # "errorBoundary"
    BY <1>3, ModelFits DEF BoundariesFit, Nodes
  <1>15. \A i \in 1..k : /\ node[i] \in Nodes /\ model.kind[node[i]] \in Boundaries
                         /\ new[i] = Token(node[i], "ENTERED", tokens[a].owner, a)
                         /\ model.kind[node[i]] # "errorBoundary"
                         /\ q[i] = Command("advanceToBusy", created + i)
    BY <1>3, <1>13, <1>14
  <1>16. Initiates(a, k, node, new, q)
    BY <1>11, <1>12, <1>13, <1>15 DEF Initiates
  <1>17. PICK name : name = "initiateBoundaryEvent"
    OBVIOUS
  <1>18. \A i \in 1..k :
           /\ node[i] \in Range(BoundaryEvents(Node(a)))
           /\ \A j \in 1..k : node[i] = node[j] => i = j
           /\ \A b \in Attached(a) : Node(b) # node[i]
           /\ \A c \in Rest : c.for = a =>
                c.name \notin Leaving /\ ~(c.name = "initiateBoundaryEvent" /\ c.arg = node[i])
    BY <1>5, <1>7, <1>8, <1>13
  <1>19. State(a) = "BUSY" \/ \E d \in Rest : d.for = a /\ d.name \in Onward
    BY <1>4 DEF Onward, Moving
  <1>20. \E i \in 1..k : node[i] = Head(commands).arg
    BY <1>1, <1>13
  <1> QED
    BY <1>5, <1>6, <1>16, <1>17, <1>18, <1>19, <1>20, InitiatedBound

\* The tokens awaiting a signal are completed.
LEMMA BroadcastBound ==
  ASSUME IInv, BoundariesOK, ~aborted, commands # <<>>,
         Head(commands).name = "broadcastSignal", BroadcastSignal
  PROVE  BoundariesOK'
  <1>1. PICK none, q :
          /\ none = {}
          /\ q = [i \in DOMAIN listening |-> Command("advanceToCompleted", listening[i])]
    OBVIOUS
  <1>2. PICK k \in Nat : DOMAIN listening = 1..k
    BY DEF IInv, Typed, IsQueue
  <1>3. DOMAIN q = 1..k /\ q = [i \in 1..k |-> q[i]]
    BY <1>1, <1>2
  <1>4. IsQueue(q) /\ \A c \in Range(q) : \E i \in 1..k : c = q[i]
    BY <1>3, FunctionQueued
  <1>5. \A i \in 1..k : q[i].name = "advanceToCompleted" /\ q[i].for = listening[i]
    BY <1>1, <1>2 DEF Command
  <1>6. Enqueue(q) /\ UNCHANGED <<model, created, tokens, aborted>> /\ listening' = <<>>
    BY <1>1 DEF BroadcastSignal, environment
  <1>7. QueueStep({}, none, q)
    <2>1. QueueStep({}, {}, q)
      BY <1>4, <1>6, CommandsEnqueued DEF Enqueue, IInv, Typed
    <2> QED
      BY <1>1, <2>1
  <1>8. Range(listening') \subseteq Range(listening)
    BY <1>6 DEF Range
  <1>9. NewBound(None, {}, none, q)
    <2>1. ASSUME NEW c \in Range(q) PROVE CommandBound(c)' /\ Plain(c) /\ c.for \in Range(listening)
      <3>1. PICK i \in 1..k : c = q[i]
        BY <1>4
      <3>2. c.name = "advanceToCompleted" /\ c.for \in Range(listening)
        BY <1>2, <1>5, <3>1 DEF Range
      <3>3. CommandBound(c)' /\ Plain(c)
        BY <3>2, Unbound DEF Leaving
      <3> QED
        BY <3>2, <3>3
    <2> QED
      BY <2>1, PlainNew
  <1>10. HeadTurns({})
    BY NothingRests DEF Onward, Moving
  <1> QED
    BY <1>1, <1>6, <1>7, <1>8, <1>9, <1>10, NothingBound

-----------------------------------------------------------------------------
\* An event is taken, or gateways are activated, once the commands have settled.
LEMMA BegunBound ==
  ASSUME IInv, BoundariesOK, ~aborted, commands = <<>>, NEW t, InPlace(t),
         NEW q, IsQueue(q), commands' = q, \A c \in Range(q) : CommandBound(c)' /\ Plain(c),
         \A none : TokenTurns(t, {}, none, q)
  PROVE  BoundariesOK'
  <1>1. PICK none : none = {}
    OBVIOUS
  <1>2. QueueStep({}, none, q) /\ Left({}, none) = {}
    BY <1>1, CommandsBegin DEF Left
  <1>3. NewBound(t, {}, none, q)
    <2>1. \A c, d : Before(q, c, d) => d \in Range(q)
      BY DEF Before, Range
    <2>2. \A c, d : Before(q, c, d) => OrderBound(c, d)
      BY <2>1 DEF Plain, OrderBound
    <2> QED
      BY <1>2, <2>2 DEF NewBound
  <1>4. HeadTurns({})
    BY DEF HeadTurns
  <1> QED
    BY <1>1, <1>2, <1>3, <1>4, InPlaceBound

LEMMA ChosenBound ==
  ASSUME IInv, IInv', BoundariesOK, ~aborted, commands = <<>>,
         UNCHANGED <<model, created, tokens, aborted>>, listening' = listening,
         NEW q, commands' = q, \A c \in Range(q) : CommandBound(c)' /\ Plain(c)
  PROVE  BoundariesOK'
  <1>1. IsQueue(q)
    BY DEF IInv, Typed
  <1>2. None \notin Live /\ Live' = Live
    BY NoneChanged DEF Live
  <1>3. InPlace(None) /\ \A none : TokenTurns(None, {}, none, q)
    BY <1>2 DEF InPlace, TokenTurns
  <1> QED
    BY <1>1, <1>3, BegunBound

LEMMA ReadyEventBound ==
  ASSUME IInv, BoundariesOK, ~aborted, NEW t \in Live, ReadyEvent(t)
  PROVE  BoundariesOK'
  <1>1. /\ commands = <<>> /\ UNCHANGED <<model, created, aborted>> /\ listening' = listening
        /\ Kind(t) \in ActivityKinds /\ State(t) = "ARRIVED"
        /\ tokens' = [tokens EXCEPT ![t].owned = (Kind(t) = "subprocess")]
    BY DEF ReadyEvent, Settled, environment, registers
  <1>2. tokens[t] \in Records
    BY TokenFacts
  <1>3. PICK r : r = [tokens[t] EXCEPT !.owned = (Kind(t) = "subprocess")]
    OBVIOUS
  <1>4. /\ tokens'[t] = r /\ Live' = Live
        /\ \A u \in Live : u # t => tokens'[u] = tokens[u]
    BY <1>1, <1>3 DEF Live
  <1>5. /\ tokens'[t].node = tokens[t].node /\ tokens'[t].owner = tokens[t].owner
        /\ tokens'[t].link = tokens[t].link /\ tokens'[t].state = tokens[t].state
    BY <1>2, <1>3, <1>4 DEF Records
  <1>6. Node(t)' = Node(t) /\ Kind(t)' = Kind(t) /\ State(t)' = "ARRIVED"
    BY <1>1, <1>5 DEF Node, Kind, State
  <1>7. InPlace(t)
    BY <1>1, <1>4, <1>5, <1>6 DEF InPlace
  <1>8. Attached(t) = {} /\ Attached(t)' = {}
    <2>1. Attached(t) = {}
      BY <1>1 DEF BoundariesOK, ActivityBound, Inhabited
    <2> QED
      BY <1>7, <2>1, AttachedInPlace
  <1>9. PICK c : c = Command("advanceToReady", t)
    OBVIOUS
  <1>10. commands' = <<c>> /\ c.name = "advanceToReady"
    BY <1>9 DEF ReadyEvent, Command
  <1>11. IsQueue(<<c>>) /\ Range(<<c>>) = {c}
    BY OneQueued
  <1>12. CommandBound(c)' /\ Plain(c)
    BY <1>10, Unbound DEF Leaving
  <1>13. ASSUME NEW none PROVE TokenTurns(t, {}, none, <<c>>)
    <2>1. Left({}, none) = {}
      BY <1>1 DEF Left, Rest, Range
    <2>2. Kind(t)' \notin Boundaries /\ ~Held(t) /\ ~Held(t)'
      BY <1>1, <1>6 DEF Held, ActivityKinds, Boundaries
    <2> QED
      BY <1>6, <1>8, <2>1, <2>2 DEF TokenTurns, LeftBound
  <1> QED
    BY <1>1, <1>7, <1>10, <1>11, <1>12, <1>13, BegunBound

LEMMA EventBound ==
  ASSUME IInv, IInv', BoundariesOK, ~aborted,
         Activate \/ Decision \/ (\E t \in Live : ErrorEvent(t))
           \/ SignalBroadcastEvent \/ ClockTickEvent
  PROVE  BoundariesOK'
  <1>1. PICK q : q = commands'
    OBVIOUS
  <1>2. ASSUME NEW S, q \in Orderings(S),
               \A c \in S : c.name \in {"createMergedToken", "advanceToCompleted"},
               commands = <<>>, UNCHANGED <<model, created, tokens, aborted>>, listening' = listening
        PROVE  BoundariesOK'
    <2>1. Range(q) \subseteq S
      BY <1>2 DEF Orderings, Range
    <2>2. ASSUME NEW c \in Range(q) PROVE CommandBound(c)' /\ Plain(c)
      <3>1. c.name \in {"createMergedToken", "advanceToCompleted"}
        BY <1>2, <2>1
      <3> QED
        BY <3>1, Unbound DEF Leaving
    <2> QED
      BY <1>1, <1>2, <2>2, ChosenBound
  <1>3. CASE Activate
    <2>1. /\ commands = <<>> /\ UNCHANGED <<model, created, tokens, aborted>>
          /\ listening' = listening /\ q \in Orderings(Activations)
      BY <1>1, <1>3 DEF Activate, environment, registers
    <2>2. \A c \in Activations : c.name = "createMergedToken"
      BY DEF Activations, With
    <2> QED
      BY <1>2, <2>1, <2>2
  <1>4. CASE ClockTickEvent
    <2>1. PICK S, due : /\ S = {Command("advanceToCompleted", t) : t \in due}
                        /\ due = {t \in Live : /\ Kind(t) \in Timers /\ State(t) = "BUSY"
                                               /\ trigger[Node(t)] <= now + 1}
      OBVIOUS
    <2>2. /\ commands = <<>> /\ UNCHANGED <<model, created, tokens, aborted>>
          /\ listening' = listening /\ q \in Orderings(S)
      BY <1>1, <1>4, <2>1 DEF ClockTickEvent, Settled, registers
    <2>3. \A c \in S : c.name = "advanceToCompleted"
      BY <2>1 DEF Command
    <2> QED
      BY <1>2, <2>2, <2>3
  <1>5. ASSUME NEW c, commands' = <<c>>, CommandBound(c)', Plain(c), commands = <<>>,
               UNCHANGED <<model, created, tokens, aborted>>, listening' = listening
        PROVE  BoundariesOK'
    <2>1. Range(<<c>>) = {c}
      BY OneQueued
    <2>2. PICK one : one = <<c>>
      OBVIOUS
    <2> QED
      BY <1>5, <2>1, <2>2, ChosenBound
  <1>6. CASE SignalBroadcastEvent
    <2>1. PICK c : c = Broadcast
      OBVIOUS
    <2>2. /\ commands = <<>> /\ UNCHANGED <<model, created, tokens, aborted>>
          /\ listening' = listening /\ commands' = <<c>>
      BY <1>6, <2>1 DEF SignalBroadcastEvent, Settled, registers
    <2>3. c.name = "broadcastSignal"
      BY <2>1 DEF Broadcast, Command
    <2>4. CommandBound(c)' /\ Plain(c)
      BY <2>3, Unbound DEF Leaving
    <2> QED
      BY <1>5, <2>2, <2>4
  <1>7. ASSUME NEW t \in Live, EntryEvent(t) PROVE BoundariesOK'
    <2>1. PICK c : c = Command("advanceToEntered", t)
      OBVIOUS
    <2>2. /\ commands = <<>> /\ UNCHANGED <<model, created, tokens, aborted>>
          /\ listening' = listening /\ commands' = <<c>> /\ State(t) = "READY"
      BY <1>7, <2>1 DEF EntryEvent, Settled, environment, registers
    <2>3. c.name = "advanceToEntered" /\ c.for = t /\ State(t)' = "READY"
      BY <2>1, <2>2 DEF Command, State
    <2>4. CommandBound(c)' /\ Plain(c)
      BY <2>3 DEF CommandBound, MoveBound, FailureBound, InitiationBound, RemovalBound, Plain,
         Leaving
    <2> QED
      BY <1>5, <2>2, <2>4
  <1>8. ASSUME NEW t \in Live, CompletionEvent(t) PROVE BoundariesOK'
    <2>1. PICK c : c = Command("advanceToCompleted", t)
      OBVIOUS
    <2>2. /\ commands = <<>> /\ UNCHANGED <<model, created, tokens, aborted>>
          /\ listening' = listening /\ commands' = <<c>>
      BY <1>8, <2>1 DEF CompletionEvent, Settled, environment, registers
    <2>3. c.name = "advanceToCompleted"
      BY <2>1 DEF Command
    <2>4. CommandBound(c)' /\ Plain(c)
      BY <2>3, Unbound DEF Leaving
    <2> QED
      BY <1>5, <2>2, <2>4
  <1>9. ASSUME NEW t \in Live, ErrorEvent(t) PROVE BoundariesOK'
    <2>1. PICK c : c = Command("advanceToFailed", t)
      OBVIOUS
    <2>2. /\ commands = <<>> /\ UNCHANGED <<model, created, tokens, aborted>>
          /\ listening' = listening /\ commands' = <<c>> /\ Kind(t) = "task"
      BY <1>9, <2>1 DEF ErrorEvent, Settled, environment, registers, Fails
    <2>3. c.name = "advanceToFailed" /\ c.for = t
      BY <2>1 DEF Command
    <2>4. Unmoved(t)'
      <3>1. Queued' = {c}
        BY <2>2, OneQueued DEF Queued
      <3> QED
        BY <2>3, <3>1 DEF Unmoved, Main, Moving
    <2>5. t \notin Range(listening')
      BY <2>2 DEF IInv, ListeningOK, Signals
    <2>6. CommandBound(c)' /\ Plain(c)
      BY <2>3, <2>4, <2>5 DEF CommandBound, MoveBound, FailureBound, InitiationBound,
         RemovalBound, Plain, Leaving
    <2> QED
      BY <1>5, <2>2, <2>6
  <1> QED
    BY <1>3, <1>4, <1>6, <1>7, <1>8, <1>9, ReadyEventBound DEF Decision

\* The token at an event-based gateway departs.
LEMMA DepartingBound ==
  ASSUME IInv, BoundariesOK, ~aborted, NEW t, HeadIs("advanceToDeparting", t),
         AdvanceToDeparting(t)
  PROVE  BoundariesOK'
  <1>1. /\ t \in Live /\ TokenFits("advanceToDeparting", t) /\ commands # <<>>
        /\ Head(commands).for = t /\ Head(commands).name = "advanceToDeparting"
    BY HeadMoves DEF Main, Moving, HeadIs
  <1>2. Kind(t) = "eventBased" /\ Members(t) = {} /\ ~Held(t)
    BY <1>1 DEF TokenFits, Moving, Held, Boundaries
  <1>3. /\ UNCHANGED <<model, created, tokens, aborted>> /\ listening' = listening
        /\ \E q \in {<<>>} \union Departure(t) : Enqueue(q)
    BY DEF AdvanceToDeparting, environment, registers
  <1>4. PICK none : none = {}
    OBVIOUS
  <1>5. Kind(t)' = Kind(t)
    BY <1>3 DEF Kind, Node
  <1>6. /\ InPlace(t) /\ Node(t)' = Node(t) /\ ~Held(t)' /\ Attached(t) = {}
        /\ Kind(t)' \notin Boundaries /\ Kind(t)' \notin ActivityKinds
    <2>1. InPlace(t) /\ Node(t)' = Node(t)
      BY <1>3 DEF InPlace, Live, Node
    <2>2. Attached(t) = {}
      BY <1>1, <1>2, OnlyActivities DEF ActivityKinds
    <2> QED
      BY <1>2, <1>5, <2>1, <2>2 DEF Held, Boundaries, ActivityKinds
  <1>9. LeftBound(t, {}, none)
    BY <1>1, <1>2, <1>6, LeftBehindMove DEF ActivityKinds, Scopes, Moving
  <1>10. ASSUME NEW new, QueueStep({}, none, new), NewBound(t, {}, none, new) PROVE BoundariesOK'
    <2>1. Advances(t, new)
      BY <1>2, <1>6 DEF Advances
    <2> QED
      BY <1>1, <1>4, <1>6, <1>9, <1>10, <2>1, MovesBound DEF Moving
  <1>7. CASE Enqueue(<<>>)
    <2>1. QueueStep({}, none, <<>>) /\ NewBound(t, {}, none, <<>>)
      BY <1>1, <1>4, <1>7, EnqueueNone, NoneQueued, PlainNew
    <2> QED
      BY <1>10, <2>1
  <1>8. ASSUME NEW q \in Departure(t), Enqueue(q) PROVE BoundariesOK'
    <2>1. PICK c : /\ q = <<c>> /\ c.for = t
                   /\ c.name \in {"advanceToDone", "advanceToDeparted", "handleDivergingGateway"}
      BY <1>1, <1>8, Departs
    <2>2. QueueStep({}, none, <<c>>) /\ Range(<<c>>) = {c}
      BY <1>1, <1>4, <1>8, <2>1, EnqueueOne
    <2>3. CommandBound(c)' /\ Plain(c)
      BY <1>2, <1>5, <2>1 DEF CommandBound, MoveBound, FailureBound, InitiationBound, RemovalBound,
         Plain, ActivityKinds
    <2>4. NewBound(t, {}, none, <<c>>)
      BY <2>1, <2>2, <2>3, PlainNew
    <2> QED
      BY <1>10, <2>2, <2>4
  <1> QED
    BY <1>3, <1>7, <1>8

\* The command at the head of the queue is executed.
LEMMA ExecuteBound ==
  ASSUME IInv, BoundariesOK, ~aborted, RearmedInTime, Execute
  PROVE  BoundariesOK'
  <1>1. PICK t, name, arg : t = Head(commands).for /\ name = Head(commands).name /\ arg = Head(commands).arg
    OBVIOUS
  <1>2. commands # <<>> /\ HeadIs(name, t)
    BY <1>1 DEF Execute, HeadIs
  <1>3. CASE name = "advanceToReady" /\ AdvanceToReady(t)
    BY <1>2, <1>3, ReadyBound
  <1>4. CASE name = "advanceToEntered" /\ AdvanceToEntered(t)
    BY <1>2, <1>4, EnteredBound
  <1>5. CASE name = "advanceToBusy" /\ AdvanceToBusy(t)
    BY <1>2, <1>5, BusyBound
  <1>6. CASE name = "run" /\ Run(t)
    BY <1>2, <1>6, RunBound
  <1>7. CASE name = "advanceToCompleted" /\ AdvanceToCompleted(t, Tail(commands))
    BY <1>2, <1>7, CompletedBound
  <1>8. CASE name = "advanceFromCompleted" /\ AdvanceFromCompleted(t)
    BY <1>2, <1>8, FromCompletedBound
  <1>9. CASE name = "advanceToDone" /\ AdvanceToDone(t)
    BY <1>2, <1>9, DoneBound
  <1>10. CASE name = "advanceToDeparted" /\ AdvanceToDeparted(t, arg)
    BY <1>2, <1>10, DepartedBound
  <1>11. CASE name = "advanceToArrived" /\ AdvanceToArrived(t)
    BY <1>2, <1>11, ArrivedBound
  <1>12. CASE name = "advanceToFailed" /\ AdvanceToFailed(t)
    BY <1>2, <1>12, FailedBound
  <1>13. CASE name = "terminate" /\ Terminate(t)
    BY <1>2, <1>13, TerminatedBound
  <1>14. CASE name = "updateFailed" /\ UpdateFailed(t)
    BY <1>2, <1>14, UpdateFailedBound
  <1>15. CASE name = "handleFailure" /\ HandleFailure(t)
    BY <1>2, <1>15, HandleFailureBound
  <1>16. CASE name = "deleteInstance" /\ DeleteInstance(t)
    BY <1>2, <1>16, InstanceDeletedBound
  <1>17. CASE name = "shutdown" /\ Shutdown(t)
    BY <1>2, <1>17, ShutdownBound
  <1>18. CASE name = "initiateBoundaryEvents" /\ InitiateBoundaryEvents(t)
    BY <1>2, <1>18, InitiateBoundaryEventsBound
  <1>19. CASE name = "initiateBoundaryEvent" /\ InitiateBoundaryEvent(t, Head(commands).arg)
    BY <1>2, <1>19, InitiateBoundaryEventBound
  <1>20. CASE name = "deleteBoundary" /\ DeleteBoundary(t, arg)
    BY <1>1, <1>2, <1>20, BoundaryDeletedBound
  <1>21. CASE name = "interruptActivity" /\ InterruptActivity(t)
    BY <1>2, <1>21, InterruptedBound
  <1>22. CASE name = "handleDivergingGateway" /\ HandleDivergingGateway(t)
    BY <1>2, <1>22, DivergedBound
  <1>23. CASE name = "handleEventBasedGatewayActivation" /\ HandleEventBasedGatewayActivation(t)
    BY <1>2, <1>23, GatewayActivatedBound
  <1>24. CASE name = "createMergedToken" /\ CreateMergedToken(t, Head(commands).arg)
    BY <1>2, <1>24, CreateMergedBound
  <1>25. CASE name = "broadcastSignal" /\ BroadcastSignal
    BY <1>1, <1>2, <1>25, BroadcastBound
  <1>26. CASE name = "advanceToDeparting" /\ AdvanceToDeparting(t)
    BY <1>2, <1>26, DepartingBound
  <1> QED
    BY <1>1, <1>3, <1>4, <1>5, <1>6, <1>7, <1>8, <1>9, <1>10, <1>11, <1>12, <1>13, <1>14, <1>15,
       <1>16, <1>17, <1>18, <1>19, <1>20, <1>21, <1>22, <1>23, <1>24, <1>25, <1>26 DEF Execute

LEMMA StutterBound ==
  ASSUME BoundariesOK, UNCHANGED vars
  PROVE  BoundariesOK'
  <1>1. /\ commands' = commands /\ model' = model /\ tokens' = tokens /\ listening' = listening
        /\ created' = created /\ aborted' = aborted
    BY DEF vars
  <1>2. /\ Queued' = Queued /\ Live' = Live /\ \A c, d : Ahead(c, d)' <=> Ahead(c, d)
        /\ \A t : /\ Node(t)' = Node(t) /\ Kind(t)' = Kind(t) /\ State(t)' = State(t)
                  /\ BoundaryEvents(Node(t))' = BoundaryEvents(Node(t))
    BY <1>1 DEF Queued, Live, Ahead, Node, Kind, State, BoundaryEvents
  <1>3. \A t : /\ Attached(t)' = Attached(t) /\ (Held(t)' <=> Held(t)) /\ (Unmoved(t)' <=> Unmoved(t))
               /\ \A names : Pending(names, t)' <=> Pending(names, t)
    BY <1>1, <1>2 DEF Attached, Held, Unmoved, Pending
  <1>4. \A t : (Doomed(t)' <=> Doomed(t)) /\ (Upset(t)' <=> Upset(t))
    BY <1>3 DEF Doomed, Upset
  <1>5. \A t : BoundaryBound(t) => BoundaryBound(t)'
    BY <1>1, <1>2, <1>3, <1>4 DEF BoundaryBound, BoundTo, Awaits
  <1>6. \A t : ActivityBound(t) => ActivityBound(t)'
    BY <1>1, <1>2, <1>3, <1>4 DEF ActivityBound, GoesAhead, Armed, ArmedAt
  <1>7. \A c : CommandBound(c) => CommandBound(c)'
    <2>1. \A c : MoveBound(c) => MoveBound(c)'
      BY <1>1, <1>2, <1>3 DEF MoveBound
    <2>2. \A c : FailureBound(c) => FailureBound(c)'
      BY <1>1, <1>2, <1>3 DEF FailureBound
    <2>3. \A c : InitiationBound(c) => InitiationBound(c)'
      BY <1>1, <1>2, <1>3 DEF InitiationBound, GoneBeyond
    <2>4. \A c : RemovalBound(c) => RemovalBound(c)'
      BY <1>1, <1>2 DEF RemovalBound
    <2> QED
      BY <2>1, <2>2, <2>3, <2>4 DEF CommandBound
  <1>8. \A c, d : OrderBound(c, d) => OrderBound(c, d)'
    BY DEF OrderBound
  <1> QED
    BY <1>1, <1>2, <1>5, <1>6, <1>7, <1>8 DEF BoundariesOK

\* The token at the process is there first.
LEMMA InitiallyBound ==
  ASSUME Init, IInv
  PROVE  BoundariesOK
  <1>1. PICK c : c = Command("advanceToEntered", 1)
    OBVIOUS
  <1>2. /\ commands = <<c>> /\ Queued = {c} /\ c.name = "advanceToEntered" /\ c.for = 1
        /\ Live = {1} /\ ~aborted /\ State(1) = "READY" /\ tokens[1].link = None
    BY <1>1, OneQueued DEF Init, Queued, Command, Live, State, Token
  <1>3. \A t \in Live : Attached(t) = {}
    BY <1>2 DEF Attached, None
  <1>4. \A t \in Live : BoundaryBound(t) /\ ActivityBound(t)
    BY <1>2, <1>3 DEF BoundaryBound, ActivityBound, Held
  <1>5. CommandBound(c)
    BY <1>2 DEF CommandBound, MoveBound, FailureBound, InitiationBound, RemovalBound, Leaving
  <1>6. \A e, d \in Queued : ~Ahead(e, d)
    BY <1>2, OneQueued DEF Ahead
  <1> QED
    BY <1>2, <1>4, <1>5, <1>6 DEF BoundariesOK

\* Between two events every busy activity has one token awaiting each of its
\* boundary events, and none awaits an event of an activity that has been left
\* (tokensAwaitingBoundaryEvent), however activities were interrupted, failed or
\* completed and however deep in subprocesses, as long as no boundary event is
\* armed again for an activity that has been left: that initiateBoundaryEvent
\* asks nothing of the state of the token goes wrong in this case only.
THEOREM BoundaryTokensAreExact == Spec /\ []RearmedInTime => []BoundaryExact
  <1>1. Init /\ IInv => BoundariesOK
    BY InitiallyBound
  <1>2. IInv /\ IInv' /\ BoundariesOK /\ RearmedInTime /\ [Next]_vars => BoundariesOK'
    <2> SUFFICES ASSUME IInv, IInv', BoundariesOK, RearmedInTime, Next PROVE BoundariesOK'
      BY StutterBound
    <2>1. ~aborted
      BY DEF Next, Execute, Activate, Decision, ReadyEvent, EntryEvent, CompletionEvent,
         ErrorEvent, SignalBroadcastEvent, ClockTickEvent, Settled, BoundariesOK
    <2> QED
      BY <2>1, ExecuteBound, EventBound DEF Next
  <1>3. IInv /\ BoundariesOK => BoundaryExact
    <2> SUFFICES ASSUME IInv, BoundariesOK, Settled PROVE BoundaryExact
      BY DEF BoundaryExact, BoundaryArmed, BoundaryWithdrawn
    <2>1. /\ Queued = {} /\ \A t \in Live : BoundaryBound(t) /\ ActivityBound(t)
      BY NoneQueued DEF Settled, BoundariesOK, Queued
    <2>2. \A t : ~Doomed(t) /\ ~Upset(t) /\ \A names : ~Pending(names, t)
      BY <2>1 DEF Doomed, Upset, Pending
    <2>3. ASSUME NEW b \in Live, Held(b) PROVE State(b) = "BUSY" /\ BoundTo(b, tokens[b].link)
      BY <2>1, <2>2, <2>3 DEF BoundaryBound, Awaits
    <2>4. ASSUME NEW a \in Live, NEW b \in Attached(a)
          PROVE  b \in Live /\ Held(b) /\ State(b) = "BUSY" /\ State(a) = "BUSY"
      <3>1. b \in Live /\ Held(b)
        BY TokenFacts DEF Attached, Held
      <3>2. State(a) = "BUSY"
        BY <2>1, <2>2 DEF ActivityBound, GoesAhead
      <3> QED
        BY <2>3, <3>1, <3>2
    <2>5. BoundaryArmed
      <3> SUFFICES ASSUME NEW a \in Live, Kind(a) \in ActivityKinds, State(a) = "BUSY",
                          NEW n \in Range(BoundaryEvents(Node(a)))
                   PROVE  Cardinality({b \in Attached(a) : Node(b) = n /\ State(b) = "BUSY"}) = 1
        BY DEF BoundaryArmed
      <3>1. ArmedAt(a, n)
        BY <2>1, <2>2 DEF ActivityBound, Armed
      <3>2. PICK b \in Attached(a) : Node(b) = n
        BY <2>1, <3>1 DEF ArmedAt
      <3>3. \A c \in Attached(a) : Node(c) = n => c = b
        BY <2>1, <3>2 DEF ActivityBound
      <3>4. {c \in Attached(a) : Node(c) = n /\ State(c) = "BUSY"} = {b}
        BY <2>4, <3>2, <3>3
      <3> QED
        BY <3>4, FS_Singleton
    <2>6. BoundaryWithdrawn
      <3> SUFFICES ASSUME NEW b \in Live, Kind(b) \in Boundaries, State(b) = "BUSY"
                   PROVE  /\ tokens[b].link \in Live /\ State(tokens[b].link) = "BUSY"
                          /\ Node(b) \in Range(BoundaryEvents(Node(tokens[b].link)))
        BY DEF BoundaryWithdrawn
      <3>1. Held(b)
        BY <2>1 DEF BoundaryBound, Held
      <3>2. PICK a : a = tokens[b].link
        OBVIOUS
      <3>3. a \in Live /\ Node(b) \in Range(BoundaryEvents(Node(a)))
        BY <2>3, <3>1, <3>2 DEF BoundTo
      <3>4. b \in Attached(a)
        BY <3>2 DEF Attached
      <3> QED
        BY <2>4, <3>2, <3>3, <3>4
    <2> QED
      BY <2>5, <2>6 DEF BoundaryExact
  <1> QED
    BY <1>1, <1>2, <1>3, InvariantHolds, PTL DEF Spec

\* No boundary event is armed again where all of them are interrupting: there,
\* the tokens at boundary events are exact without any condition.
THEOREM InterruptingBoundariesAreExact ==
  ASSUME \A m \in Models : \A n \in DOMAIN m.kind : m.kind[n] \in Boundaries => n \in m.interrupting
  PROVE  Spec => []BoundaryExact
  <1>1. IInv => RearmedInTime
    <2> SUFFICES ASSUME IInv, commands # <<>>, Head(commands).name = "initiateBoundaryEvent"
                 PROVE  FALSE
      BY DEF RearmedInTime
    <2>1. PICK n : n = Head(commands).arg
      OBVIOUS
    <2>2. n \in Nodes \ model.interrupting /\ model.kind[n] \in Boundaries
      BY <2>1, HeadFits DEF CommandOK, ArgumentFits
    <2>3. model \in Models
      BY DEF IInv, Typed
    <2> QED
      BY <2>2, <2>3 DEF Nodes
  <1> QED
    BY <1>1, InvariantHolds, BoundaryTokensAreExact, PTL
=============================================================================
