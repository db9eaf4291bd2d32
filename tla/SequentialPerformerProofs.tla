---------------------- MODULE SequentialPerformerProofs ----------------------
(***************************************************************************)
(* Mutual exclusion of the child activities sharing a performer, for every *)
(* set of tokens and of ad-hoc subprocesses.                               *)
(*                                                                         *)
(* MutualExclusion is not inductive: that the token entered finds the      *)
(* performer idle rests on there being no request while it is busy, and    *)
(* that a command finds its token in the state it was enqueued for rests   *)
(* on there being at most one command that moves a token.                  *)
(*                                                                         *)
(* That the performer is held by a busy activity once an event is          *)
(* processed rests on what is true in between: as long as the activity     *)
(* holding it is not busy, a command that moves the activity is enqueued.  *)
(* That a child awaiting entry is listed once rests on the list never      *)
(* naming a child that may be appended: one that arrives or performs.      *)
(***************************************************************************)
EXTENDS SequentialPerformer, SequenceTheorems, FiniteSetTheorems, TLAPS

\* The commands that move a token to its next state.
Moving == {"enter", "complete", "fromCompleted", "fail"}

\* The states in which such a command finds its token, unless it was removed.
Expecting(name) ==
  CASE name = "enter"         -> {"ready"}
    [] name = "complete"      -> {"busy"}
    [] name = "fromCompleted" -> {"completed"}
    [] OTHER                  -> {"entered", "busy", "completed"}

OneMoving ==
  \A j, k \in 1..Len(commands) :
    /\ commands[j].name \in Moving
    /\ commands[k].name \in Moving
    /\ commands[j].token = commands[k].token
    => j = k

MovingExpected ==
  \A k \in 1..Len(commands) :
    commands[k].name \in Moving /\ state[commands[k].token] # "removed" =>
      state[commands[k].token] \in Expecting(commands[k].name)

EnterAlone ==
  \A k \in 1..Len(commands) :
    commands[k].name = "enter" => Len(commands) = 1 /\ performing = commands[k].token

RequestedWhenIdle ==
  /\ request # {} => performing = None
  /\ request \subseteq Waiting

IInv ==
  /\ TypeOK
  /\ MutualExclusion
  /\ OneMoving
  /\ MovingExpected
  /\ EnterAlone
  /\ RequestedWhenIdle

-----------------------------------------------------------------------------
\* What remains of the queue when its front is taken off.
LEMMA QueueRest ==
  ASSUME TypeOK, commands # <<>>
  PROVE  /\ Len(commands) \in Nat \ {0}
         /\ Head(commands) = commands[1]
         /\ Tail(commands) \in Seq(CommandSet)
         /\ Len(Tail(commands)) = Len(commands) - 1
         /\ \A k \in 1..(Len(commands) - 1) : Tail(commands)[k] = commands[k + 1]
  <1>1. commands \in Seq(CommandSet)
    BY DEF TypeOK
  <1>2. Len(commands) \in Nat \ {0}
    BY <1>1, EmptySeq
  <1>3. /\ Tail(commands) \in Seq(CommandSet)
        /\ Len(Tail(commands)) = Len(commands) - 1
        /\ \A k \in 1..Len(Tail(commands)) : Tail(commands)[k] = commands[k + 1]
    BY <1>1, HeadTailProperties
  <1>4. Head(commands) = commands[1]
    BY <1>1, <1>2
  <1> QED
    BY <1>2, <1>3, <1>4

\* The orderings of a set are sequences of its elements, each once.
LEMMA OrderingIsSequence ==
  ASSUME NEW S, Cardinality(S) \in Nat, NEW q \in Orderings(S)
  PROVE  /\ q \in Seq(S)
         /\ Len(q) = Cardinality(S)
         /\ \A e \in S : \E k \in 1..Len(q) : q[k] = e
         /\ \A k \in 1..Len(q) : q[k] \in S
         /\ \A j, k \in 1..Len(q) : q[j] = q[k] => j = k
  BY DEF Orderings

LEMMA WaitingCounted == Cardinality(Waiting) \in Nat
  BY FS_Subset, FS_CardinalityType, PerformerAssumption DEF Waiting

\* The commands stay consistent when the front is executed, if it changes the
\* state of a token only by removing it or by being the command that moves it.
LEMMA TailConsistent ==
  ASSUME IInv, commands # <<>>, commands' = Tail(commands),
         \A u \in Tokens : \/ state'[u] = state[u]
                           \/ state'[u] = "removed"
                           \/ Head(commands).name \in Moving /\ Head(commands).token = u
  PROVE  commands' \in Seq(CommandSet) /\ OneMoving' /\ MovingExpected' /\ EnterAlone'
  <1>1. /\ Len(commands) \in Nat \ {0}
        /\ Head(commands) = commands[1]
        /\ commands' \in Seq(CommandSet)
        /\ Len(commands') = Len(commands) - 1
        /\ \A k \in 1..(Len(commands) - 1) : commands'[k] = commands[k + 1]
    BY QueueRest DEF IInv
  <1>2. OneMoving'
    BY <1>1 DEF IInv, OneMoving
  <1>3. EnterAlone'
    BY <1>1 DEF IInv, EnterAlone
  <1>4. MovingExpected'
    <2> SUFFICES ASSUME NEW k \in 1..Len(commands'),
                        commands'[k].name \in Moving,
                        state'[commands'[k].token] # "removed"
                 PROVE  state'[commands'[k].token] \in Expecting(commands'[k].name)
      BY DEF MovingExpected
    <2>1. commands'[k] = commands[k + 1] /\ k + 1 \in 1..Len(commands) /\ k + 1 # 1
      BY <1>1
    <2>2. commands[k + 1] \in CommandSet
      BY <2>1, ElementOfSeq DEF IInv, TypeOK
    <2>3. commands[k + 1].token \in Tokens
      BY <2>1, <2>2 DEF CommandSet, Moving, TokenCommands
    <2>4. ~(Head(commands).name \in Moving /\ Head(commands).token = commands[k + 1].token)
      BY <1>1, <2>1 DEF IInv, OneMoving
    <2>5. state'[commands[k + 1].token] = state[commands[k + 1].token]
      BY <2>1, <2>3, <2>4
    <2> QED
      BY <2>1, <2>5 DEF IInv, MovingExpected
  <1> QED
    BY <1>1, <1>2, <1>3, <1>4

\* The same when the command executed enqueues another one.
LEMMA AppendConsistent ==
  ASSUME IInv, commands # <<>>,
         NEW cmd \in CommandSet, cmd.name # "enter",
         commands' = Append(Tail(commands), cmd),
         \A u \in Tokens : \/ state'[u] = state[u]
                           \/ Head(commands).name \in Moving /\ Head(commands).token = u,
         cmd.name \in Moving => /\ Head(commands).name \in Moving
                               /\ Head(commands).token = cmd.token
                               /\ state'[cmd.token] \in Expecting(cmd.name)
  PROVE  commands' \in Seq(CommandSet) /\ OneMoving' /\ MovingExpected' /\ EnterAlone'
  <1>1. /\ Len(commands) \in Nat \ {0}
        /\ Head(commands) = commands[1]
        /\ Tail(commands) \in Seq(CommandSet)
        /\ Len(Tail(commands)) = Len(commands) - 1
        /\ \A k \in 1..(Len(commands) - 1) : Tail(commands)[k] = commands[k + 1]
    BY QueueRest DEF IInv
  <1>2. /\ commands' \in Seq(CommandSet)
        /\ Len(commands') = Len(commands)
        /\ \A k \in 1..(Len(commands) - 1) : commands'[k] = commands[k + 1]
        /\ commands'[Len(commands)] = cmd
    BY <1>1, AppendProperties
  <1>3. ASSUME NEW k \in 1..Len(commands')
        PROVE  \/ k = Len(commands) /\ commands'[k] = cmd
               \/ k + 1 \in 2..Len(commands) /\ commands'[k] = commands[k + 1]
    <2>1. k \in 1..Len(commands) /\ Len(commands) \in Nat
      BY <1>1, <1>2
    <2>2. CASE k = Len(commands)
      BY <1>2, <2>2
    <2>3. CASE k # Len(commands)
      <3>1. k \in 1..(Len(commands) - 1) /\ k + 1 \in 2..Len(commands)
        BY <2>1, <2>3
      <3> QED
        BY <1>2, <3>1
    <2> QED
      BY <2>2, <2>3
  <1>4. ASSUME NEW k \in 2..Len(commands), commands[k].name \in Moving,
               Head(commands).name \in Moving
        PROVE  commands[k].token # Head(commands).token
    <2>1. k \in 1..Len(commands) /\ 1 \in 1..Len(commands) /\ k # 1
      BY <1>1
    <2> QED
      BY <1>1, <1>4, <2>1 DEF IInv, OneMoving
  <1>5. OneMoving'
    <2> SUFFICES ASSUME NEW j \in 1..Len(commands'), NEW k \in 1..Len(commands'),
                        commands'[j].name \in Moving, commands'[k].name \in Moving,
                        commands'[j].token = commands'[k].token
                 PROVE  j = k
      BY DEF OneMoving
    <2>1. CASE j + 1 \in 2..Len(commands) /\ k + 1 \in 2..Len(commands)
               /\ commands'[j] = commands[j + 1] /\ commands'[k] = commands[k + 1]
      <3>1. j + 1 \in 1..Len(commands) /\ k + 1 \in 1..Len(commands)
        BY <1>1, <2>1
      <3>2. /\ commands[j + 1].name \in Moving
            /\ commands[k + 1].name \in Moving
            /\ commands[j + 1].token = commands[k + 1].token
        BY <2>1
      <3>3. j + 1 = k + 1
        BY <3>1, <3>2, Zenon DEF IInv, OneMoving
      <3>4. j \in Int /\ k \in Int
        OBVIOUS
      <3> QED
        BY <3>3, <3>4
    <2>2. CASE j + 1 \in 2..Len(commands) /\ commands'[j] = commands[j + 1]
               /\ commands'[k] = cmd
      BY <1>4, <2>2
    <2>3. CASE k + 1 \in 2..Len(commands) /\ commands'[k] = commands[k + 1]
               /\ commands'[j] = cmd
      BY <1>4, <2>3
    <2> QED
      BY <1>3, <2>1, <2>2, <2>3
  <1>6. EnterAlone'
    <2> SUFFICES ASSUME NEW k \in 1..Len(commands'), commands'[k].name = "enter"
                 PROVE  FALSE
      BY DEF EnterAlone
    <2>1. k + 1 \in 2..Len(commands) /\ commands[k + 1].name = "enter"
      BY <1>3
    <2>2. k + 1 \in 1..Len(commands) /\ Len(commands) # 1
      BY <1>1, <2>1
    <2> QED
      BY <2>1, <2>2 DEF IInv, EnterAlone
  <1>7. MovingExpected'
    <2> SUFFICES ASSUME NEW k \in 1..Len(commands'),
                        commands'[k].name \in Moving,
                        state'[commands'[k].token] # "removed"
                 PROVE  state'[commands'[k].token] \in Expecting(commands'[k].name)
      BY DEF MovingExpected
    <2>1. CASE commands'[k] = cmd
      BY <2>1
    <2>2. CASE k + 1 \in 2..Len(commands) /\ commands'[k] = commands[k + 1]
      <3>1. k + 1 \in 1..Len(commands)
        BY <1>1, <2>2
      <3>2. commands[k + 1] \in CommandSet
        BY <3>1, ElementOfSeq DEF IInv, TypeOK
      <3>3. commands[k + 1].token \in Tokens
        BY <2>2, <3>2 DEF CommandSet, Moving, TokenCommands
      <3>4. state'[commands[k + 1].token] = state[commands[k + 1].token]
        BY <1>4, <2>2, <3>3
      <3> QED
        BY <2>2, <3>1, <3>4 DEF IInv, MovingExpected
    <2> QED
      BY <1>3, <2>1, <2>2
  <1> QED
    BY <1>2, <1>5, <1>6, <1>7

\* A token that performs is not waiting for a decision.
LEMMA PerformedNotRequested ==
  ASSUME IInv, NEW t \in Performed
  PROVE  t \notin request
  BY DEF IInv, Performed, RequestedWhenIdle, Waiting

LEMMA InitOK == Init => IInv
  <1> SUFFICES ASSUME Init PROVE IInv
    OBVIOUS
  <1>1. TypeOK
    BY EmptySeq DEF Init, TypeOK, States
  <1>2. Len(commands) = 0
    BY DEF Init
  <1> QED
    BY <1>1, <1>2 DEF Init, IInv, MutualExclusion, Performed, OneMoving, MovingExpected,
       EnterAlone, RequestedWhenIdle, Waiting

\* The part of the invariant about commands holds of an empty queue.
LEMMA NoCommands ==
  ASSUME commands' = <<>>
  PROVE  OneMoving' /\ MovingExpected' /\ EnterAlone'
  <1>1. Len(commands') = 0
    OBVIOUS
  <1> QED
    BY <1>1 DEF OneMoving, MovingExpected, EnterAlone

LEMMA OneCommand ==
  ASSUME NEW t \in Tokens, NEW name \in Moving,
         commands' = <<Command(name, t)>>,
         state'[t] \in Expecting(name),
         name = "enter" => performing' = t
  PROVE  commands' \in Seq(CommandSet) /\ OneMoving' /\ MovingExpected' /\ EnterAlone'
  <1>1. /\ Len(commands') = 1
        /\ commands'[1].name = name
        /\ commands'[1].token = t
        /\ commands' \in Seq(CommandSet)
    BY DEF Command, CommandSet, Moving, TokenCommands
  <1> QED
    BY <1>1 DEF OneMoving, MovingExpected, EnterAlone

-----------------------------------------------------------------------------
LEMMA StartScopeOK ==
  ASSUME IInv, NEW s \in Scopes, StartScope(s)
  PROVE  IInv'
  <1>1. TypeOK'
    BY DEF IInv, TypeOK, StartScope, States
  <1>2. OneMoving' /\ MovingExpected' /\ EnterAlone'
    BY NoCommands DEF StartScope, Settled
  <1>3. MutualExclusion'
    BY DEF IInv, TypeOK, StartScope, MutualExclusion, Performed
  <1>4. RequestedWhenIdle'
    BY DEF IInv, TypeOK, StartScope, RequestedWhenIdle, Waiting
  <1> QED
    BY <1>1, <1>2, <1>3, <1>4 DEF IInv

LEMMA ReadyEventOK ==
  ASSUME IInv, NEW t \in Tokens, ReadyEvent(t)
  PROVE  IInv'
  <1>1. /\ pending' \in Seq(Tokens)
        /\ \A k \in DOMAIN pending : k \in DOMAIN pending' /\ pending'[k] = pending[k]
        /\ \E k \in DOMAIN pending' : pending'[k] = t
    <2>1. pending \in Seq(Tokens) /\ pending' = Append(pending, t)
      BY DEF IInv, TypeOK, ReadyEvent
    <2>2. /\ DOMAIN pending = 1..Len(pending)
          /\ DOMAIN pending' = 1..(Len(pending) + 1)
          /\ Len(pending) \in Nat
      BY <2>1, AppendProperties, LenProperties
    <2> QED
      BY <2>1, <2>2, AppendProperties
  <1>2. TypeOK'
    BY <1>1 DEF IInv, TypeOK, ReadyEvent, States, AwaitEntry
  <1>3. OneMoving' /\ MovingExpected' /\ EnterAlone'
    BY NoCommands DEF ReadyEvent, Settled
  <1>4. MutualExclusion'
    BY DEF IInv, TypeOK, ReadyEvent, MutualExclusion, Performed
  <1>5. RequestedWhenIdle'
    BY <1>1 DEF IInv, TypeOK, ReadyEvent, RequestedWhenIdle, Waiting, AwaitEntry
  <1> QED
    BY <1>2, <1>3, <1>4, <1>5 DEF IInv

LEMMA EntryEventOK ==
  ASSUME IInv, NEW t \in Tokens, NEW basis \in {"current", "former"}, EntryEvent(t, basis)
  PROVE  IInv'
  <1>1. t \in request /\ performing = None
    BY DEF IInv, EntryEvent, Expired, RequestedWhenIdle
  <1>2. Performed = {}
    BY <1>1, PerformerAssumption DEF IInv, MutualExclusion, Performed
  <1>3. pending' \in Seq(Tokens)
    <2> PICK k \in DOMAIN pending : pending' = Without(pending, k)
      BY DEF EntryEvent, Occupy
    <2>1. pending \in Seq(Tokens) /\ Len(pending) \in Nat /\ k \in 1..Len(pending)
      BY LenProperties DEF IInv, TypeOK
    <2>2. \A j \in 1..Len(pending) : pending[j] \in Tokens
      BY <2>1, ElementOfSeq
    <2>3. SubSeq(pending, 1, k - 1) \in Seq(Tokens)
      BY <2>1, <2>2, SubSeqProperties
    <2>4. SubSeq(pending, k + 1, Len(pending)) \in Seq(Tokens)
      BY <2>1, <2>2, SubSeqProperties
    <2> QED
      BY <2>3, <2>4, ConcatProperties DEF Without
  <1>4. request' = {}
    BY DEF IInv, EntryEvent, Occupy, RequestedWhenIdle
  <1>5. commands' \in Seq(CommandSet) /\ OneMoving' /\ MovingExpected' /\ EnterAlone'
    BY OneCommand DEF EntryEvent, Occupy, Moving, Expecting
  <1>6. TypeOK'
    BY <1>3, <1>4, <1>5 DEF IInv, TypeOK, EntryEvent, Occupy
  <1>7. MutualExclusion'
    BY <1>2 DEF EntryEvent, MutualExclusion, Performed
  <1>8. RequestedWhenIdle'
    BY <1>4 DEF RequestedWhenIdle
  <1> QED
    BY <1>5, <1>6, <1>7, <1>8 DEF IInv

LEMMA CompletionEventOK ==
  ASSUME IInv, NEW t \in Tokens, CompletionEvent(t)
  PROVE  IInv'
  <1>1. commands' \in Seq(CommandSet) /\ OneMoving' /\ MovingExpected' /\ EnterAlone'
    BY OneCommand DEF CompletionEvent, Moving, Expecting
  <1>2. TypeOK' /\ MutualExclusion' /\ RequestedWhenIdle'
    BY <1>1 DEF IInv, TypeOK, CompletionEvent, MutualExclusion, Performed,
       RequestedWhenIdle, Waiting
  <1> QED
    BY <1>1, <1>2 DEF IInv

LEMMA TriggerOK ==
  ASSUME IInv, Trigger
  PROVE  IInv'
  <1> PICK hit \in SUBSET armed, left \in SUBSET {s \in Scopes : Present(s) # {}},
           ends \in SUBSET {t \in Tokens : state[t] = "busy"},
           name \in {"complete", "fail"} :
         LET all == {Command("interrupt", t) : t \in hit}
                      \union {Withdrawal(s) : s \in left}
                      \union {Command(name, t) : t \in ends}
         IN Cardinality(all) \in 1..2 /\ commands' \in Orderings(all)
    BY DEF Trigger
  <1> DEFINE all == {Command("interrupt", t) : t \in hit}
                      \union {Withdrawal(s) : s \in left}
                      \union {Command(name, t) : t \in ends}
  <1>1. /\ commands' \in Seq(all)
        /\ \A k \in 1..Len(commands') : commands'[k] \in all
        /\ \A j, k \in 1..Len(commands') : commands'[j] = commands'[k] => j = k
    <2>1. Cardinality(all) \in Nat /\ commands' \in Orderings(all)
      OBVIOUS
    <2> HIDE DEF all
    <2> QED
      BY <2>1, OrderingIsSequence
  <1>2. all \subseteq CommandSet
    BY DEF IInv, TypeOK, Command, Withdrawal, CommandSet, TokenCommands
  <1>3. \A c \in all : c.name \in Moving => c.token \in ends /\ c = Command(name, c.token)
    BY DEF Command, Withdrawal, Moving
  <1>4. \A c \in all : c.name # "enter"
    BY DEF Command, Withdrawal
  <1> HIDE DEF all
  <1>5. commands' \in Seq(CommandSet)
    BY <1>1, <1>2, SeqMonotonic
  <1>6. OneMoving'
    BY <1>1, <1>3 DEF OneMoving
  <1>7. EnterAlone'
    BY <1>1, <1>4 DEF EnterAlone
  <1>8. state' = state
    BY DEF Trigger
  <1>9. MovingExpected'
    <2> SUFFICES ASSUME NEW k \in 1..Len(commands'), commands'[k].name \in Moving
                 PROVE  state[commands'[k].token] \in Expecting(commands'[k].name)
      BY <1>8 DEF MovingExpected
    <2>1. commands'[k].token \in ends /\ commands'[k] = Command(name, commands'[k].token)
      BY <1>1, <1>3
    <2>2. commands'[k].name = name
      BY <2>1 DEF Command
    <2> QED
      BY <2>1, <2>2 DEF Expecting
  <1> QED
    BY <1>5, <1>6, <1>7, <1>9 DEF IInv, TypeOK, Trigger, MutualExclusion, Performed,
       RequestedWhenIdle, Waiting

LEMMA InstallCopyOK ==
  ASSUME IInv, InstallCopy
  PROVE  IInv'
  <1>1. /\ pending' \in Seq(Waiting)
        /\ \A e \in Waiting : \E k \in 1..Len(pending') : pending'[k] = e
    BY WaitingCounted, OrderingIsSequence DEF InstallCopy
  <1>2. pending' \in Seq(Tokens) /\ DOMAIN pending' = 1..Len(pending')
    BY <1>1, SeqMonotonic, LenProperties DEF Waiting
  <1>3. OneMoving' /\ MovingExpected' /\ EnterAlone'
    BY NoCommands DEF InstallCopy, Settled
  <1>4. Waiting \subseteq Waiting'
    BY <1>1, <1>2 DEF Waiting, InstallCopy
  <1> QED
    BY <1>2, <1>3, <1>4 DEF IInv, TypeOK, InstallCopy, MutualExclusion, Performed,
       RequestedWhenIdle

LEMMA SkipOK ==
  ASSUME IInv, Skip
  PROVE  IInv'
  <1>1. commands # <<>> /\ commands' = Tail(commands) /\ state' = state
    BY DEF Skip, Settled
  <1>2. commands' \in Seq(CommandSet) /\ OneMoving' /\ MovingExpected' /\ EnterAlone'
    BY <1>1, TailConsistent
  <1> QED
    BY <1>2 DEF IInv, TypeOK, Skip, MutualExclusion, Performed, RequestedWhenIdle, Waiting

\* What is known of the token of a command that is executed.
LEMMA RunsKnown ==
  ASSUME IInv, NEW t \in Tokens, NEW name \in TokenCommands, Runs(name, t)
  PROVE  /\ commands # <<>>
         /\ Head(commands).name = name
         /\ Head(commands).token = t
         /\ name \in Moving => state[t] \in Expecting(name)
         /\ name = "enter" => performing = t
  <1>1. /\ commands # <<>>
        /\ Head(commands) = Command(name, t)
        /\ state[t] # "removed"
    BY DEF Runs, Settled
  <1>2. 1 \in 1..Len(commands) /\ Head(commands) = commands[1]
    BY <1>1, QueueRest DEF IInv
  <1>3. commands[1].name = name /\ commands[1].token = t
    BY <1>1, <1>2 DEF Command
  <1> QED
    BY <1>1, <1>2, <1>3 DEF IInv, MovingExpected, EnterAlone

LEMMA EnterOK ==
  ASSUME IInv, NEW t \in Tokens, Runs("enter", t), Enter(t)
  PROVE  IInv'
  <1>1. /\ commands # <<>>
        /\ Head(commands).name \in Moving
        /\ Head(commands).token = t
        /\ state[t] = "ready"
        /\ performing = t
    BY RunsKnown DEF TokenCommands, Moving, Expecting
  <1>2. request = {} /\ performing' = performing /\ request' = request /\ pending' = pending
    BY <1>1, PerformerAssumption DEF IInv, RequestedWhenIdle, Enter
  <1>3. \A u \in Tokens : u # t => state'[u] = state[u]
    BY DEF IInv, TypeOK, Enter
  <1>4. state'[t] \in {"entered", "busy"} /\ state' \in [Tokens -> States]
    BY DEF IInv, TypeOK, Enter, States
  <1>5. commands' \in Seq(CommandSet) /\ OneMoving' /\ MovingExpected' /\ EnterAlone'
    <2>1. CASE commands' = Tail(commands)
      BY <1>1, <1>3, <2>1, TailConsistent
    <2>2. CASE state' = [state EXCEPT ![t] = "entered"] /\ Queue(Command("fail", t))
      <3> DEFINE cmd == Command("fail", t)
      <3>1. /\ cmd \in CommandSet
            /\ cmd.name = "fail"
            /\ cmd.token = t
            /\ commands' = Append(Tail(commands), cmd)
        BY <2>2 DEF Command, CommandSet, TokenCommands, Queue
      <3>2. state'[t] \in Expecting("fail")
        BY <2>2 DEF IInv, TypeOK, Expecting
      <3> HIDE DEF cmd
      <3> QED
        BY <1>1, <1>3, <3>1, <3>2, AppendConsistent
    <2> QED
      BY <2>1, <2>2 DEF Enter
  <1>6. TypeOK'
    BY <1>2, <1>4, <1>5 DEF IInv, TypeOK, Enter
  <1>7. MutualExclusion'
    BY <1>1, <1>2, <1>3 DEF IInv, MutualExclusion, Performed
  <1>8. RequestedWhenIdle'
    BY <1>2 DEF RequestedWhenIdle
  <1> QED
    BY <1>5, <1>6, <1>7, <1>8 DEF IInv

LEMMA CompleteOK ==
  ASSUME IInv, NEW t \in Tokens, Runs("complete", t), Complete(t)
  PROVE  IInv'
  <1>1. /\ commands # <<>>
        /\ Head(commands).name \in Moving
        /\ Head(commands).token = t
        /\ state[t] = "busy"
    BY RunsKnown DEF TokenCommands, Moving, Expecting
  <1>2. \A u \in Tokens : u # t => state'[u] = state[u]
    BY DEF IInv, TypeOK, Complete
  <1>3. state'[t] = "completed" /\ state' \in [Tokens -> States]
    BY DEF IInv, TypeOK, Complete, States
  <1>4. commands' \in Seq(CommandSet) /\ OneMoving' /\ MovingExpected' /\ EnterAlone'
    <2> PICK name \in {"fromCompleted", "fail"} : Queue(Command(name, t))
      BY DEF Complete
    <2> DEFINE cmd == Command(name, t)
    <2>1. /\ cmd \in CommandSet
          /\ cmd.name = name /\ name # "enter"
          /\ cmd.token = t
          /\ commands' = Append(Tail(commands), cmd)
      BY DEF Command, CommandSet, TokenCommands, Queue
    <2>2. state'[t] \in Expecting(name)
      BY <1>3 DEF Expecting
    <2> HIDE DEF cmd
    <2> QED
      BY <1>1, <1>2, <2>1, <2>2, AppendConsistent
  <1>5. TypeOK'
    BY <1>3, <1>4 DEF IInv, TypeOK, Complete
  <1>6. Performed' = Performed
    BY <1>1, <1>2, <1>3 DEF Performed
  <1>7. MutualExclusion'
    BY <1>6 DEF IInv, Complete, MutualExclusion
  <1>8. RequestedWhenIdle'
    BY <1>1, <1>2, <1>3 DEF IInv, Complete, RequestedWhenIdle, Waiting
  <1> QED
    BY <1>4, <1>5, <1>7, <1>8 DEF IInv

LEMMA FromCompletedOK ==
  ASSUME IInv, NEW t \in Tokens, Runs("fromCompleted", t), FromCompleted(t)
  PROVE  IInv'
  <1>1. /\ commands # <<>> /\ commands' = Tail(commands)
        /\ Head(commands).name \in Moving
        /\ Head(commands).token = t
        /\ state[t] = "completed"
    BY RunsKnown DEF TokenCommands, Moving, Expecting, FromCompleted
  <1>2. \A u \in Tokens : u # t => state'[u] = state[u]
    BY DEF IInv, TypeOK, FromCompleted
  <1>3. state'[t] \in {"ready", "removed"} /\ state' \in [Tokens -> States]
    BY DEF IInv, TypeOK, FromCompleted, States
  <1>4. commands' \in Seq(CommandSet) /\ OneMoving' /\ MovingExpected' /\ EnterAlone'
    BY <1>1, <1>2, TailConsistent
  <1>5. /\ pending' \in Seq(Tokens)
        /\ \A k \in DOMAIN pending : k \in DOMAIN pending' /\ pending'[k] = pending[k]
        /\ state'[t] = "ready" => \E k \in DOMAIN pending' : pending'[k] = t
    <2>1. CASE pending' = Append(pending, t)
      <3>1. pending \in Seq(Tokens)
        BY DEF IInv, TypeOK
      <3>2. /\ DOMAIN pending = 1..Len(pending)
            /\ DOMAIN pending' = 1..(Len(pending) + 1)
            /\ Len(pending) \in Nat
        BY <2>1, <3>1, AppendProperties, LenProperties
      <3> QED
        BY <2>1, <3>1, <3>2, AppendProperties
    <2>2. CASE pending' = pending /\ state' = [state EXCEPT ![t] = "removed"]
      BY <2>2 DEF IInv, TypeOK
    <2> QED
      BY <2>1, <2>2 DEF FromCompleted
  <1>6. performing' = None
    BY DEF FromCompleted
  <1>7. request \subseteq Waiting /\ Renewed({}) = Waiting /\ AwaitEntry(t, FALSE) = {t}
    BY DEF IInv, RequestedWhenIdle, Renewed, AwaitEntry
  <1>8. request' \subseteq Waiting \union {t} /\ (t \in request' => state'[t] = "ready")
    BY <1>1, <1>7 DEF IInv, TypeOK, FromCompleted, Waiting
  <1>9. RequestedWhenIdle'
    BY <1>1, <1>2, <1>5, <1>6, <1>8 DEF RequestedWhenIdle, Waiting
  <1>10. MutualExclusion'
    BY <1>1, <1>2, <1>3 DEF IInv, MutualExclusion, Performed
  <1>11. TypeOK'
    BY <1>3, <1>4, <1>5, <1>6, <1>8 DEF IInv, TypeOK, FromCompleted, Waiting
  <1> QED
    BY <1>4, <1>9, <1>10, <1>11 DEF IInv

LEMMA FailOK ==
  ASSUME IInv, NEW t \in Tokens, Runs("fail", t), Fail(t)
  PROVE  IInv'
  <1>1. /\ commands # <<>>
        /\ Head(commands).name \in Moving
        /\ Head(commands).token = t
        /\ state[t] \in {"entered", "busy", "completed"}
    BY RunsKnown DEF TokenCommands, Moving, Expecting
  <1>2. performing = t
    BY <1>1 DEF IInv, MutualExclusion, Performed
  <1>3. performing' = None /\ request' = request \union Waiting
    BY <1>2, PerformerAssumption DEF Fail, ReleaseOnFailure, Release, Renewed
  <1>4. \A u \in Tokens : u # t => state'[u] = state[u]
    BY DEF IInv, TypeOK, Fail
  <1>5. state'[t] = "failed" /\ state' \in [Tokens -> States]
    BY DEF IInv, TypeOK, Fail, States
  <1>6. commands' \in Seq(CommandSet) /\ OneMoving' /\ MovingExpected' /\ EnterAlone'
    <2> DEFINE cmd == Command("handleFailure", t)
    <2>1. /\ cmd \in CommandSet
          /\ cmd.name \notin Moving /\ cmd.name # "enter"
          /\ commands' = Append(Tail(commands), cmd)
      BY DEF Command, CommandSet, TokenCommands, Moving, Queue, Fail
    <2> HIDE DEF cmd
    <2> QED
      BY <1>1, <1>4, <2>1, AppendConsistent
  <1>7. TypeOK'
    BY <1>3, <1>5, <1>6 DEF IInv, TypeOK, Fail, Waiting
  <1>8. MutualExclusion'
    BY <1>2, <1>4, <1>5 DEF IInv, MutualExclusion, Performed
  <1>9. RequestedWhenIdle'
    BY <1>1, <1>3, <1>4 DEF IInv, Fail, RequestedWhenIdle, Waiting
  <1> QED
    BY <1>6, <1>7, <1>8, <1>9 DEF IInv

LEMMA HandleFailureOK ==
  ASSUME IInv, NEW t \in Tokens, Runs("handleFailure", t), HandleFailure(t)
  PROVE  IInv'
  <1>1. commands # <<>> /\ state' = state
    BY DEF HandleFailure, Runs, Settled
  <1>2. PICK cmd \in {Command("interrupt", t), Withdrawal(ScopeOf[t])} :
          commands' = Append(Tail(commands), cmd)
    BY DEF HandleFailure, Queue
  <1>3. cmd \in CommandSet /\ cmd.name \notin Moving /\ cmd.name # "enter"
    BY PerformerAssumption DEF Command, Withdrawal, CommandSet, TokenCommands, Moving
  <1>4. commands' \in Seq(CommandSet) /\ OneMoving' /\ MovingExpected' /\ EnterAlone'
    BY <1>1, <1>2, <1>3, AppendConsistent
  <1> QED
    BY <1>4 DEF IInv, TypeOK, HandleFailure, MutualExclusion, Performed,
       RequestedWhenIdle, Waiting

LEMMA RemoveOK ==
  ASSUME IInv, commands # <<>>, NEW gone \in SUBSET Tokens, Remove(gone)
  PROVE  IInv'
  <1>1. /\ commands' = Tail(commands)
        /\ state' = [t \in Tokens |-> IF t \in gone THEN "removed" ELSE state[t]]
        /\ pending' = pending
    BY DEF Remove
  <1>2. commands' \in Seq(CommandSet) /\ OneMoving' /\ MovingExpected' /\ EnterAlone'
    BY <1>1, TailConsistent
  <1>3. Waiting' = Waiting \ gone /\ Performed' = Performed \ gone
    BY <1>1 DEF Waiting, Performed, IInv, TypeOK
  <1>4. \/ performing \in gone /\ performing' = None
        \/ performing' = performing
    BY DEF Remove, Withdraw, Release
  <1>5. request' \subseteq Waiting' /\ (request' # {} => performing' = None)
    <2>1. CASE performing \in gone /\ state[performing] # "failed"
      BY <1>3, <2>1 DEF IInv, RequestedWhenIdle, Remove, Withdraw, Release, Renewed
    <2>2. CASE ~(performing \in gone /\ state[performing] # "failed")
      BY <1>3, <2>2 DEF IInv, RequestedWhenIdle, Remove, Withdraw
    <2> QED
      BY <2>1, <2>2
  <1>6. MutualExclusion'
    BY <1>3, <1>4 DEF IInv, MutualExclusion
  <1>7. TypeOK'
    BY <1>1, <1>2, <1>4, <1>5 DEF IInv, TypeOK, Remove, States, Waiting
  <1> QED
    BY <1>2, <1>5, <1>6, <1>7 DEF IInv, RequestedWhenIdle

-----------------------------------------------------------------------------
LEMMA ExecuteOK ==
  ASSUME IInv, Execute
  PROVE  IInv'
  <1>1. CASE Skip
    BY <1>1, SkipOK
  <1>2. ASSUME NEW t \in Tokens, ExecuteFor(t)
        PROVE  IInv'
    <2>1. CASE Runs("enter", t) /\ Enter(t)
      BY <2>1, EnterOK
    <2>2. CASE Runs("complete", t) /\ Complete(t)
      BY <2>2, CompleteOK
    <2>3. CASE Runs("fromCompleted", t) /\ FromCompleted(t)
      BY <2>3, FromCompletedOK
    <2>4. CASE Runs("fail", t) /\ Fail(t)
      BY <2>4, FailOK
    <2>5. CASE Runs("handleFailure", t) /\ HandleFailure(t)
      BY <2>5, HandleFailureOK
    <2>6. CASE Runs("interrupt", t) /\ Remove({t})
      BY <2>6, RemoveOK DEF Runs, Settled
    <2> QED
      BY <1>2, <2>1, <2>2, <2>3, <2>4, <2>5, <2>6 DEF ExecuteFor
  <1>3. ASSUME NEW s \in Scopes, ExecuteWithdrawal(s)
        PROVE  IInv'
    BY <1>3, RemoveOK DEF ExecuteWithdrawal, Settled, Present
  <1> QED
    BY <1>1, <1>2, <1>3 DEF Execute

\* Every step keeps the inductive invariant.
LEMMA NextOK == IInv /\ [Next]_vars => IInv'
  <1> SUFFICES ASSUME IInv, [Next]_vars PROVE IInv'
    OBVIOUS
  <1>1. ASSUME NEW s \in Scopes, StartScope(s) PROVE IInv'
    BY <1>1, StartScopeOK
  <1>2. ASSUME NEW t \in Tokens, ReadyEvent(t) PROVE IInv'
    BY <1>2, ReadyEventOK
  <1>3. ASSUME NEW t \in Tokens, NEW basis \in {"current", "former"}, EntryEvent(t, basis)
        PROVE  IInv'
    BY <1>3, EntryEventOK
  <1>4. ASSUME NEW t \in Tokens, CompletionEvent(t) PROVE IInv'
    BY <1>4, CompletionEventOK
  <1>5. CASE Trigger
    BY <1>5, TriggerOK
  <1>6. CASE InstallCopy
    BY <1>6, InstallCopyOK
  <1>7. CASE Execute
    BY <1>7, ExecuteOK
  <1>8. CASE UNCHANGED vars
    BY <1>8 DEF vars, IInv, TypeOK, MutualExclusion, Performed, OneMoving,
       MovingExpected, EnterAlone, RequestedWhenIdle, Waiting
  <1> QED
    BY <1>1, <1>2, <1>3, <1>4, <1>5, <1>6, <1>7, <1>8 DEF Next

\* A child that awaits its entry, other than the one being entered, is listed.
ReadyListed ==
  \A t \in Tokens : state[t] = "ready" /\ performing # t => t \in Waiting

\* While the performer is idle, a decision is requested for all those listed.
IdleRequested == performing = None => Waiting \subseteq request

Served == ReadyListed /\ IdleRequested

LEMMA ListAppended ==
  ASSUME pending \in Seq(Tokens), NEW t \in Tokens, pending' = Append(pending, t)
  PROVE  /\ \A k \in DOMAIN pending : k \in DOMAIN pending' /\ pending'[k] = pending[k]
         /\ \E k \in DOMAIN pending' : pending'[k] = t
  <1>1. /\ DOMAIN pending = 1..Len(pending)
        /\ DOMAIN pending' = 1..(Len(pending) + 1)
        /\ Len(pending) \in Nat
    BY AppendProperties, LenProperties
  <1> QED
    BY <1>1, AppendProperties

\* Taking a token off the list moves those behind it one position ahead.
LEMMA PositionsWithout ==
  ASSUME pending \in Seq(Tokens), NEW k \in DOMAIN pending, pending' = Without(pending, k)
  PROVE  /\ Len(pending) \in Nat /\ k \in 1..Len(pending) /\ DOMAIN pending = 1..Len(pending)
         /\ DOMAIN pending' = 1..(Len(pending) - 1)
         /\ \A i \in 1..(Len(pending) - 1) :
              pending'[i] = pending[IF i < k THEN i ELSE i + 1]
  <1> DEFINE front == SubSeq(pending, 1, k - 1)
             rest == SubSeq(pending, k + 1, Len(pending))
             n == Len(pending)
  <1>1. n \in Nat /\ k \in 1..n /\ DOMAIN pending = 1..n
    BY LenProperties
  <1>2. \A j \in 1..n : pending[j] \in Tokens
    BY <1>1, ElementOfSeq
  <1>3. /\ front \in Seq(Tokens)
        /\ Len(front) = k - 1
        /\ \A j \in 1..(k - 1) : front[j] = pending[j]
    BY <1>1, <1>2, SubSeqProperties
  <1>4. /\ rest \in Seq(Tokens)
        /\ Len(rest) = n - k
        /\ \A j \in 1..(n - k) : rest[j] = pending[k + j]
    BY <1>1, <1>2, SubSeqProperties
  <1>5. pending' = front \o rest
    BY DEF Without
  <1>6. /\ front \o rest \in Seq(Tokens)
         /\ Len(front \o rest) = n - 1
         /\ \A i \in 1..(Len(front) + Len(rest)) :
              (front \o rest)[i] = IF i <= Len(front) THEN front[i] ELSE rest[i - Len(front)]
    <2> HIDE DEF front, rest, n
    <2>1. /\ front \o rest \in Seq(Tokens)
          /\ Len(front \o rest) = Len(front) + Len(rest)
          /\ \A i \in 1..(Len(front) + Len(rest)) :
               (front \o rest)[i] = IF i <= Len(front) THEN front[i] ELSE rest[i - Len(front)]
      BY <1>3, <1>4, ConcatProperties
    <2>2. (k - 1) + (n - k) = n - 1
      BY <1>1
    <2> QED
      BY <2>1, <2>2, <1>3, <1>4
  <1>7. /\ pending' \in Seq(Tokens)
         /\ DOMAIN pending' = 1..(n - 1)
    <2> HIDE DEF front, rest, n
    <2> QED
      BY <1>5, <1>6, LenProperties
  <1>8. \A i \in 1..(n - 1) : pending'[i] = IF i <= k - 1 THEN front[i] ELSE rest[i - (k - 1)]
    <2> HIDE DEF front, rest, n
    <2>1. Len(front) + Len(rest) = n - 1
      BY <1>1, <1>3, <1>4
    <2> QED
      BY <2>1, <1>5, <1>6, <1>3
  <1> HIDE DEF front, rest
  <1>9. ASSUME NEW i \in 1..(n - 1)
        PROVE  pending'[i] = pending[IF i < k THEN i ELSE i + 1]
    <2>1. CASE i < k
      <3>1. i <= k - 1 /\ i \in 1..(k - 1)
        BY <1>1, <2>1
      <3>2. pending'[i] = front[i]
        BY <1>8, <3>1
      <3> QED
        BY <1>3, <2>1, <3>1, <3>2
    <2>2. CASE ~(i < k)
      <3>1. ~(i <= k - 1) /\ i - (k - 1) \in 1..(n - k) /\ k + (i - (k - 1)) = i + 1
        BY <1>1, <2>2
      <3>2. pending'[i] = rest[i - (k - 1)]
        BY <1>8, <3>1
      <3>3. rest[i - (k - 1)] = pending[k + (i - (k - 1))]
        BY <1>4, <3>1
      <3> QED
        BY <2>2, <3>1, <3>2, <3>3
    <2> QED
      BY <2>1, <2>2
  <1> QED
    BY <1>1, <1>7, <1>9

\* Taking a token off the list loses no other.
LEMMA ListWithout ==
  ASSUME pending \in Seq(Tokens), NEW k \in DOMAIN pending, pending' = Without(pending, k)
  PROVE  \A j \in DOMAIN pending : j # k => \E i \in DOMAIN pending' : pending'[i] = pending[j]
  <1>1. /\ Len(pending) \in Nat /\ k \in 1..Len(pending) /\ DOMAIN pending = 1..Len(pending)
        /\ DOMAIN pending' = 1..(Len(pending) - 1)
        /\ \A i \in 1..(Len(pending) - 1) :
             pending'[i] = pending[IF i < k THEN i ELSE i + 1]
    BY PositionsWithout
  <1> SUFFICES ASSUME NEW j \in 1..Len(pending), j # k
               PROVE  \E i \in DOMAIN pending' : pending'[i] = pending[j]
    BY <1>1
  <1>2. CASE j < k
    <2>1. j \in 1..(Len(pending) - 1)
      BY <1>1, <1>2
    <2> QED
      BY <1>1, <1>2, <2>1
  <1>3. CASE ~(j < k)
    <2>1. j - 1 \in 1..(Len(pending) - 1) /\ ~(j - 1 < k) /\ (j - 1) + 1 = j
      BY <1>1, <1>3
    <2> QED
      BY <1>1, <2>1
  <1> QED
    BY <1>2, <1>3

LEMMA EventsServe ==
  ASSUME IInv, Served,
         \/ \E s \in Scopes : StartScope(s)
         \/ \E t \in Tokens : ReadyEvent(t)
         \/ \E t \in Tokens, basis \in {"current", "former"} : EntryEvent(t, basis)
         \/ InstallCopy
  PROVE  Served'
  <1>1. ASSUME NEW s \in Scopes, StartScope(s) PROVE Served'
    BY <1>1 DEF IInv, TypeOK, Served, ReadyListed, IdleRequested, Waiting, StartScope
  <1>2. ASSUME NEW t \in Tokens, ReadyEvent(t) PROVE Served'
    <2>1. /\ \A k \in DOMAIN pending : k \in DOMAIN pending' /\ pending'[k] = pending[k]
          /\ \E k \in DOMAIN pending' : pending'[k] = t
      BY <1>2, ListAppended DEF IInv, TypeOK, ReadyEvent
    <2>2. state[t] = "arrived" /\ state'[t] = "ready" /\ performing' = performing
          /\ \A u \in Tokens : u # t => state'[u] = state[u]
      BY <1>2 DEF ReadyEvent, IInv, TypeOK
    <2>3. ReadyListed'
      BY <2>1, <2>2 DEF Served, ReadyListed, Waiting
    <2>4. \A u \in Waiting' : u = t \/ (state[u] = "ready" /\ performing' = performing)
      BY <2>2 DEF Waiting
    <2>5. IdleRequested'
      BY <1>2, <2>2, <2>4, PerformerAssumption DEF ReadyEvent, AwaitEntry, Served, ReadyListed,
         IdleRequested, Waiting
    <2> QED
      BY <2>3, <2>5 DEF Served
  <1>3. ASSUME NEW t \in Tokens, NEW basis \in {"current", "former"}, EntryEvent(t, basis)
        PROVE  Served'
    <2>1. performing = None /\ performing' = t /\ state' = state
      BY <1>3 DEF IInv, EntryEvent, Occupy, Expired, RequestedWhenIdle
    <2>2. PICK k \in DOMAIN pending : pending[k] = t /\ pending' = Without(pending, k)
      BY <1>3 DEF EntryEvent, Occupy
    <2>3. \A j \in DOMAIN pending : j # k => \E i \in DOMAIN pending' : pending'[i] = pending[j]
      BY <2>2, ListWithout DEF IInv, TypeOK
    <2>4. ReadyListed'
      BY <2>1, <2>2, <2>3, PerformerAssumption DEF Served, ReadyListed, Waiting
    <2>5. IdleRequested'
      BY <2>1, PerformerAssumption DEF IdleRequested
    <2> QED
      BY <2>4, <2>5 DEF Served
  <1>4. CASE InstallCopy
    <2>1. /\ pending' \in Seq(Waiting)
          /\ \A e \in Waiting : \E k \in 1..Len(pending') : pending'[k] = e
      BY <1>4, WaitingCounted, OrderingIsSequence DEF InstallCopy
    <2>2. DOMAIN pending' = 1..Len(pending')
      BY <2>1, LenProperties
    <2>3. Waiting' = Waiting
      BY <1>4, <2>1, <2>2, ElementOfSeq DEF Waiting, InstallCopy
    <2> QED
      BY <1>4, <2>3 DEF Served, ReadyListed, IdleRequested, InstallCopy
  <1> QED
    BY <1>1, <1>2, <1>3, <1>4

LEMMA RemoveServes ==
  ASSUME IInv, Served, NEW gone \in SUBSET Tokens, Remove(gone)
  PROVE  Served'
  <1>1. Waiting' = Waiting \ gone
    BY DEF Waiting, IInv, TypeOK, Remove
  <1>2. CASE performing \in gone /\ state[performing] # "failed"
    <2>1. performing' = None /\ request' = (request \ gone) \union (Waiting \ gone)
      BY <1>2 DEF Remove, Withdraw, Release, Renewed
    <2>2. ReadyListed'
      BY <1>1, <1>2 DEF Served, ReadyListed, Remove
    <2> QED
      BY <1>1, <2>1, <2>2 DEF Served, IdleRequested
  <1>3. CASE ~(performing \in gone /\ state[performing] # "failed")
    <2>1. performing' = performing /\ request' = request \ gone
      BY <1>3 DEF Remove, Withdraw
    <2> QED
      BY <1>1, <2>1 DEF Served, ReadyListed, IdleRequested, Remove
  <1> QED
    BY <1>2, <1>3

LEMMA CommandsServe ==
  ASSUME IInv, Served, NEW t \in Tokens, ExecuteFor(t)
  PROVE  Served'
  <1>1. CASE Runs("enter", t) /\ Enter(t)
    <2>1. performing = t /\ performing' = t
      BY <1>1, RunsKnown DEF TokenCommands, Enter
    <2>2. state'[t] # "ready" /\ \A u \in Tokens : u # t => state'[u] = state[u]
      BY <1>1 DEF IInv, TypeOK, Enter
    <2> QED
      BY <1>1, <2>1, <2>2, PerformerAssumption DEF Served, ReadyListed, IdleRequested, Waiting, Enter
  <1>2. CASE Runs("complete", t) /\ Complete(t)
    <2>1. state[t] = "busy"
      BY <1>2, RunsKnown DEF TokenCommands, Moving, Expecting
    <2>2. state'[t] # "ready" /\ \A u \in Tokens : u # t => state'[u] = state[u]
      BY <1>2 DEF IInv, TypeOK, Complete
    <2> QED
      BY <1>2, <2>1, <2>2 DEF Served, ReadyListed, IdleRequested, Waiting, Complete
  <1>3. CASE Runs("fromCompleted", t) /\ FromCompleted(t)
    <2>1. state[t] = "completed"
      BY <1>3, RunsKnown DEF TokenCommands, Moving, Expecting
    <2>2. performing = t /\ performing' = None
      BY <1>3, <2>1 DEF IInv, MutualExclusion, Performed, FromCompleted
    <2>3. \A u \in Tokens : u # t => state'[u] = state[u]
      BY <1>3 DEF IInv, TypeOK, FromCompleted
    <2>4. CASE state' = [state EXCEPT ![t] = "ready"] /\ pending' = Append(pending, t)
               /\ request' = request \union Renewed({}) \union AwaitEntry(t, FALSE)
      <3>1. /\ \A k \in DOMAIN pending : k \in DOMAIN pending' /\ pending'[k] = pending[k]
            /\ \E k \in DOMAIN pending' : pending'[k] = t
        BY <2>4, ListAppended DEF IInv, TypeOK
      <3>2. ReadyListed'
        BY <2>2, <2>3, <3>1 DEF Served, ReadyListed, Waiting
      <3>3. Waiting' \subseteq Waiting \union {t}
        BY <2>2, <2>3 DEF Served, ReadyListed, Waiting
      <3> QED
        BY <2>4, <3>2, <3>3 DEF Served, IdleRequested, Renewed, AwaitEntry
    <2>5. CASE state' = [state EXCEPT ![t] = "removed"] /\ pending' = pending
               /\ request' = request \union Renewed({})
      <3>1. state'[t] = "removed"
        BY <2>5 DEF IInv, TypeOK
      <3>2. Waiting' = Waiting
        BY <2>1, <2>3, <2>5, <3>1 DEF Waiting
      <3> QED
        BY <2>2, <2>3, <2>5, <3>1, <3>2 DEF Served, ReadyListed, IdleRequested, Renewed
    <2> QED
      BY <1>3, <2>4, <2>5 DEF FromCompleted
  <1>4. CASE Runs("fail", t) /\ Fail(t)
    <2>1. state[t] \in {"entered", "busy", "completed"}
      BY <1>4, RunsKnown DEF TokenCommands, Moving, Expecting
    <2>2. performing = t
      BY <2>1 DEF IInv, MutualExclusion, Performed
    <2>3. performing' = None /\ request' = request \union Waiting /\ pending' = pending
      BY <1>4, <2>2, PerformerAssumption DEF Fail, ReleaseOnFailure, Release, Renewed
    <2>4. state'[t] = "failed" /\ \A u \in Tokens : u # t => state'[u] = state[u]
      BY <1>4 DEF IInv, TypeOK, Fail
    <2>5. Waiting' = Waiting
      BY <2>1, <2>3, <2>4 DEF Waiting
    <2> QED
      BY <2>2, <2>3, <2>4, <2>5 DEF Served, ReadyListed, IdleRequested
  <1>5. CASE Runs("handleFailure", t) /\ HandleFailure(t)
    BY <1>5 DEF Served, ReadyListed, IdleRequested, Waiting, HandleFailure
  <1>6. CASE Runs("interrupt", t) /\ Remove({t})
    BY <1>6, RemoveServes DEF Served
  <1> QED
    BY <1>1, <1>2, <1>3, <1>4, <1>5, <1>6 DEF ExecuteFor

\* Every step keeps those waiting served.
LEMMA NextServes == IInv /\ Served /\ [Next]_vars => Served'
  <1> SUFFICES ASSUME IInv, Served, [Next]_vars PROVE Served'
    OBVIOUS
  <1>1. CASE \/ \E s \in Scopes : StartScope(s)
             \/ \E t \in Tokens : ReadyEvent(t)
             \/ \E t \in Tokens, basis \in {"current", "former"} : EntryEvent(t, basis)
             \/ InstallCopy
    BY <1>1, EventsServe
  <1>2. CASE (\E t \in Tokens : CompletionEvent(t)) \/ Trigger \/ Skip \/ UNCHANGED vars
    BY <1>2 DEF CompletionEvent, Trigger, Skip, vars, Served, ReadyListed, IdleRequested, Waiting
  <1>3. CASE \E t \in Tokens : ExecuteFor(t)
    BY <1>3, CommandsServe
  <1>4. CASE \E s \in Scopes : ExecuteWithdrawal(s)
    BY <1>4, RemoveServes DEF ExecuteWithdrawal, Present
  <1> QED
    BY <1>1, <1>2, <1>3, <1>4 DEF Next, Execute

LEMMA InitServes == Init => Served
  BY DEF Init, Served, ReadyListed, IdleRequested, Waiting

-----------------------------------------------------------------------------
\* The types of all variables, whatever the ad-hoc subprocesses and tokens.
THEOREM TypesCorrect == Spec => []TypeOK
  <1>1. IInv => TypeOK
    BY DEF IInv
  <1> QED
    BY InitOK, NextOK, <1>1, PTL DEF Spec

\* At most one child activity linked to a performer is performed at any time,
\* however many ad-hoc subprocesses share it and however their activities loop,
\* fail, are interrupted or withdrawn, and whatever decisions controllers hold.
THEOREM PerformedExclusively == Spec => []MutualExclusion
  <1>1. IInv => MutualExclusion
    BY DEF IInv
  <1> QED
    BY InitOK, NextOK, <1>1, PTL DEF Spec

\* Once an event is processed, decisions are requested for exactly the children
\* awaiting entry if the performer is idle, and for none if it is busy: no child
\* is forgotten when the performer is released, none is offered too early.
THEOREM RequestsExact == Spec => []RequestedIffIdle
  <1>1. IInv /\ Served => RequestedIffIdle
    BY PerformerAssumption DEF IInv, TypeOK, Served, ReadyListed, IdleRequested, RequestedWhenIdle,
       RequestedIffIdle, Waiting
  <1> QED
    BY InitOK, InitServes, NextOK, NextServes, <1>1, PTL DEF Spec

-----------------------------------------------------------------------------
\* A command is enqueued that moves a token to its next state.
MoveAwaited(t) ==
  \E k \in 1..Len(commands) : commands[k].name \in Moving /\ commands[k].token = t

\* The performer is held by an activity that is busy or about to be moved.
Occupied ==
  \A t \in Tokens : performing = t =>
    /\ state[t] # "removed"
    /\ state[t] = "busy" \/ MoveAwaited(t)

\* The list names nobody twice, and besides those that are gone only children
\* awaiting entry that are not being entered.
ListedWaiting ==
  /\ \A j, k \in DOMAIN pending : pending[j] = pending[k] => j = k
  /\ \A k \in DOMAIN pending :
       state[pending[k]] \in {"ready", "removed"} /\ pending[k] # performing

Held == Occupied /\ ListedWaiting

-----------------------------------------------------------------------------
\* What a queue holds when its front is taken off and a command is appended.
LEMMA QueueAppended ==
  ASSUME TypeOK, commands # <<>>,
         NEW cmd \in CommandSet, commands' = Append(Tail(commands), cmd)
  PROVE  /\ Len(commands') = Len(commands)
         /\ \A i \in 1..(Len(commands) - 1) : commands'[i] = commands[i + 1]
         /\ commands'[Len(commands)] = cmd
  <1>1. /\ Len(commands) \in Nat \ {0}
        /\ Tail(commands) \in Seq(CommandSet)
        /\ Len(Tail(commands)) = Len(commands) - 1
        /\ \A k \in 1..(Len(commands) - 1) : Tail(commands)[k] = commands[k + 1]
    BY QueueRest
  <1> QED
    BY <1>1, AppendProperties

\* A token whose command is not at the front is still going to be moved after
\* the command at the front was executed.
LEMMA OthersAwait ==
  ASSUME IInv, commands # <<>>, NEW t \in Tokens, MoveAwaited(t),
         ~(Head(commands).name \in Moving /\ Head(commands).token = t),
         \/ commands' = Tail(commands)
         \/ \E cmd \in CommandSet : commands' = Append(Tail(commands), cmd)
  PROVE  MoveAwaited(t)'
  <1>1. /\ Len(commands) \in Nat \ {0}
        /\ Head(commands) = commands[1]
        /\ Tail(commands) \in Seq(CommandSet)
        /\ Len(Tail(commands)) = Len(commands) - 1
        /\ \A k \in 1..(Len(commands) - 1) : Tail(commands)[k] = commands[k + 1]
    BY QueueRest DEF IInv
  <1>2. PICK k \in 1..Len(commands) : commands[k].name \in Moving /\ commands[k].token = t
    BY DEF MoveAwaited
  <1>3. k - 1 \in 1..(Len(commands) - 1) /\ (k - 1) + 1 = k
    BY <1>1, <1>2
  <1>4. Tail(commands)[k - 1] = commands[k]
    BY <1>1, <1>3
  <1>5. CASE commands' = Tail(commands)
    BY <1>1, <1>2, <1>3, <1>4, <1>5 DEF MoveAwaited
  <1>6. ASSUME NEW cmd \in CommandSet, commands' = Append(Tail(commands), cmd)
        PROVE  MoveAwaited(t)'
    <2>1. /\ Len(commands') = Len(commands)
          /\ \A i \in 1..(Len(commands) - 1) : commands'[i] = commands[i + 1]
      BY <1>6, QueueAppended DEF IInv
    <2>2. k - 1 \in 1..Len(commands') /\ commands'[k - 1] = commands[(k - 1) + 1]
      <3>1. k - 1 \in 1..Len(commands)
        BY <1>1, <1>3
      <3> QED
        BY <1>3, <2>1, <3>1
    <2>3. commands'[k - 1] = commands[k]
      BY <1>3, <2>2
    <2> QED
      BY <1>2, <2>2, <2>3 DEF MoveAwaited
  <1> QED
    BY <1>5, <1>6

\* A performer keeps its holder when a command of another token is executed.
LEMMA HolderStays ==
  ASSUME IInv, Occupied, commands # <<>>, NEW t \in Tokens, performing = t,
         state'[t] = state[t],
         ~(Head(commands).name \in Moving /\ Head(commands).token = t),
         \/ commands' = Tail(commands)
         \/ \E cmd \in CommandSet : commands' = Append(Tail(commands), cmd)
  PROVE  state'[t] # "removed" /\ (state'[t] = "busy" \/ MoveAwaited(t)')
  BY OthersAwait DEF Occupied

\* A command appended for a token is awaited by it.
LEMMA AppendAwaits ==
  ASSUME TypeOK, commands # <<>>, NEW t \in Tokens, NEW name \in Moving,
         commands' = Append(Tail(commands), Command(name, t))
  PROVE  MoveAwaited(t)'
  <1>1. /\ Command(name, t) \in CommandSet
        /\ Command(name, t).name = name
        /\ Command(name, t).token = t
    BY DEF Command, CommandSet, Moving, TokenCommands
  <1>2. Len(commands') = Len(commands) /\ commands'[Len(commands)] = Command(name, t)
    BY <1>1, QueueAppended
  <1>3. Len(commands) \in 1..Len(commands')
    BY <1>2, QueueRest
  <1> QED
    BY <1>1, <1>2, <1>3 DEF MoveAwaited

\* Nobody is moved, gains or loses the performer or is listed: both stay true
\* when an event enqueues commands while there are none.
LEMMA EnqueueHolds ==
  ASSUME IInv, Held, Settled,
         state' = state, performing' = performing, pending' = pending
  PROVE  Held'
  <1>1. Len(commands) = 0
    BY DEF Settled
  <1>2. \A t \in Tokens : ~MoveAwaited(t)
    BY <1>1 DEF MoveAwaited
  <1>3. Occupied'
    BY <1>2 DEF Held, Occupied
  <1>4. ListedWaiting'
    BY DEF Held, ListedWaiting
  <1> QED
    BY <1>3, <1>4 DEF Held

\* While no command is to be executed, the performer is held by a busy activity.
LEMMA SettledBusy ==
  ASSUME Occupied, Settled, NEW t \in Tokens, performing = t
  PROVE  state[t] = "busy"
  <1>1. Len(commands) = 0
    BY DEF Settled
  <1> QED
    BY <1>1 DEF Occupied, MoveAwaited

\* A token that is not listed is appended: the list still names nobody twice.
LEMMA AppendLists ==
  ASSUME TypeOK, ListedWaiting, NEW t \in Tokens,
         \A k \in DOMAIN pending : pending[k] # t,
         pending' = Append(pending, t),
         state'[t] = "ready", performing' # t,
         \A u \in Tokens : u # t => state'[u] = state[u],
         performing' = performing \/ performing' = None
  PROVE  ListedWaiting'
  <1>1. /\ DOMAIN pending = 1..Len(pending)
        /\ DOMAIN pending' = 1..(Len(pending) + 1)
        /\ Len(pending) \in Nat
        /\ \A k \in 1..Len(pending) : pending'[k] = pending[k] /\ pending[k] \in Tokens
        /\ pending'[Len(pending) + 1] = t
    BY AppendProperties, LenProperties, ElementOfSeq DEF TypeOK
  <1>2. ASSUME NEW k \in DOMAIN pending'
        PROVE  \/ k \in 1..Len(pending) /\ pending'[k] # t
               \/ k = Len(pending) + 1 /\ pending'[k] = t
    BY <1>1
  <1>3. ASSUME NEW j \in DOMAIN pending', NEW k \in DOMAIN pending', pending'[j] = pending'[k]
        PROVE  j = k
    BY <1>1, <1>2, <1>3 DEF ListedWaiting
  <1>4. ASSUME NEW k \in DOMAIN pending'
        PROVE  state'[pending'[k]] \in {"ready", "removed"} /\ pending'[k] # performing'
    BY <1>1, <1>2, PerformerAssumption DEF ListedWaiting
  <1> QED
    BY <1>3, <1>4 DEF ListedWaiting

\* The list stays when a token that is not listed is moved, or tokens are
\* removed, and the performer keeps its holder or is released.
LEMMA ListStays ==
  ASSUME TypeOK, ListedWaiting, pending' = pending,
         performing' = performing \/ performing' = None,
         \A u \in Tokens : \/ state'[u] = state[u]
                           \/ state'[u] = "removed"
                           \/ \A k \in DOMAIN pending : pending[k] # u
  PROVE  ListedWaiting'
  <1>1. \A k \in DOMAIN pending : pending[k] \in Tokens
    BY LenProperties, ElementOfSeq DEF TypeOK
  <1> QED
    BY <1>1, PerformerAssumption DEF ListedWaiting

-----------------------------------------------------------------------------
LEMMA StartScopeHolds ==
  ASSUME IInv, Held, NEW s \in Scopes, StartScope(s)
  PROVE  Held'
  <1>1. \A t \in Tokens : state'[t] = state[t] \/ (state[t] = "absent" /\ state'[t] = "arrived")
    BY DEF IInv, TypeOK, StartScope
  <1>2. performing' = performing /\ pending' = pending /\ Settled
    BY DEF StartScope
  <1>3. ASSUME NEW t \in Tokens, performing' = t
        PROVE  state'[t] = "busy"
    BY <1>1, <1>2, <1>3, SettledBusy DEF Held
  <1>4. ListedWaiting'
    BY <1>1, <1>2, ListStays DEF IInv, Held, ListedWaiting
  <1> QED
    BY <1>3, <1>4 DEF Held, Occupied

LEMMA ReadyEventHolds ==
  ASSUME IInv, Held, NEW t \in Tokens, ReadyEvent(t)
  PROVE  Held'
  <1>1. /\ state[t] = "arrived" /\ state'[t] = "ready"
        /\ \A u \in Tokens : u # t => state'[u] = state[u]
        /\ performing' = performing /\ Settled
        /\ pending' = Append(pending, t)
    BY DEF IInv, TypeOK, ReadyEvent
  <1>2. performing # t
    BY <1>1, SettledBusy DEF Held
  <1>3. ASSUME NEW u \in Tokens, performing' = u
        PROVE  state'[u] = "busy"
    BY <1>1, <1>2, <1>3, SettledBusy DEF Held
  <1>4. \A k \in DOMAIN pending : pending[k] # t
    BY <1>1 DEF Held, ListedWaiting
  <1>5. ListedWaiting'
    BY <1>1, <1>2, <1>4, AppendLists DEF IInv, Held
  <1> QED
    BY <1>3, <1>5 DEF Held, Occupied

LEMMA EntryEventHolds ==
  ASSUME IInv, Held, NEW t \in Tokens, NEW basis \in {"current", "former"}, EntryEvent(t, basis)
  PROVE  Held'
  <1>1. /\ state' = state /\ state[t] = "ready" /\ performing' = t
        /\ commands' = <<Command("enter", t)>>
    BY DEF EntryEvent, Occupy
  <1>2. MoveAwaited(t)'
    BY <1>1 DEF MoveAwaited, Command, Moving
  <1>3. Occupied'
    BY <1>1, <1>2 DEF Occupied
  <1>4. PICK k \in DOMAIN pending : pending[k] = t /\ pending' = Without(pending, k)
    BY DEF EntryEvent, Occupy
  <1>5. /\ Len(pending) \in Nat /\ k \in 1..Len(pending) /\ DOMAIN pending = 1..Len(pending)
        /\ DOMAIN pending' = 1..(Len(pending) - 1)
        /\ \A i \in 1..(Len(pending) - 1) :
             pending'[i] = pending[IF i < k THEN i ELSE i + 1]
    BY <1>4, PositionsWithout DEF IInv, TypeOK
  <1> DEFINE at(i) == IF i < k THEN i ELSE i + 1
  <1>6. ASSUME NEW i \in DOMAIN pending'
        PROVE  at(i) \in DOMAIN pending /\ at(i) # k /\ pending'[i] = pending[at(i)]
    BY <1>5
  <1>7. ASSUME NEW i \in DOMAIN pending', NEW j \in DOMAIN pending', at(i) = at(j)
        PROVE  i = j
    BY <1>5, <1>7
  <1> HIDE DEF at
  <1>8. ASSUME NEW i \in DOMAIN pending', NEW j \in DOMAIN pending', pending'[i] = pending'[j]
        PROVE  i = j
    BY <1>6, <1>7, <1>8 DEF Held, ListedWaiting
  <1>9. ASSUME NEW i \in DOMAIN pending'
        PROVE  state'[pending'[i]] \in {"ready", "removed"} /\ pending'[i] # performing'
    BY <1>1, <1>4, <1>6, <1>9 DEF Held, ListedWaiting
  <1> QED
    BY <1>3, <1>8, <1>9 DEF Held, ListedWaiting

LEMMA InstallCopyHolds ==
  ASSUME IInv, Held, InstallCopy
  PROVE  Held'
  <1>1. /\ pending' \in Seq(Waiting)
        /\ \A j, k \in 1..Len(pending') : pending'[j] = pending'[k] => j = k
    BY WaitingCounted, OrderingIsSequence DEF InstallCopy
  <1>2. DOMAIN pending' = 1..Len(pending') /\ \A k \in DOMAIN pending' : pending'[k] \in Waiting
    BY <1>1, LenProperties, ElementOfSeq
  <1>3. \A t \in Waiting : state[t] = "ready" /\ performing # t
    BY DEF Waiting, Held, ListedWaiting
  <1>4. state' = state /\ performing' = performing /\ commands' = commands
    BY DEF InstallCopy
  <1>5. ListedWaiting'
    BY <1>1, <1>2, <1>3, <1>4 DEF ListedWaiting
  <1>6. Occupied'
    BY <1>4 DEF Held, Occupied, MoveAwaited
  <1> QED
    BY <1>5, <1>6 DEF Held

LEMMA SkipHolds ==
  ASSUME IInv, Held, Skip
  PROVE  Held'
  <1>1. /\ commands # <<>> /\ commands' = Tail(commands)
        /\ state' = state /\ performing' = performing /\ pending' = pending
        /\ state[Head(commands).token] = "removed"
    BY DEF Skip, Settled
  <1>2. ASSUME NEW u \in Tokens, performing' = u
        PROVE  state'[u] # "removed" /\ (state'[u] = "busy" \/ MoveAwaited(u)')
    <2>1. Head(commands).token # u
      BY <1>1, <1>2 DEF Held, Occupied
    <2> QED
      BY <1>1, <1>2, <2>1, HolderStays DEF Held
  <1>3. ListedWaiting'
    BY <1>1, ListStays DEF IInv, Held
  <1> QED
    BY <1>2, <1>3 DEF Held, Occupied

LEMMA EnterHolds ==
  ASSUME IInv, Held, NEW t \in Tokens, Runs("enter", t), Enter(t)
  PROVE  Held'
  <1>1. commands # <<>> /\ state[t] = "ready" /\ performing = t
    BY RunsKnown DEF TokenCommands, Moving, Expecting
  <1>2. /\ performing' = performing /\ pending' = pending
        /\ \A u \in Tokens : u # t => state'[u] = state[u]
    BY DEF IInv, TypeOK, Enter
  <1>3. \/ state'[t] = "busy"
        \/ state'[t] = "entered" /\ commands' = Append(Tail(commands), Command("fail", t))
    BY DEF IInv, TypeOK, Enter, Queue
  <1>4. state'[t] # "removed" /\ (state'[t] = "busy" \/ MoveAwaited(t)')
    BY <1>1, <1>3, AppendAwaits DEF IInv, Moving
  <1>5. \A k \in DOMAIN pending : pending[k] # t
    BY <1>1 DEF Held, ListedWaiting
  <1>6. ListedWaiting'
    BY <1>2, <1>5, ListStays DEF IInv, Held
  <1> QED
    BY <1>1, <1>2, <1>4, <1>6 DEF Held, Occupied

LEMMA CompleteHolds ==
  ASSUME IInv, Held, NEW t \in Tokens, Runs("complete", t), Complete(t)
  PROVE  Held'
  <1>1. commands # <<>> /\ state[t] = "busy"
    BY RunsKnown DEF TokenCommands, Moving, Expecting
  <1>2. performing = t
    BY <1>1 DEF IInv, MutualExclusion, Performed
  <1>3. /\ performing' = performing /\ pending' = pending
        /\ state'[t] = "completed"
        /\ \A u \in Tokens : u # t => state'[u] = state[u]
    BY DEF IInv, TypeOK, Complete
  <1>4. PICK name \in Moving : commands' = Append(Tail(commands), Command(name, t))
    BY DEF Complete, Queue, Moving
  <1>5. MoveAwaited(t)'
    BY <1>1, <1>4, AppendAwaits DEF IInv
  <1>6. \A k \in DOMAIN pending : pending[k] # t
    BY <1>1 DEF Held, ListedWaiting
  <1>7. ListedWaiting'
    BY <1>3, <1>6, ListStays DEF IInv, Held
  <1> QED
    BY <1>2, <1>3, <1>5, <1>7 DEF Held, Occupied

LEMMA FromCompletedHolds ==
  ASSUME IInv, Held, NEW t \in Tokens, Runs("fromCompleted", t), FromCompleted(t)
  PROVE  Held'
  <1>1. state[t] = "completed"
    BY RunsKnown DEF TokenCommands, Moving, Expecting
  <1>2. performing' = None /\ None \notin Tokens
    BY PerformerAssumption DEF FromCompleted
  <1>3. \A u \in Tokens : u # t => state'[u] = state[u]
    BY DEF IInv, TypeOK, FromCompleted
  <1>4. \A k \in DOMAIN pending : pending[k] # t
    BY <1>1 DEF Held, ListedWaiting
  <1>5. ListedWaiting'
    <2>1. CASE state' = [state EXCEPT ![t] = "ready"] /\ pending' = Append(pending, t)
      <3>1. state'[t] = "ready" /\ performing' # t
        BY <1>2, <2>1 DEF IInv, TypeOK
      <3> QED
        BY <1>2, <1>3, <1>4, <2>1, <3>1, AppendLists DEF IInv, Held
    <2>2. CASE pending' = pending
      BY <1>2, <1>3, <1>4, <2>2, ListStays DEF IInv, Held
    <2> QED
      BY <2>1, <2>2 DEF FromCompleted
  <1> QED
    BY <1>2, <1>5 DEF Held, Occupied

LEMMA FailHolds ==
  ASSUME IInv, Held, NEW t \in Tokens, Runs("fail", t), Fail(t)
  PROVE  Held'
  <1>1. state[t] \in {"entered", "busy", "completed"}
    BY RunsKnown DEF TokenCommands, Moving, Expecting
  <1>2. performing = t
    BY <1>1 DEF IInv, MutualExclusion, Performed
  <1>3. performing' = None /\ None \notin Tokens /\ pending' = pending
    BY <1>2, PerformerAssumption DEF Fail, ReleaseOnFailure, Release
  <1>4. \A u \in Tokens : u # t => state'[u] = state[u]
    BY DEF IInv, TypeOK, Fail
  <1>5. \A k \in DOMAIN pending : pending[k] # t
    BY <1>1 DEF Held, ListedWaiting
  <1>6. ListedWaiting'
    BY <1>3, <1>4, <1>5, ListStays DEF IInv, Held
  <1> QED
    BY <1>3, <1>6 DEF Held, Occupied

LEMMA HandleFailureHolds ==
  ASSUME IInv, Held, NEW t \in Tokens, Runs("handleFailure", t), HandleFailure(t)
  PROVE  Held'
  <1>1. commands # <<>> /\ Head(commands).name = "handleFailure"
    BY RunsKnown DEF TokenCommands
  <1>2. state' = state /\ performing' = performing /\ pending' = pending
    BY DEF HandleFailure
  <1>3. \E cmd \in CommandSet : commands' = Append(Tail(commands), cmd)
    BY PerformerAssumption DEF HandleFailure, Queue, Command, Withdrawal, CommandSet, TokenCommands
  <1>4. ASSUME NEW u \in Tokens, performing' = u
        PROVE  state'[u] # "removed" /\ (state'[u] = "busy" \/ MoveAwaited(u)')
    BY <1>1, <1>2, <1>3, <1>4, HolderStays DEF Held, Moving
  <1>5. ListedWaiting'
    BY <1>2, ListStays DEF IInv, Held
  <1> QED
    BY <1>4, <1>5 DEF Held, Occupied

\* A token that holds the performer has not failed, so that it always releases
\* the performer when it is withdrawn.
LEMMA RemoveHolds ==
  ASSUME IInv, Held, commands # <<>>, Head(commands).name \notin Moving,
         NEW gone \in SUBSET Tokens, Remove(gone)
  PROVE  Held'
  <1>1. /\ commands' = Tail(commands) /\ pending' = pending
        /\ \A u \in Tokens : state'[u] = IF u \in gone THEN "removed" ELSE state[u]
    BY DEF Remove
  <1>2. ASSUME NEW u \in Tokens, performing = u
        PROVE  state[u] # "failed"
    <2>1. CASE MoveAwaited(u)
      <3>1. PICK k \in 1..Len(commands) : commands[k].name \in Moving /\ commands[k].token = u
        BY <2>1 DEF MoveAwaited
      <3>2. state[u] # "removed"
        BY <1>2 DEF Held, Occupied
      <3>3. state[u] \in Expecting(commands[k].name)
        BY <3>1, <3>2 DEF IInv, MovingExpected
      <3> QED
        BY <3>3 DEF Expecting
    <2> QED
      BY <1>2, <2>1 DEF Held, Occupied
  <1>3. \/ performing' = None /\ None \notin Tokens
        \/ performing' = performing /\ performing \notin gone
    BY <1>2, PerformerAssumption DEF Remove, Withdraw, Release
  <1>4. ASSUME NEW u \in Tokens, performing' = u
        PROVE  state'[u] # "removed" /\ (state'[u] = "busy" \/ MoveAwaited(u)')
    <2>1. performing = u /\ state'[u] = state[u]
      BY <1>1, <1>3, <1>4
    <2> QED
      BY <1>1, <2>1, HolderStays DEF Held
  <1>5. ListedWaiting'
    BY <1>1, <1>3, ListStays DEF IInv, Held
  <1> QED
    BY <1>4, <1>5 DEF Held, Occupied

-----------------------------------------------------------------------------
LEMMA InitHolds == Init => Held
  <1> SUFFICES ASSUME Init PROVE Held
    OBVIOUS
  <1>1. DOMAIN pending = {} /\ performing \notin Tokens
    BY PerformerAssumption DEF Init
  <1> QED
    BY <1>1 DEF Held, Occupied, ListedWaiting

\* Every step keeps the performer held by whom it may be held by, and the list
\* naming whom it may name.
LEMMA NextHolds == IInv /\ Held /\ [Next]_vars => Held'
  <1> SUFFICES ASSUME IInv, Held, [Next]_vars PROVE Held'
    OBVIOUS
  <1>1. ASSUME NEW s \in Scopes, StartScope(s) PROVE Held'
    BY <1>1, StartScopeHolds
  <1>2. ASSUME NEW t \in Tokens, ReadyEvent(t) PROVE Held'
    BY <1>2, ReadyEventHolds
  <1>3. ASSUME NEW t \in Tokens, NEW basis \in {"current", "former"}, EntryEvent(t, basis)
        PROVE  Held'
    BY <1>3, EntryEventHolds
  <1>4. CASE Trigger \/ \E t \in Tokens : CompletionEvent(t)
    BY <1>4, EnqueueHolds DEF Trigger, CompletionEvent
  <1>5. CASE InstallCopy
    BY <1>5, InstallCopyHolds
  <1>6. CASE Skip
    BY <1>6, SkipHolds
  <1>7. ASSUME NEW t \in Tokens, ExecuteFor(t)
        PROVE  Held'
    <2>1. CASE Runs("enter", t) /\ Enter(t)
      BY <2>1, EnterHolds
    <2>2. CASE Runs("complete", t) /\ Complete(t)
      BY <2>2, CompleteHolds
    <2>3. CASE Runs("fromCompleted", t) /\ FromCompleted(t)
      BY <2>3, FromCompletedHolds
    <2>4. CASE Runs("fail", t) /\ Fail(t)
      BY <2>4, FailHolds
    <2>5. CASE Runs("handleFailure", t) /\ HandleFailure(t)
      BY <2>5, HandleFailureHolds
    <2>6. CASE Runs("interrupt", t) /\ Remove({t})
      <3>1. commands # <<>> /\ Head(commands).name \notin Moving
        BY <2>6, RunsKnown DEF TokenCommands, Moving
      <3> QED
        BY <2>6, <3>1, RemoveHolds
    <2> QED
      BY <1>7, <2>1, <2>2, <2>3, <2>4, <2>5, <2>6 DEF ExecuteFor
  <1>8. ASSUME NEW s \in Scopes, ExecuteWithdrawal(s)
        PROVE  Held'
    <2>1. commands # <<>> /\ Head(commands).name \notin Moving
      BY <1>8 DEF ExecuteWithdrawal, Settled, Withdrawal, Moving
    <2>2. Present(s) \in SUBSET Tokens /\ Remove(Present(s))
      BY <1>8 DEF ExecuteWithdrawal, Present
    <2> QED
      BY <2>1, <2>2, RemoveHolds
  <1>9. CASE UNCHANGED vars
    BY <1>9 DEF vars, Held, Occupied, MoveAwaited, ListedWaiting
  <1> QED
    BY <1>1, <1>2, <1>3, <1>4, <1>5, <1>6, <1>7, <1>8, <1>9 DEF Next, Execute

\* Once an event is processed, the performer is held by a child activity that is
\* busy: each that completed, failed or was withdrawn has released it, whatever
\* commands had been enqueued for it.
THEOREM BusyHolds == Spec => []HeldByBusy
  <1>1. IInv /\ Held => HeldByBusy
    BY SettledBusy DEF IInv, TypeOK, Held, HeldByBusy
  <1> QED
    BY InitOK, InitHolds, NextOK, NextHolds, <1>1, PTL DEF Spec

\* A child awaiting entry that is not being entered is listed.
LEMMA AwaitingListed ==
  ASSUME IInv, Served, Held, NEW t \in Tokens, state[t] = "ready",
         ~(\E k \in DOMAIN commands : commands[k] = Command("enter", t))
  PROVE  \E k \in DOMAIN pending : pending[k] = t
  <1>1. ASSUME performing = t PROVE FALSE
    <2>1. PICK k \in 1..Len(commands) : commands[k].name \in Moving /\ commands[k].token = t
      BY <1>1 DEF Held, Occupied, MoveAwaited
    <2>2. commands[k].name = "enter"
      BY <2>1 DEF IInv, MovingExpected, Expecting, Moving
    <2>3. commands[k] \in CommandSet /\ k \in DOMAIN commands
      BY <2>1, ElementOfSeq, LenProperties DEF IInv, TypeOK
    <2>4. commands[k] = Command("enter", t)
      BY <2>1, <2>2, <2>3 DEF CommandSet, Command
    <2> QED
      BY <2>3, <2>4
  <1> QED
    BY <1>1 DEF Served, ReadyListed, Waiting

\* The performer lists every child awaiting entry once, however often it looped
\* and whatever was withdrawn or copied in between: no child is forgotten and
\* none can be entered twice.
THEOREM EachListedOnce == Spec => []ListedOnce
  <1>1. IInv /\ Served /\ Held => ListedOnce
    <2> SUFFICES ASSUME IInv, Served, Held, NEW t \in Tokens, state[t] = "ready",
                        ~(\E k \in DOMAIN commands : commands[k] = Command("enter", t))
                 PROVE  Cardinality({k \in DOMAIN pending : pending[k] = t}) = 1
      BY DEF ListedOnce
    <2>1. PICK k \in DOMAIN pending : pending[k] = t
      BY AwaitingListed
    <2>2. {j \in DOMAIN pending : pending[j] = t} = {k}
      BY <2>1 DEF Held, ListedWaiting
    <2> QED
      BY <2>2, FS_Singleton
  <1> QED
    BY InitOK, InitServes, InitHolds, NextOK, NextServes, NextHolds, <1>1, PTL DEF Spec
=============================================================================
