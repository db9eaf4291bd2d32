------------------------ MODULE MessageExchangeProofs ------------------------
(***************************************************************************)
(* A message is sent once, is where its recipient finds it, and is         *)
(* delivered once; the send task that waits for it waits as long as it is  *)
(* there: for every collaboration, in the runs of DecisionCandidates.      *)
(*                                                                         *)
(* What happens to a message is said by lists that are kept apart from it, *)
(* and by commands that are run later.  The invariants therefore say what  *)
(* a list may hold and what a command in the queue may be about.           *)
(***************************************************************************)
EXTENDS DecisionCandidatesProofs, FiniteSetTheorems, SequenceTheorems

Stages == {"pending", "live", "ended"}
Sent == {m \in Tokens : message[m] # "none"}

\* A list holds messages that have been sent, an inbox those of its machine.
Lists ==
  /\ stage \in [Machines -> Stages]
  /\ archive \subseteq Machines
  /\ unsent \subseteq Sent /\ outbox \subseteq Sent
  /\ DOMAIN inbox \subseteq Machines
  /\ \A k \in Machines : Inbox(k) \subseteq {m \in Sent : Recipient(m) = k}

\* A command to complete a send task is about one that is through.
Bound ==
  {c \in [type : {"enter", "complete", "trigger"}, token : Tokens] :
     c.type = "complete" /\ IsSendTask(c.token) => at[c.token] \in {"completing", "gone"}}
CommandsBound == commands \in Seq(Bound)

\* The first half of SendersExact.
SendTasks ==
  \A t \in {x \in Tokens : IsSendTask(x)} :
    /\ message[t] = "created" => at[t] = "busy"
    /\ message[t] = "withdrawn" /\ at[t] = "busy" =>
         Recipient(t) # None /\ stage[Recipient(t)] = "ended"
    /\ at[t] = "completing" => message[t] = "delivered"

\* A message is delivered to one receiver, or else instantiates a process.
Instantiates(m) == ProcessesTriggered(model, model.node[m]) # {}
Received ==
  /\ content \in [Tokens -> Tokens \cup {None}]
  /\ \A r \in Tokens : content[r] # None =>
       /\ at[r] \in {"completing", "gone"}
       /\ message[content[r]] = "delivered"
       /\ ~Instantiates(content[r])
  /\ \A r, s \in Tokens : content[r] = content[s] /\ content[r] # None => r = s
  /\ \A m \in Tokens : message[m] = "delivered" /\ ~Instantiates(m) =>
       \E r \in Tokens : content[r] = m

Exchanged == Lists /\ CommandsBound /\ SendTasks /\ Received

-----------------------------------------------------------------------------
(* The steps of the exchange *)

Notices == {[type |-> "complete", token |-> u] : u \in {v \in Tokens : Kind(v) = "condition"}}

\* What a step of the engine or of a round does to tokens and messages.
Exchanges ==
  \/ \E m \in Machines : StartInstance(m) \/ StartPart(m) \/ EndMachine(m)
  \/ Skip
  \/ \E t \in Tokens :
       \/ Interrupt(t) \/ EnterEvent(t) \/ CompleteEvent(t) \/ TriggerCommandRun(t)
       \/ \E through \in BOOLEAN : Arrive(t, through) /\ (through => Kind(t) = "condition")
       \/ \E noticed \in Seq(Notices) :
            Throw(t, noticed) \/ EnterCommand(t, noticed) \/ CompleteCommand(t, noticed)
       \/ \E m \in Tokens : Deliver(t, m) /\ Candidate(t, m)
  \/ UNCHANGED exchangeVars

\* The tokens noticed are notified by a sequence of commands.
LEMMA CommandsAreSeq ==
  ASSUME NEW S, IsFiniteSet(S)
  PROVE  Commands(S) \in Seq({[type |-> "complete", token |-> u] : u \in S})
  <1>1. Cardinality(S) \in Nat /\ ExistsBijection(1..Cardinality(S), S)
    BY FS_CardinalityType
  <1>2. \E f \in [1..Cardinality(S) -> S] : IsInjective(f)
    BY <1>1 DEF ExistsBijection, Bijection, Injection
  <1>3. SetToSeq(S) \in [1..Cardinality(S) -> S]
    BY <1>2 DEF SetToSeq
  <1>4. \A i \in 1..Cardinality(S) :
          [type |-> "complete", token |-> SetToSeq(S)[i]]
            \in {[type |-> "complete", token |-> u] : u \in S}
    BY <1>3
  <1> DEFINE n == Cardinality(S)
             e(i) == [type |-> "complete", token |-> SetToSeq(S)[i]]
             T == {[type |-> "complete", token |-> u] : u \in S}
  <1>5. n \in Nat /\ \A i \in 1..n : e(i) \in T
    BY <1>1, <1>4
  <1>6. Commands(S) = [i \in 1..n |-> e(i)]
    BY DEF Commands
  <1> HIDE DEF n, e, T
  <1>7. [i \in 1..n |-> e(i)] \in Seq(T)
    BY <1>5, IsASeq
  <1> QED
    BY <1>6, <1>7 DEF T

LEMMA NoticesAreSeq ==
  ASSUME Lifecycle, Conditions, NEW t, NEW values
  PROVE  ByNotice(t, values) \in Seq(Notices) /\ <<>> \in Seq(Notices)
  <1> DEFINE S == Noticed(Announced(t), values)
  <1>1. S \subseteq {v \in Tokens : Kind(v) = "condition"}
    BY DEF Noticed, Conditions, Waits
  <1>2. IsFiniteSet(S)
    <2>1. IsFiniteSet(Tokens)
      BY CollaborationsAssumption DEF Lifecycle, Tokens
    <2> QED
      BY <1>1, <2>1, FS_Subset
  <1>3. ByNotice(t, values) = Commands(S)
    BY DEF ByNotice
  <1>4. {[type |-> "complete", token |-> u] : u \in S} \subseteq Notices
    BY <1>1 DEF Notices
  <1> HIDE DEF S
  <1>5. Commands(S) \in Seq({[type |-> "complete", token |-> u] : u \in S})
    BY <1>2, CommandsAreSeq
  <1>6. Commands(S) \in Seq(Notices)
    BY <1>4, <1>5, SeqMonotonic
  <1> QED
    BY <1>3, <1>6, EmptySeq

LEMMA EngineExchanges ==
  ASSUME Lifecycle, Conditions, Engine
  PROVE  Exchanges /\ installs' = installs
  <1>1. CASE Starts
    BY <1>1 DEF Starts, Exchanges, KeepsData
  <1>2. CASE Interrupts
    BY <1>2 DEF Interrupts, Exchanges
  <1>3. CASE Arrives
    <2>1. PICK t \in Tokens : /\ Arrive(t, Kind(t) = "condition" /\ Holds(t, data))
                              /\ installs' = installs
      BY <1>3 DEF Arrives
    <2>2. PICK through \in BOOLEAN : through = (Kind(t) = "condition" /\ Holds(t, data))
      OBVIOUS
    <2> QED
      BY <2>1, <2>2 DEF Exchanges
  <1>4. CASE Sends
    BY <1>4, NoticesAreSeq DEF Sends, Exchanges, Applies
  <1>5. CASE TaskDone
    BY <1>5 DEF TaskDone, Exchanges, KeepsData
  <1>6. CASE Enters
    BY <1>6, NoticesAreSeq DEF Enters, Exchanges, KeepsData, Applies
  <1>7. CASE Completes
    BY <1>7, NoticesAreSeq DEF Completes, Exchanges, KeepsData, Applies
  <1>8. CASE OtherCommands
    BY <1>8 DEF OtherCommands, Exchanges, KeepsData
  <1> QED
    BY <1>1, <1>2, <1>3, <1>4, <1>5, <1>6, <1>7, <1>8 DEF Engine, Commanded

\* A round dispatches what the controller has gathered, and this is exact.
LEMMA DispatchExchanges ==
  ASSUME Lifecycle, Gathered, DOMAIN evaluation = Caches, Dispatch
  PROVE  Exchanges /\ installs' = installs
  <1> PICK entries \in SUBSET ToEvaluate(Entries) :
         DispatchEntry(entries) \/ DispatchDirect(entries)
           \/ DispatchChoice(entries) \/ DispatchBest(entries)
    BY DEF Dispatch
  <1>1. ASSUME NEW c \in Caches, NEW some \in SUBSET ToEvaluate(c), NEW d \in DOMAIN Evaluated(c, some)
        PROVE  d \in Past(c) /\ d[1] \in Tokens
    <2>1. d \in pending[c] \cup DOMAIN evaluation[c]
      BY <1>1 DEF Evaluated, Kept, ToEvaluate, Ticked, TimeDependent
    <2> QED
      BY <2>1, CachedTokens DEF Gathered, CacheExact
  <1>2. ASSUME NEW d \in PastPairs
        PROVE  d[1] \in Tokens /\ d[2] \in Tokens /\ Candidate(d[1], d[2])
    BY <1>2 DEF PastPairs, Matching
  <1>3. CASE DispatchEntry(entries)
    <2>1. Entries \in Caches
      BY DEF Caches
    <2> DEFINE evaluations == [evaluation EXCEPT ![Entries] = Evaluated(Entries, entries)]
    <2>2. PICK o \in Offers({Entries}, evaluations) : EnterEvent(o[2][1])
      BY <1>3 DEF DispatchEntry, Best
    <2>3. o[2] \in DOMAIN evaluations[Entries]
      BY <2>2 DEF Offers
    <2>4. o[2][1] \in Tokens
      BY <1>1, <2>1, <2>3
    <2> QED
      BY <1>3, <2>2, <2>4 DEF Exchanges, DispatchEntry, KeepsData
  <1>4. CASE DispatchDirect(entries)
    <2>1. PICK p \in direct : Deliver(p[1], p[2])
      BY <1>4 DEF DispatchDirect
    <2>2. p \in PastPairs
      BY <2>1 DEF Gathered, DirectExact, Directed
    <2> QED
      BY <1>2, <1>4, <2>1, <2>2 DEF Exchanges, DispatchDirect, KeepsData
  <1>5. CASE DispatchChoice(entries)
    BY <1>5 DEF DispatchChoice, Exchanges
  <1>6. CASE DispatchBest(entries)
    <2> DEFINE evaluations == AllEvaluated(entries)
    <2>1. PICK o \in Offers({Sequential, Deliveries}, evaluations) :
            IF o[2][2] = None THEN EnterEvent(o[2][1]) ELSE Deliver(o[2][1], o[2][2])
      BY <1>6 DEF DispatchBest, Best, Competing
    <2>2. PICK c \in {Sequential, Deliveries} : o[2] \in DOMAIN evaluations[c]
      BY <2>1 DEF Offers
    <2>3. c \in Caches /\ c # Entries /\ Sequential # Deliveries
      BY <2>2 DEF Caches, Entries, Sequential, Deliveries
    <2>4. o[2] \in DOMAIN Evaluated(c, ToEvaluate(c))
      BY <2>2, <2>3 DEF AllEvaluated
    <2> HIDE DEF evaluations
    <2>5. o[2] \in Past(c) /\ o[2][1] \in Tokens
      BY <1>1, <2>3, <2>4
    <2>6. CASE o[2][2] = None
      BY <1>6, <2>1, <2>5, <2>6 DEF Exchanges, DispatchBest, KeepsData
    <2>7. CASE o[2][2] # None
      <3>1. c = Deliveries
        BY <2>2, <2>3, <2>5, <2>7 DEF Past, EntriesOf
      <3>2. o[2] \in PastPairs
        BY <2>5, <3>1 DEF Past
      <3> QED
        BY <1>2, <1>6, <2>1, <2>7, <3>2 DEF Exchanges, DispatchBest, KeepsData
    <2> QED
      BY <2>6, <2>7
  <1> QED
    BY <1>3, <1>4, <1>5, <1>6

\* Every step is a step of the exchange, or installs a copy of the state.
LEMMA NextExchanges ==
  ASSUME Lifecycle, Conditions, ~aborted => Gathered, DOMAIN evaluation = Caches, [Next]_vars
  PROVE  \/ Exchanges /\ installs' = installs
         \/ Install /\ installs' = installs + 1
  <1>1. CASE Engine
    BY <1>1, EngineExchanges
  <1>2. CASE Dispatch
    <2>1. ~aborted
      BY <1>2 DEF Dispatch, DispatchEntry, DispatchDirect, DispatchChoice, DispatchBest,
           EnterEvent, CompleteEvent, Deliver, Settled
    <2> QED
      BY <1>2, <2>1, DispatchExchanges
  <1>3. CASE \E entries \in SUBSET ToEvaluate(Entries) : Tick(entries)
    BY <1>3 DEF Tick, Exchanges
  <1>4. CASE InstallState
    BY <1>4 DEF InstallState
  <1>5. CASE UNCHANGED vars
    BY <1>5 DEF vars, Exchanges
  <1> QED
    BY <1>1, <1>2, <1>3, <1>4, <1>5 DEF Next, Engine

\* Every cache holds evaluations.
EveryCache == DOMAIN evaluation = Caches

LEMMA CachesKept == EveryCache /\ [Next]_vars => EveryCache'
  <1> SUFFICES ASSUME DOMAIN evaluation = Caches, [Next]_vars PROVE DOMAIN evaluation' = Caches
    BY DEF EveryCache
  <1>1. CASE Engine
    <2>1. PICK update : Told(update)
      BY <1>1, EngineTells
    <2> QED
      BY <2>1 DEF Told
  <1>2. CASE Dispatch
    <2>1. PICK caches, entries : Evaluate(caches, entries)
      BY <1>2 DEF Dispatch, DispatchEntry, DispatchDirect, DispatchChoice, DispatchBest
    <2> QED
      BY <2>1 DEF Evaluate
  <1>3. CASE \E entries \in SUBSET ToEvaluate(Entries) : Tick(entries)
    BY <1>3 DEF Tick, Evaluate
  <1>4. CASE InstallState
    BY <1>4 DEF InstallState, ToldInstalled, controllerVars
  <1>5. CASE UNCHANGED vars
    BY <1>5 DEF vars, controllerVars
  <1> QED
    BY <1>1, <1>2, <1>3, <1>4, <1>5 DEF Next, Engine

-----------------------------------------------------------------------------
(* The lists *)

\* How a step treats the lists and the messages in them.
ListStep ==
  \/ /\ Pool' \subseteq Pool
     /\ \E k \in Machines : stage[k] = "pending" /\ Register(k)
  \/ /\ \E k \in Machines : Destroy(Destroyed(k))
     /\ UNCHANGED <<archive, unsent, outbox>>
  \/ /\ \E t \in Tokens : at[t] \in {"created", "entering"} /\ Post(t)
     /\ UNCHANGED <<stage, archive>>
  \/ Pool' \subseteq Pool /\ UNCHANGED <<stage, archive, unsent, inbox, outbox>>

\* A message that is consumed leaves the pool.
LEMMA ConsumedShrinks ==
  ASSUME Lifecycle, model' = model, NEW m \in Tokens, NEW s \in {"delivered", "withdrawn"},
         message' = [message EXCEPT ![m] = s]
  PROVE  Pool' \subseteq Pool
  BY DEF Lifecycle, Pool, Tokens

LEMMA ExchangesLists ==
  ASSUME Lifecycle, Exchanges
  PROVE  ListStep
  <1>1. ASSUME UNCHANGED <<model, message>> PROVE Pool' \subseteq Pool
    BY <1>1 DEF Pool, Tokens
  <1>2. ASSUME NEW m \in Machines, StartInstance(m) \/ StartPart(m) \/ EndMachine(m)
        PROVE  ListStep
    BY <1>1, <1>2 DEF StartInstance, StartPart, EndMachine, ListStep
  <1>3. CASE Skip
    BY <1>1, <1>3 DEF Skip, ListStep
  <1>4. ASSUME NEW t \in Tokens,
               EnterEvent(t) \/ CompleteEvent(t) \/ \E through \in BOOLEAN : Arrive(t, through)
        PROVE  ListStep
    BY <1>1, <1>4 DEF EnterEvent, CompleteEvent, Arrive, ListStep
  <1>5. ASSUME NEW t \in Tokens, Interrupt(t)
        PROVE  ListStep
    <2>1. Pool' \subseteq Pool
      BY <1>1, <1>5, ConsumedShrinks DEF Interrupt
    <2> QED
      BY <1>5, <2>1 DEF Interrupt, ListStep
  <1>6. ASSUME NEW t \in Tokens, TriggerCommandRun(t)
        PROVE  ListStep
    <2>1. Pool' \subseteq Pool
      BY <1>6, ConsumedShrinks DEF TriggerCommandRun
    <2> QED
      BY <1>6, <2>1 DEF TriggerCommandRun, ListStep
  <1>7. ASSUME NEW t \in Tokens, NEW noticed, Throw(t, noticed)
        PROVE  ListStep
    BY <1>7 DEF Throw, Idle, ListStep
  <1>8. ASSUME NEW t \in Tokens, NEW noticed, EnterCommand(t, noticed)
        PROVE  ListStep
    BY <1>1, <1>8 DEF EnterCommand, ListStep
  <1>9. ASSUME NEW t \in Tokens, NEW noticed, CompleteCommand(t, noticed)
        PROVE  ListStep
    BY <1>1, <1>9 DEF CompleteCommand, ListStep
  <1>10. ASSUME NEW t \in Tokens, NEW m \in Tokens, Deliver(t, m)
         PROVE  ListStep
    <2>1. Pool' \subseteq Pool
      BY <1>10, ConsumedShrinks DEF Deliver
    <2> QED
      BY <1>10, <2>1 DEF Deliver, ListStep
  <1>11. CASE UNCHANGED exchangeVars
    BY <1>1, <1>11 DEF exchangeVars, ListStep
  <1> QED
    BY <1>2, <1>3, <1>4, <1>5, <1>6, <1>7, <1>8, <1>9, <1>10, <1>11 DEF Exchanges

\* An inbox that gains messages, and no other is changed.
LEMMA InboxGains ==
  ASSUME NEW m, NEW new, inbox' = InboxWith(m, new)
  PROVE  /\ \A k : Inbox(k)' = IF k = m THEN Inbox(k) \cup new ELSE Inbox(k)
         /\ DOMAIN inbox' \subseteq DOMAIN inbox \cup {m}
  <1>1. CASE new = {}
    BY <1>1 DEF InboxWith, Inbox
  <1>2. CASE new # {}
    <2>1. inbox' = [k \in DOMAIN inbox \cup {m} |-> IF k = m THEN Inbox(m) \cup new ELSE inbox[k]]
      BY <1>2 DEF InboxWith
    <2> QED
      BY <2>1 DEF Inbox
  <1> QED
    BY <1>1, <1>2

LEMMA PostInboxes ==
  ASSUME NEW t \in Tokens, Post(t)
  PROVE  /\ \A k : Inbox(k)' = IF /\ Recipient(t) # None /\ k = Recipient(t)
                                  /\ k \in archive /\ stage[k] = "live"
                               THEN Inbox(k) \cup {t} ELSE Inbox(k)
         /\ DOMAIN inbox' \subseteq DOMAIN inbox \cup archive
  <1>1. CASE Recipient(t) # None /\ Recipient(t) \in archive /\ stage[Recipient(t)] = "live"
    <2>1. inbox' = InboxWith(Recipient(t), {t})
      BY <1>1 DEF Post
    <2> QED
      BY <1>1, <2>1, InboxGains
  <1>2. CASE ~(Recipient(t) # None /\ Recipient(t) \in archive /\ stage[Recipient(t)] = "live")
    <2>1. inbox' = inbox
      BY <1>2 DEF Post
    <2> QED
      BY <1>2, <2>1 DEF Inbox
  <1> QED
    BY <1>1, <1>2

\* The inboxes a destroyed machine leaves behind.
LEMMA DestroyInboxes ==
  ASSUME NEW machines, Destroy(machines)
  PROVE  /\ \A k : Inbox(k)' = IF k \in machines /\ model.part[k] # "activity" THEN {} ELSE Inbox(k)
         /\ DOMAIN inbox' \subseteq DOMAIN inbox
         /\ stage' = [k \in Machines |-> IF k \in machines THEN "ended" ELSE stage[k]]
         /\ \A m \in Tokens : /\ message'[m] \in {message[m], "withdrawn"}
                              /\ message'[m] # message[m] => m \in Pool
                              /\ \A k \in machines : /\ model.part[k] # "activity"
                                                     /\ m \in Inbox(k) /\ m \in Pool
                                   => message'[m] = "withdrawn"
  <1> DEFINE withdrawing == {k \in machines : model.part[k] # "activity"}
             sending == {t \in {u \in Tokens : model.owner[u] \in machines} :
                           IsSendTask(t) /\ at[t] = "busy"}
             lost == (UNION {Inbox(k) : k \in withdrawing}) \cup sending
  <1>1. inbox' = [k \in DOMAIN inbox \ withdrawing |-> inbox[k]]
    BY DEF Destroy
  <1>2. stage' = [k \in Machines |-> IF k \in machines THEN "ended" ELSE stage[k]]
    BY DEF Destroy
  <1>3. message' = [x \in Tokens |-> IF x \in lost \cap Pool THEN "withdrawn" ELSE message[x]]
    BY DEF Destroy
  <1>4. \A k : Inbox(k)' = IF k \in withdrawing THEN {} ELSE Inbox(k)
    BY <1>1 DEF Inbox
  <1>5. \A k \in withdrawing : Inbox(k) \subseteq lost
    OBVIOUS
  <1> HIDE DEF lost, sending
  <1> QED
    BY <1>1, <1>2, <1>3, <1>4, <1>5

LEMMA SentStays ==
  ASSUME Lifecycle, Advances
  PROVE  Sent \subseteq Sent' /\ Tokens' = Tokens /\ Machines' = Machines
  BY DEF Advances, Onwards, Sent, Tokens, Machines

\* A copy holds messages like those it has copied, at process instances only.
LEMMA InstallLists ==
  ASSUME Lists, Install
  PROVE  Lists'
  <1>1. /\ model' = model /\ stage' = stage /\ message' = message
        /\ Sent' = Sent /\ Machines' = Machines
    BY DEF Install, Sent, Tokens, Machines
  <1>2. CASE UNCHANGED <<archive, unsent, inbox, outbox>>
    BY <1>1, <1>2 DEF Lists, Inbox, Recipient
  <1>3. ASSUME NEW found \in [Pool -> Pool],
               \A x \in Pool : Alike(x, found[x]),
               LET copied(list) == {found[x] : x \in list \cap Pool}
                   known == {k \in archive : model.part[k] = "process" /\ stage[k] = "live"}
               IN /\ archive' = known
                  /\ unsent' = copied(unsent)
                  /\ outbox' = copied(outbox)
                  /\ inbox' = [k \in {k \in known \cap DOMAIN inbox : inbox[k] \cap Pool # {}}
                                 |-> copied(inbox[k])]
        PROVE  Lists'
    <2>1. \A x \in Pool : found[x] \in Sent /\ Recipient(found[x]) = Recipient(x)
      BY <1>3 DEF Pool, Sent, Alike
    <2>2. archive' \subseteq archive /\ DOMAIN inbox' \subseteq archive
      BY <1>3
    <2>3. unsent' \subseteq Sent /\ outbox' \subseteq Sent
      BY <1>3, <2>1
    <2>4. ASSUME NEW k \in Machines, NEW m \in Inbox(k)'
          PROVE  m \in Sent /\ Recipient(m) = k
      <3>1. k \in DOMAIN inbox' /\ m \in inbox'[k]
        BY <2>4 DEF Inbox
      <3>2. k \in DOMAIN inbox /\ \E x \in inbox[k] \cap Pool : m = found[x]
        BY <1>3, <3>1
      <3>3. PICK x \in Inbox(k) \cap Pool : m = found[x]
        BY <3>2 DEF Inbox
      <3> QED
        BY <2>1, <3>3 DEF Lists
    <2>5. \A k \in Machines : Inbox(k)' \subseteq {m \in Sent : Recipient(m) = k}'
      BY <1>1, <2>4 DEF Recipient
    <2> QED
      BY <1>1, <2>2, <2>3, <2>5 DEF Lists
  <1> QED
    BY <1>2, <1>3 DEF Install

LEMMA ListsKept ==
  ASSUME Lifecycle, Advances, Lists, Exchanges
  PROVE  Lists'
  <1>1. /\ model' = model /\ Sent \subseteq Sent' /\ Tokens' = Tokens /\ Machines' = Machines
        /\ \A m : Recipient(m)' = Recipient(m)
    BY SentStays DEF Advances, Onwards, Recipient
  <1>2. ListStep
    BY ExchangesLists
  <1>3. CASE \E k \in Machines : stage[k] = "pending" /\ Register(k)
    <2> PICK m \in Machines : stage[m] = "pending" /\ Register(m)
      BY <1>3
    <2> DEFINE kept == {x \in unsent \cap Pool : Recipient(x) = m}
    <2>1. /\ stage' = [stage EXCEPT ![m] = "live"] /\ archive' = archive \cup {m}
          /\ inbox' = InboxWith(m, kept) /\ outbox' = outbox \cup kept /\ unsent' \subseteq unsent
      BY DEF Register
    <2>2. kept \subseteq {x \in Sent : Recipient(x) = m}
      BY DEF Lists
    <2> HIDE DEF kept
    <2>3. /\ \A k : Inbox(k)' = IF k = m THEN Inbox(k) \cup kept ELSE Inbox(k)
          /\ DOMAIN inbox' \subseteq DOMAIN inbox \cup {m}
      BY <2>1, InboxGains
    <2>4. stage' \in [Machines -> Stages]
      BY <2>1 DEF Lists, Stages
    <2>5. \A k \in Machines : Inbox(k)' \subseteq {x \in Sent : Recipient(x) = k}
      BY <2>2, <2>3 DEF Lists
    <2> QED
      BY <1>1, <2>1, <2>2, <2>3, <2>4, <2>5 DEF Lists
  <1>4. CASE (\E k \in Machines : Destroy(Destroyed(k))) /\ UNCHANGED <<archive, unsent, outbox>>
    <2> PICK m \in Machines : Destroy(Destroyed(m))
      BY <1>4
    <2>1. /\ \A k : Inbox(k)' \subseteq Inbox(k)
          /\ DOMAIN inbox' \subseteq DOMAIN inbox
          /\ stage' = [k \in Machines |-> IF k \in Destroyed(m) THEN "ended" ELSE stage[k]]
      BY DestroyInboxes
    <2>2. stage' \in [Machines -> Stages]
      BY <2>1 DEF Lists, Stages
    <2> QED
      BY <1>1, <1>4, <2>1, <2>2 DEF Lists
  <1>5. CASE (\E t \in Tokens : Post(t)) /\ UNCHANGED <<stage, archive>>
    <2> PICK t \in Tokens : Post(t)
      BY <1>5
    <2>1. message' = [message EXCEPT ![t] = "created"]
      BY DEF Post
    <2>2. t \in Sent'
      BY <1>1, <2>1 DEF Sent, Lifecycle
    <2>3. unsent' \subseteq unsent \cup {t} /\ outbox' \subseteq outbox \cup {t}
      BY DEF Post
    <2>4. /\ \A k : Inbox(k)' \subseteq Inbox(k) \cup {t}
          /\ \A k : k # Recipient(t) => Inbox(k)' = Inbox(k)
          /\ DOMAIN inbox' \subseteq DOMAIN inbox \cup archive
      BY PostInboxes
    <2>5. \A k \in Machines : Inbox(k)' \subseteq {x \in Sent' : Recipient(x) = k}
      BY <1>1, <2>2, <2>4 DEF Lists
    <2> QED
      BY <1>1, <1>5, <2>2, <2>3, <2>4, <2>5 DEF Lists
  <1>6. CASE UNCHANGED <<stage, archive, unsent, inbox, outbox>>
    BY <1>1, <1>6 DEF Lists, Inbox
  <1> QED
    BY <1>2, <1>3, <1>4, <1>5, <1>6 DEF ListStep

-----------------------------------------------------------------------------
(* The commands *)

LEMMA Appended ==
  ASSUME NEW S, NEW T, S \subseteq T, NEW old \in Seq(S), NEW new \in Seq(T)
  PROVE  /\ old \in Seq(T) /\ old \o new \in Seq(T)
         /\ old # <<>> => Tail(old) \in Seq(T) /\ Tail(old) \o new \in Seq(T) /\ Head(old) \in S
  <1>1. old \in Seq(T)
    BY SeqMonotonic
  <1>2. old # <<>> => Head(old) \in S /\ Tail(old) \in Seq(T)
    BY <1>1, HeadTailProperties
  <1> QED
    BY <1>1, <1>2, ConcatProperties

LEMMA OneCommand ==
  ASSUME NEW S, NEW c \in S
  PROVE  <<c>> \in Seq(S)
  OBVIOUS

\* A send task that is through stays so.
LEMMA BoundGrows ==
  ASSUME Lifecycle, Advances
  PROVE  Bound \subseteq Bound'
  <1>1. /\ Tokens' = Tokens /\ \A t : IsSendTask(t)' = IsSendTask(t)
        /\ \A t \in Tokens : at'[t] \in TokenStates
    BY DEF Advances, Onwards, Lifecycle, Tokens, IsSendTask, Kind
  <1>2. \A t \in Tokens : at[t] \in {"completing", "gone"} => at'[t] \in {"completing", "gone"}
    BY <1>1 DEF Advances, Onwards, TokenStates
  <1> QED
    BY <1>1, <1>2 DEF Bound

\* The commands that may be given after a step.
LEMMA BoundCommands ==
  ASSUME model' = model, NEW t \in Tokens
  PROVE  /\ [type |-> "enter", token |-> t] \in Bound'
         /\ [type |-> "trigger", token |-> t] \in Bound'
         /\ ~IsSendTask(t) \/ at'[t] \in {"completing", "gone"} =>
              [type |-> "complete", token |-> t] \in Bound'
  BY DEF Bound, Tokens, IsSendTask, Kind

LEMMA BoundSequences ==
  ASSUME model' = model, NEW t \in Tokens
  PROVE  /\ Seq(Notices) \subseteq Seq(Bound')
         /\ TriggerCommand(t) \in Seq(Bound')
         /\ (IsSendTask(t) => at'[t] \in {"completing", "gone"}) => Completing(t) \in Seq(Bound')
  <1>1. Notices \subseteq Bound'
    BY BoundCommands DEF Notices, IsSendTask
  <1>2. Seq(Notices) \subseteq Seq(Bound')
    BY <1>1, SeqMonotonic
  <1>3. /\ <<>> \in Seq(Bound') /\ <<[type |-> "trigger", token |-> t]>> \in Seq(Bound')
        /\ at'[t] \in {"completing", "gone"} =>
             <<[type |-> "complete", token |-> t]>> \in Seq(Bound')
    BY BoundCommands, OneCommand, EmptySeq
  <1> QED
    BY <1>2, <1>3 DEF TriggerCommand, Completing

LEMMA CommandsKept ==
  ASSUME Lifecycle, Advances, CommandsBound, Exchanges
  PROVE  CommandsBound'
  <1>1. /\ Bound \subseteq Bound' /\ commands \in Seq(Bound) /\ model' = model
        /\ at \in [Tokens -> TokenStates]
    BY BoundGrows DEF CommandsBound, Advances, Onwards, Lifecycle
  <1>2. ASSUME commands' = commands \/ (commands # <<>> /\ commands' = Tail(commands))
        PROVE  CommandsBound'
    BY <1>1, <1>2, Appended, EmptySeq DEF CommandsBound
  <1>3. ASSUME NEW new \in Seq(Bound'),
               commands' = commands \o new \/ (commands # <<>> /\ commands' = Tail(commands) \o new)
        PROVE  CommandsBound'
    BY <1>1, <1>3, Appended DEF CommandsBound
  <1>4. ASSUME NEW m \in Machines, StartInstance(m) \/ StartPart(m) \/ EndMachine(m)
        PROVE  CommandsBound'
    BY <1>2, <1>4 DEF StartInstance, StartPart, EndMachine
  <1>5. CASE Skip
    BY <1>2, <1>5 DEF Skip
  <1>6. ASSUME NEW t \in Tokens, Interrupt(t)
        PROVE  CommandsBound'
    BY <1>2, <1>6 DEF Interrupt
  <1>7. ASSUME NEW t \in Tokens, EnterEvent(t) \/ CompleteEvent(t)
        PROVE  CommandsBound'
    <2>1. PICK c \in Bound' : commands' = commands \o <<c>>
      BY <1>1, <1>7, BoundCommands DEF EnterEvent, CompleteEvent, Enqueue, IsSendTask
    <2>2. <<c>> \in Seq(Bound')
      BY OneCommand
    <2> QED
      BY <1>3, <2>1, <2>2
  <1>8. ASSUME NEW t \in Tokens, TriggerCommandRun(t)
        PROVE  CommandsBound'
    <2>1. commands # <<>> /\ commands' = Tail(commands) \o Completing(t)
      BY <1>8 DEF TriggerCommandRun, IsNext
    <2>2. IsSendTask(t) => at'[t] \in {"completing", "gone"}
      BY <1>1, <1>8 DEF TriggerCommandRun
    <2>3. Completing(t) \in Seq(Bound')
      BY <1>1, <2>2, BoundSequences
    <2> QED
      BY <1>3, <2>1, <2>3
  <1>9. ASSUME NEW t \in Tokens, NEW through \in BOOLEAN, Arrive(t, through),
               through => Kind(t) = "condition"
        PROVE  CommandsBound'
    <2>1. CASE through
      <3>1. commands' = commands \o <<[type |-> "complete", token |-> t]>>
        BY <1>9, <2>1 DEF Arrive, Enqueue
      <3>2. [type |-> "complete", token |-> t] \in Bound'
        BY <1>1, <1>9, <2>1, BoundCommands DEF IsSendTask
      <3>3. <<[type |-> "complete", token |-> t]>> \in Seq(Bound')
        BY <3>2, OneCommand
      <3> QED
        BY <1>3, <3>1, <3>3
    <2>2. CASE ~through
      <3>1. commands' = commands \o <<>>
        BY <1>9, <2>2 DEF Arrive, Enqueue
      <3>2. <<>> \in Seq(Bound')
        BY EmptySeq
      <3> QED
        BY <1>3, <3>1, <3>2
    <2> QED
      BY <2>1, <2>2
  <1>10. ASSUME NEW t \in Tokens, NEW noticed \in Seq(Notices), Throw(t, noticed)
         PROVE  CommandsBound'
    <2>1. commands' = commands \o (noticed \o TriggerCommand(t))
      BY <1>10 DEF Throw, Enqueue
    <2>2. noticed \o TriggerCommand(t) \in Seq(Bound')
      BY <1>1, BoundSequences, ConcatProperties
    <2> QED
      BY <1>3, <2>1, <2>2
  <1>11. ASSUME NEW t \in Tokens, NEW noticed \in Seq(Notices), EnterCommand(t, noticed)
         PROVE  CommandsBound'
    <2>1. noticed \in Seq(Bound') /\ TriggerCommand(t) \in Seq(Bound')
      BY <1>1, BoundSequences
    <2>2. commands # <<>>
      BY <1>11 DEF EnterCommand, IsNext
    <2>3. CASE commands' = Tail(commands) \o noticed
      BY <1>3, <2>1, <2>2, <2>3
    <2>4. CASE commands' = Tail(commands) \o noticed \o TriggerCommand(t)
      <3>1. Tail(commands) \o noticed \in Seq(Bound')
        BY <1>1, <2>1, <2>2, Appended
      <3> QED
        BY <2>1, <2>4, <3>1, ConcatProperties DEF CommandsBound
    <2> QED
      BY <1>11, <2>3, <2>4 DEF EnterCommand
  <1>12. ASSUME NEW t \in Tokens, NEW noticed \in Seq(Notices), CompleteCommand(t, noticed)
         PROVE  CommandsBound'
    <2>1. noticed \in Seq(Bound')
      BY <1>1, BoundSequences
    <2>2. commands # <<>> /\ commands' = Tail(commands) \o noticed
      BY <1>12 DEF CompleteCommand, IsNext
    <2> QED
      BY <1>3, <2>1, <2>2
  <1>13. ASSUME NEW t \in Tokens, NEW m \in Tokens, Deliver(t, m)
         PROVE  CommandsBound'
    <2>1. /\ commands' = commands \o (Completing(m) \o <<[type |-> "complete", token |-> t]>>)
          /\ at'[t] = "completing" /\ (IsSendTask(m) => at'[m] = "completing")
      BY <1>13 DEF Deliver, Enqueue
    <2>2. Completing(m) \in Seq(Bound')
      BY <1>1, <2>1, BoundSequences
    <2>3. <<[type |-> "complete", token |-> t]>> \in Seq(Bound')
      BY <1>1, <2>1, BoundCommands, OneCommand
    <2>4. Completing(m) \o <<[type |-> "complete", token |-> t]>> \in Seq(Bound')
      BY <2>2, <2>3, ConcatProperties
    <2> QED
      BY <1>3, <2>1, <2>4
  <1>14. CASE UNCHANGED exchangeVars
    BY <1>2, <1>14 DEF exchangeVars
  <1> QED
    BY <1>4, <1>5, <1>6, <1>7, <1>8, <1>9, <1>10, <1>11, <1>12, <1>13, <1>14 DEF Exchanges

-----------------------------------------------------------------------------
(* The send tasks *)

LEMMA RecipientTyped ==
  ASSUME Lifecycle, NEW t \in Tokens
  PROVE  Recipient(t) \in Machines \cup {None} /\ None \notin Machines
  BY CollaborationsAssumption DEF Lifecycle, Tokens, Machines, Recipient

\* What is over stays so.
LEMMA EndedStays ==
  ASSUME Lists, ListStep, model' = model, NEW k \in Machines, stage[k] = "ended"
  PROVE  stage'[k] = "ended"
  <1>1. CASE \E m \in Machines : stage[m] = "pending" /\ Register(m)
    BY <1>1 DEF Register, Lists
  <1>2. CASE \E m \in Machines : Destroy(Destroyed(m))
    BY <1>2, DestroyInboxes
  <1>3. CASE stage' = stage
    BY <1>3
  <1> QED
    BY <1>1, <1>2, <1>3 DEF ListStep

\* A message is withdrawn with its recipient, or with its sender.
LEMMA DestroySenders ==
  ASSUME NEW machines, Destroy(machines)
  PROVE  \A t \in Tokens :
         /\ at'[t] = IF model.owner[t] \in machines THEN "gone" ELSE at[t]
         /\ message'[t] # message[t] =>
              /\ t \in Pool /\ message'[t] = "withdrawn"
              /\ \/ \E k \in machines : t \in Inbox(k)
                 \/ model.owner[t] \in machines
         /\ model.owner[t] \in machines /\ IsSendTask(t) /\ at[t] = "busy" /\ t \in Pool =>
              message'[t] = "withdrawn"
  <1> DEFINE withdrawing == {k \in machines : model.part[k] # "activity"}
             gone == {t \in Tokens : model.owner[t] \in machines}
             received == UNION {Inbox(k) : k \in withdrawing}
             sending == {t \in gone : IsSendTask(t) /\ at[t] = "busy"}
             lost == received \cup sending
  <1>1. at' = [t \in Tokens |-> IF t \in gone THEN "gone" ELSE at[t]]
    BY DEF Destroy
  <1>2. message' = [x \in Tokens |-> IF x \in lost \cap Pool THEN "withdrawn" ELSE message[x]]
    BY DEF Destroy
  <1>3. \A t \in received : \E k \in machines : t \in Inbox(k)
    OBVIOUS
  <1>4. \A t \in Tokens : t \in gone <=> model.owner[t] \in machines
    OBVIOUS
  <1> HIDE DEF gone, received
  <1>5. \A t : t \in lost <=> t \in received \/ (t \in gone /\ IsSendTask(t) /\ at[t] = "busy")
    OBVIOUS
  <1> HIDE DEF lost, sending
  <1> QED
    BY <1>1, <1>2, <1>3, <1>4, <1>5

LEMMA SendTasksKept ==
  ASSUME Lifecycle, Lists, CommandsBound, SendTasks, Exchanges
  PROVE  SendTasks'
  <1> DEFINE WaitsExactly(t) ==
        /\ message[t] = "created" => at[t] = "busy"
        /\ message[t] = "withdrawn" /\ at[t] = "busy" =>
             Recipient(t) # None /\ stage[Recipient(t)] = "ended"
        /\ at[t] = "completing" => message[t] = "delivered"
  <1>1. model' = model
    BY DEF Exchanges, StartInstance, StartPart, EndMachine, Skip, Interrupt, EnterEvent, CompleteEvent,
         TriggerCommandRun, Arrive, Throw, EnterCommand, CompleteCommand, Deliver, exchangeVars
  <1>2. ListStep
    BY ExchangesLists
  <1>3. /\ at \in [Tokens -> TokenStates] /\ message \in [Tokens -> MessageStates]
        /\ \A u \in Tokens : at[u] \in {"created", "ready", "entering"} => message[u] = "none"
    BY DEF Lifecycle
  <1> SUFFICES ASSUME NEW t \in Tokens, IsSendTask(t) PROVE WaitsExactly(t)'
    BY <1>1 DEF SendTasks, Tokens, IsSendTask, Kind
  <1>4. WaitsExactly(t)
    BY DEF SendTasks
  <1>5. Recipient(t)' = Recipient(t)
    BY <1>1 DEF Recipient
  <1>6. Recipient(t) # None /\ stage[Recipient(t)] = "ended" => stage'[Recipient(t)] = "ended"
    BY <1>1, <1>2, EndedStays, RecipientTyped
  <1>7. ASSUME at'[t] = at[t], message'[t] = message[t] PROVE WaitsExactly(t)'
    BY <1>4, <1>5, <1>6, <1>7
  <1>8. ASSUME NEW m \in Machines, StartInstance(m) \/ StartPart(m) \/ EndMachine(m)
        PROVE  WaitsExactly(t)'
    <2>1. CASE StartInstance(m) \/ StartPart(m)
      BY <1>7, <2>1 DEF StartInstance, StartPart
    <2>2. CASE EndMachine(m)
      <3>1. Destroy(Destroyed(m))
        BY <2>2 DEF EndMachine
      <3>2. /\ at'[t] = IF model.owner[t] \in Destroyed(m) THEN "gone" ELSE at[t]
            /\ message'[t] # message[t] =>
                 /\ t \in Pool /\ message'[t] = "withdrawn"
                 /\ (\E k \in Destroyed(m) : t \in Inbox(k)) \/ model.owner[t] \in Destroyed(m)
            /\ model.owner[t] \in Destroyed(m) /\ IsSendTask(t) /\ at[t] = "busy" /\ t \in Pool =>
                 message'[t] = "withdrawn"
        BY <3>1, DestroySenders
      <3>3. ASSUME NEW k \in Destroyed(m), t \in Inbox(k)
            PROVE  Recipient(t) # None /\ stage'[Recipient(t)] = "ended"
        <4>1. k \in Machines /\ Recipient(t) = k
          BY <3>3 DEF Destroyed, Lists
        <4>2. stage'[k] = "ended"
          BY <3>1, <4>1, DestroyInboxes
        <4> QED
          BY <4>1, <4>2, RecipientTyped
      <3>4. message[t] = "created" <=> t \in Pool
        BY DEF Pool
      <3> QED
        BY <1>3, <1>4, <1>5, <1>6, <3>2, <3>3, <3>4
    <2> QED
      BY <1>8, <2>1, <2>2
  <1>9. CASE Skip
    BY <1>7, <1>9 DEF Skip
  <1>10. ASSUME NEW u \in Tokens, Interrupt(u)
         PROVE  WaitsExactly(t)'
    <2>1. at'[t] = IF t = u THEN "gone" ELSE at[t]
      BY <1>3, <1>10 DEF Interrupt
    <2>2. message'[t] = IF t = u /\ at[t] = "busy" /\ message[t] = "created"
                        THEN "withdrawn" ELSE message[t]
      BY <1>3, <1>10 DEF Interrupt, Pool
    <2> QED
      BY <1>4, <1>5, <1>6, <2>1, <2>2
  <1>11. ASSUME NEW u \in Tokens, EnterEvent(u) \/ CompleteEvent(u)
         PROVE  WaitsExactly(t)'
    <2>1. message' = message /\ (t # u => at'[t] = at[t])
      BY <1>3, <1>11 DEF EnterEvent, CompleteEvent
    <2>2. CASE t = u
      <3>1. at[t] = "ready" /\ at'[t] = "entering"
        BY <1>3, <1>11, <2>2 DEF EnterEvent, CompleteEvent, AwaitsEntry, IsSendTask
      <3> QED
        BY <1>3, <2>1, <3>1
    <2> QED
      BY <1>7, <2>1, <2>2
  <1>12. ASSUME NEW u \in Tokens, TriggerCommandRun(u)
         PROVE  WaitsExactly(t)'
    <2>1. /\ message'[t] = IF t = u THEN "delivered" ELSE message[t]
          /\ at'[t] = IF t = u THEN "completing" ELSE at[t]
      BY <1>3, <1>12 DEF TriggerCommandRun
    <2> QED
      BY <1>7, <2>1
  <1>13. ASSUME NEW u \in Tokens, NEW through, Arrive(u, through)
         PROVE  WaitsExactly(t)'
    <2>1. message' = message /\ (t # u => at'[t] = at[t])
      BY <1>3, <1>13 DEF Arrive
    <2>2. CASE t = u
      <3>1. at[t] = "created" /\ at'[t] = "ready"
        BY <1>3, <1>13, <2>2 DEF Arrive, Idle, IsSendTask, Activities
      <3> QED
        BY <1>3, <2>1, <3>1
    <2> QED
      BY <1>7, <2>1, <2>2
  <1>14. ASSUME NEW u \in Tokens, NEW noticed, Throw(u, noticed)
         PROVE  WaitsExactly(t)'
    <2>1. t # u
      BY <1>14 DEF Throw, IsSendTask
    <2> QED
      BY <1>3, <1>7, <1>14, <2>1 DEF Throw, Post
  <1>15. ASSUME NEW u \in Tokens, NEW noticed, EnterCommand(u, noticed)
         PROVE  WaitsExactly(t)'
    <2>1. CASE t = u
      <3>1. at'[t] = "busy" /\ message'[t] = "created"
        BY <1>3, <1>15, <2>1 DEF EnterCommand, Post
      <3> QED
        BY <3>1
    <2>2. CASE t # u
      <3>1. at'[t] = at[t]
        BY <1>3, <1>15, <2>2 DEF EnterCommand
      <3>2. message'[t] = message[t]
        BY <1>3, <1>15, <2>2 DEF EnterCommand, Post
      <3> QED
        BY <1>7, <3>1, <3>2
    <2> QED
      BY <2>1, <2>2
  <1>16. ASSUME NEW u \in Tokens, NEW noticed, CompleteCommand(u, noticed)
         PROVE  WaitsExactly(t)'
    <2>1. message' = message /\ at'[t] = IF t = u THEN "gone" ELSE at[t]
      BY <1>3, <1>16 DEF CompleteCommand
    <2>2. CASE t = u
      <3>1. Head(commands) \in Bound
        BY <1>16, HeadTailProperties DEF CompleteCommand, IsNext, CommandsBound
      <3>2. at[t] = "completing"
        BY <1>16, <2>2, <3>1 DEF CompleteCommand, IsNext, Bound
      <3> QED
        BY <1>4, <2>1, <2>2, <3>2
    <2> QED
      BY <1>7, <2>1, <2>2
  <1>17. ASSUME NEW u \in Tokens, NEW m \in Tokens, Deliver(u, m)
         PROVE  WaitsExactly(t)'
    <2>1. t # u
      BY <1>17 DEF Deliver, AwaitsDelivery, IsSendTask, Catching
    <2>2. /\ message'[t] = IF t = m THEN "delivered" ELSE message[t]
          /\ at'[t] = IF t = m THEN "completing" ELSE at[t]
      BY <1>3, <1>17, <2>1 DEF Deliver
    <2> QED
      BY <1>7, <2>2
  <1>18. CASE UNCHANGED exchangeVars
    BY <1>7, <1>18 DEF exchangeVars
  <1> QED
    BY <1>8, <1>9, <1>10, <1>11, <1>12, <1>13, <1>14, <1>15, <1>16, <1>17, <1>18 DEF Exchanges

-----------------------------------------------------------------------------
(* The receivers *)

\* A message that instantiates a process is a candidate for no request: the
\* model is refused otherwise.
LEMMA CandidatesInstantiateNothing ==
  ASSUME Lifecycle, NEW r \in Tokens, NEW m \in Tokens, Candidate(r, m)
  PROVE  ~Instantiates(m)
  <1>1. <<model.node[m], model.node[r]>> \in MessageCandidates(model)
    BY CollaborationsAssumption DEF Lifecycle, Candidate
  <1>2. /\ model.node[r] \in Catches(model)
        /\ model.name[model.node[m]] = model.name[model.node[r]]
    BY <1>1 DEF MessageCandidates
  <1>3. model.kind[model.node[r]] # "processStart"
    BY CollaborationsAssumption DEF Lifecycle, Tokens
  <1>4. ASSUME Instantiates(m) PROVE FALSE
    <2>1. PICK p \in Nodes(model) :
            \E trigger \in TriggerOf(model, p) :
              model.name[trigger] = model.name[model.node[m]]
      BY <1>4 DEF Instantiates, ProcessesTriggered
    <2>2. PICK trigger \in TriggerOf(model, p) :
            model.name[trigger] = model.name[model.node[m]]
      BY <2>1
    <2>3. model.node[r] = trigger
      BY <1>2, <2>2, CollaborationsAssumption DEF Lifecycle, ValidTriggers
    <2> QED
      BY <1>3, <2>2, <2>3 DEF TriggerOf
  <1> QED
    BY <1>4

\* Nothing is received by a step, and what is consumed instantiates a process.
LEMMA ContentKept ==
  ASSUME Lifecycle, Advances, Received, content' = content,
         \A m \in Tokens :
           /\ message[m] = "delivered" => message'[m] = "delivered"
           /\ message'[m] = "delivered" => message[m] = "delivered" \/ Instantiates(m)
  PROVE  Received'
  <1>1. /\ Tokens' = Tokens /\ \A m : Instantiates(m)' = Instantiates(m)
        /\ \A t \in Tokens : at'[t] \in TokenStates
    BY DEF Advances, Onwards, Lifecycle, Tokens, Instantiates
  <1>2. \A t \in Tokens : at[t] \in {"completing", "gone"} => at'[t] \in {"completing", "gone"}
    BY <1>1 DEF Advances, Onwards, TokenStates
  <1>3. \A r \in Tokens : content[r] # None =>
          /\ at'[r] \in {"completing", "gone"}
          /\ message'[content[r]] = "delivered"
          /\ ~Instantiates(content[r])
    BY <1>2 DEF Received
  <1>4. \A m \in Tokens : message'[m] = "delivered" /\ ~Instantiates(m) =>
          \E r \in Tokens : content[r] = m
    BY DEF Received
  <1> QED
    BY <1>1, <1>3, <1>4 DEF Received

LEMMA DeliverReceives ==
  ASSUME Lifecycle, Advances, Received, NEW r \in Tokens, NEW m \in Tokens,
         Deliver(r, m), Candidate(r, m)
  PROVE  Received'
  <1>1. /\ Tokens' = Tokens /\ \A x : Instantiates(x)' = Instantiates(x)
        /\ \A t \in Tokens : at'[t] \in TokenStates
    BY DEF Advances, Onwards, Lifecycle, Tokens, Instantiates
  <1>2. \A t \in Tokens : at[t] \in {"completing", "gone"} => at'[t] \in {"completing", "gone"}
    BY <1>1 DEF Advances, Onwards, TokenStates
  <1>3. /\ content' = [content EXCEPT ![r] = m]
        /\ message' = [message EXCEPT ![m] = "delivered"]
        /\ at'[r] = "completing" /\ at[r] = "busy" /\ message[m] = "created"
    BY DEF Deliver, AwaitsDelivery, Pool
  <1>4. /\ content' \in [Tokens -> Tokens \cup {None}]
        /\ \A s \in Tokens : content'[s] = IF s = r THEN m ELSE content[s]
    BY <1>3 DEF Received
  <1>5. \A x \in Tokens : message'[x] = IF x = m THEN "delivered" ELSE message[x]
    BY <1>3 DEF Lifecycle
  <1>6. ~Instantiates(m) /\ m # None /\ content[r] = None
    BY <1>3, CandidatesInstantiateNothing, NoneIsNoToken DEF Received
  <1>7. ASSUME NEW s \in Tokens, s # r, content[s] # None
        PROVE  content[s] \in Tokens /\ content[s] # m
    BY <1>3, <1>7 DEF Received
  <1>8. \A s \in Tokens : content'[s] # None =>
          /\ at'[s] \in {"completing", "gone"}
          /\ message'[content'[s]] = "delivered"
          /\ ~Instantiates(content'[s])
    BY <1>2, <1>3, <1>4, <1>5, <1>6, <1>7 DEF Received
  <1>9. \A s, u \in Tokens : content'[s] = content'[u] /\ content'[s] # None => s = u
    BY <1>4, <1>7 DEF Received
  <1>10. ASSUME NEW x \in Tokens, message'[x] = "delivered", ~Instantiates(x)
         PROVE  \E s \in Tokens : content'[s] = x
    <2>1. CASE x = m
      BY <1>4, <2>1
    <2>2. CASE x # m
      <3>1. PICK s \in Tokens : content[s] = x
        BY <1>5, <1>10, <2>2 DEF Received
      <3>2. s # r
        BY <1>6, <3>1, NoneIsNoToken
      <3> QED
        BY <1>4, <3>1, <3>2
    <2> QED
      BY <2>1, <2>2
  <1> QED
    BY <1>1, <1>4, <1>8, <1>9, <1>10 DEF Received

LEMMA ReceivedKept ==
  ASSUME Lifecycle, Advances, Received, Exchanges
  PROVE  Received'
  <1>1. message \in [Tokens -> MessageStates]
    BY DEF Lifecycle
  <1>2. ASSUME content' = content, message' = message PROVE Received'
    BY <1>2, ContentKept
  <1>3. ASSUME NEW m \in Machines, StartInstance(m) \/ StartPart(m) \/ EndMachine(m)
        PROVE  Received'
    <2>1. CASE StartInstance(m) \/ StartPart(m)
      BY <1>2, <2>1 DEF StartInstance, StartPart
    <2>2. CASE EndMachine(m)
      <3>1. Destroy(Destroyed(m)) /\ content' = content
        BY <2>2 DEF EndMachine
      <3>2. \A t \in Tokens : \/ message'[t] = message[t]
                              \/ message[t] = "created" /\ message'[t] = "withdrawn"
        BY <3>1, DestroySenders DEF Pool
      <3> QED
        BY <3>1, <3>2, ContentKept
    <2> QED
      BY <1>3, <2>1, <2>2
  <1>4. CASE Skip
    BY <1>2, <1>4 DEF Skip
  <1>5. ASSUME NEW t \in Tokens,
               \/ EnterEvent(t) \/ CompleteEvent(t)
               \/ \E through : Arrive(t, through)
               \/ \E noticed : CompleteCommand(t, noticed)
        PROVE  Received'
    BY <1>2, <1>5 DEF EnterEvent, CompleteEvent, Arrive, CompleteCommand
  <1>6. ASSUME NEW t \in Tokens, Interrupt(t)
        PROVE  Received'
    <2>1. \A m \in Tokens : \/ message'[m] = message[m]
                            \/ message[m] = "created" /\ message'[m] = "withdrawn"
      BY <1>1, <1>6 DEF Interrupt, Pool
    <2> QED
      BY <1>6, <2>1, ContentKept DEF Interrupt
  <1>7. ASSUME NEW t \in Tokens, TriggerCommandRun(t)
        PROVE  Received'
    <2>1. \A m \in Tokens : message'[m] = IF m = t THEN "delivered" ELSE message[m]
      BY <1>1, <1>7 DEF TriggerCommandRun
    <2>2. Instantiates(t) /\ content' = content
      BY <1>7 DEF TriggerCommandRun, Instantiates
    <2> QED
      BY <2>1, <2>2, ContentKept
  <1>8. ASSUME NEW t \in Tokens, NEW noticed, Throw(t, noticed) \/ EnterCommand(t, noticed)
        PROVE  Received'
    <2>1. content' = content /\ at[t] \in {"created", "entering"}
      BY <1>8 DEF Throw, Idle, EnterCommand
    <2>2. message' = message \/ message' = [message EXCEPT ![t] = "created"]
      BY <1>8 DEF Throw, EnterCommand, Post
    <2>3. message[t] = "none"
      BY <2>1 DEF Lifecycle
    <2>4. \A m \in Tokens : \/ message'[m] = message[m]
                            \/ message[m] = "none" /\ message'[m] = "created"
      BY <1>1, <2>2, <2>3
    <2> QED
      BY <2>1, <2>4, ContentKept
  <1>9. ASSUME NEW t \in Tokens, NEW m \in Tokens, Deliver(t, m), Candidate(t, m)
        PROVE  Received'
    BY <1>9, DeliverReceives
  <1>10. CASE UNCHANGED exchangeVars
    BY <1>2, <1>10 DEF exchangeVars
  <1> QED
    BY <1>3, <1>4, <1>5, <1>6, <1>7, <1>8, <1>9, <1>10 DEF Exchanges

-----------------------------------------------------------------------------
(* Each message reaches one receiver *)

LEMMA InstallExchanged ==
  ASSUME Lifecycle, Exchanged, Install
  PROVE  Exchanged'
  <1>1. UNCHANGED <<model, stage, at, message, content, commands>>
    BY DEF Install
  <1>2. Lists'
    BY InstallLists DEF Exchanged
  <1>3. CommandsBound'
    BY <1>1 DEF Exchanged, CommandsBound, Bound, Tokens, IsSendTask, Kind
  <1>4. SendTasks'
    BY <1>1 DEF Exchanged, SendTasks, Tokens, IsSendTask, Kind, Recipient
  <1>5. Received'
    BY <1>1 DEF Exchanged, Received, Tokens, Instantiates
  <1> QED
    BY <1>2, <1>3, <1>4, <1>5 DEF Exchanged

LEMMA ExchangedKept ==
  Lifecycle /\ Conditions /\ (~aborted => Gathered) /\ EveryCache /\ Exchanged /\ [Next]_vars
    => Exchanged'
  <1> SUFFICES ASSUME Lifecycle, Conditions, ~aborted => Gathered, DOMAIN evaluation = Caches,
                      Exchanged, [Next]_vars
               PROVE  Exchanged'
    BY DEF EveryCache
  <1>1. Advances
    BY NextAdvances
  <1>2. Exchanges \/ Install
    BY NextExchanges
  <1>3. CASE Exchanges
    BY <1>1, <1>3, ListsKept, CommandsKept, SendTasksKept, ReceivedKept DEF Exchanged
  <1>4. CASE Install
    BY <1>4, InstallExchanged
  <1> QED
    BY <1>2, <1>3, <1>4

LEMMA InitExchanged == Init => Exchanged /\ EveryCache
  <1> SUFFICES ASSUME Init PROVE Exchanged /\ EveryCache
    OBVIOUS
  <1>1. Lists
    BY DEF Init, ExchangeInit, Lists, Stages, Inbox
  <1>2. CommandsBound
    BY EmptySeq DEF Init, ExchangeInit, CommandsBound
  <1>3. SendTasks
    BY DEF Init, ExchangeInit, SendTasks
  <1>4. Received
    BY DEF Init, ExchangeInit, Received
  <1> QED
    BY <1>1, <1>2, <1>3, <1>4 DEF Init, Exchanged, EveryCache

\* The receivers are counted.
LEMMA ExchangedExact == Lifecycle /\ Exchanged => SendersExact
  <1> SUFFICES ASSUME Lifecycle, Exchanged PROVE SendersExact
    OBVIOUS
  <1> DEFINE receivers(m) == {r \in Tokens : content[r] = m}
             expected(m) == IF message[m] = "delivered" /\ ProcessesTriggered(model, model.node[m]) = {}
                            THEN 1 ELSE 0
  <1>1. ASSUME NEW m \in Tokens PROVE Cardinality(receivers(m)) = expected(m)
    <2>1. m # None
      BY NoneIsNoToken
    <2>2. CASE message[m] = "delivered" /\ ~Instantiates(m)
      <3>1. PICK r \in Tokens : content[r] = m
        BY <2>2 DEF Exchanged, Received
      <3>2. receivers(m) = {r}
        BY <2>1, <3>1 DEF Exchanged, Received
      <3>3. Cardinality(receivers(m)) = 1
        BY <3>2, FS_Singleton
      <3> QED
        BY <2>2, <3>3 DEF Instantiates
    <2>3. CASE ~(message[m] = "delivered" /\ ~Instantiates(m))
      <3>1. receivers(m) = {}
        BY <2>1, <2>3 DEF Exchanged, Received
      <3>2. Cardinality(receivers(m)) = 0
        BY <3>1, FS_EmptySet
      <3> QED
        BY <2>3, <3>2 DEF Instantiates
    <2> QED
      BY <2>2, <2>3
  <1>2. SendTasks
    BY DEF Exchanged
  <1>3. \A m \in Tokens : Cardinality(receivers(m)) = expected(m)
    BY <1>1
  <1> QED
    BY <1>2, <1>3, ZenonT(60) DEF SendersExact, SendTasks

\* A send task waits as long as its message is there, or for good if that was
\* withdrawn with its recipient, and completes with a delivery; a message that is
\* delivered has one receiver, or has instantiated a process.
THEOREM DeliveredOnce == Spec => []SendersExact
  <1>1. Init => (~aborted => Gathered)
    BY InitGathers
  <1> QED
    BY <1>1, InitLifecycle, InitConditions, InitExchanged, LifecycleKept, ConditionsKept,
       GatheredKept, CachesKept, ExchangedKept, ExchangedExact, PTL DEF Spec

-----------------------------------------------------------------------------
(* Each message is where its recipient finds it *)

\* A machine that has not started is unknown.  One that is alive is known, after
\* an installation if it is a process instance: only these are registered anew.
Known ==
  /\ installs \in Nat
  /\ \A k \in archive : stage[k] # "pending"
  /\ \A k \in Machines :
       stage[k] = "live" /\ (installs = 0 \/ model.part[k] = "process") => k \in archive

\* The lists a message is in.  No inbox but its recipient's holds it, by Lists.
AtRecipient(m) ==
  LET r == Recipient(m)
  IN /\ r = None => m \in outbox /\ m \notin unsent
     /\ r # None /\ stage[r] = "pending" => m \in unsent /\ m \notin outbox /\ m \notin Inbox(r)
     /\ r # None /\ stage[r] = "live" => m \notin unsent /\ m \in outbox /\ m \in Inbox(r)
     /\ r # None /\ stage[r] = "ended" /\ model.part[r] # "activity" =>
          m \notin outbox /\ m \notin Inbox(r)

Posted == Known /\ \A m \in Pool : LostInCopy(m) \/ AtRecipient(m)

LEMMA KnownKept ==
  ASSUME Lifecycle, Lists, Known, ListStep, model' = model, installs' = installs
  PROVE  Known'
  <1>1. Machines' = Machines /\ archive \subseteq Machines /\ stage \in [Machines -> Stages]
    BY DEF Machines, Lists
  <1>2. CASE \E k \in Machines : stage[k] = "pending" /\ Register(k)
    <2> PICK k \in Machines : Register(k)
      BY <1>2
    <2>1. archive' = archive \cup {k}
      BY DEF Register
    <2>2. \A x \in Machines : stage'[x] = IF x = k THEN "live" ELSE stage[x]
      BY <1>1 DEF Register
    <2> QED
      BY <1>1, <2>1, <2>2 DEF Known
  <1>3. CASE /\ \E k \in Machines : Destroy(Destroyed(k))
             /\ UNCHANGED <<archive, unsent, outbox>>
    <2> PICK k \in Machines : Destroy(Destroyed(k))
      BY <1>3
    <2>1. \A x \in Machines : stage'[x] \in {stage[x], "ended"}
      BY DestroyInboxes
    <2> QED
      BY <1>1, <1>3, <2>1 DEF Known
  <1>4. CASE UNCHANGED <<stage, archive>>
    BY <1>1, <1>4 DEF Known
  <1> QED
    BY <1>2, <1>3, <1>4 DEF ListStep

\* What a copy has lost stays lost.
LEMMA LostStays ==
  ASSUME Lifecycle, Advances, installs \in Nat, installs' \in {installs, installs + 1},
         NEW m \in Tokens, LostInCopy(m)
  PROVE  LostInCopy(m)'
  <1>1. /\ Tokens' = Tokens /\ model' = model
        /\ \A x \in Tokens : message[x] # "none" => message'[x] # "none"
    BY DEF Advances, Onwards, Tokens
  <1>2. installs' > 0
    BY DEF LostInCopy
  <1>3. /\ Recipient(m)' = Recipient(m)
        /\ \A x : Alike(x, m)' <=> Alike(x, m)
    BY <1>1 DEF Recipient, Alike
  <1> QED
    BY <1>1, <1>2, <1>3 DEF LostInCopy

\* The lists are read for the same recipient before and after a step.
LEMMA UntouchedAtRecipient ==
  ASSUME Lifecycle, model' = model, NEW m \in Tokens, AtRecipient(m),
         m \in unsent' <=> m \in unsent, m \in outbox' <=> m \in outbox,
         Recipient(m) # None =>
           /\ stage'[Recipient(m)] = stage[Recipient(m)]
           /\ m \in Inbox(Recipient(m))' <=> m \in Inbox(Recipient(m))
  PROVE  AtRecipient(m)'
  <1>1. Recipient(m)' = Recipient(m)
    BY DEF Recipient
  <1> QED
    BY <1>1 DEF AtRecipient, Inbox

LEMMA RegisterPosts ==
  ASSUME Lifecycle, Lists, model' = model, NEW k \in Machines, stage[k] = "pending", Register(k),
         NEW m \in Pool, AtRecipient(m)
  PROVE  AtRecipient(m)'
  <1> DEFINE kept == {x \in unsent \cap Pool : Recipient(x) = k}
  <1>1. /\ stage' = [stage EXCEPT ![k] = "live"]
        /\ inbox' = InboxWith(k, kept) /\ outbox' = outbox \cup kept
        /\ unsent' = {x \in unsent : Recipient(x) # k}
    BY DEF Register
  <1>2. m \in kept <=> m \in unsent /\ Recipient(m) = k
    OBVIOUS
  <1> HIDE DEF kept
  <1>3. \A x : Inbox(x)' = IF x = k THEN Inbox(x) \cup kept ELSE Inbox(x)
    BY <1>1, InboxGains
  <1>4. /\ m \in Tokens /\ Recipient(m) \in Machines \cup {None} /\ None \notin Machines
        /\ Recipient(m)' = Recipient(m) /\ stage \in [Machines -> Stages]
    BY RecipientTyped DEF Pool, Recipient, Lists
  <1>5. CASE Recipient(m) = k
    <2>1. m \in unsent /\ stage'[k] = "live" /\ k # None
      BY <1>1, <1>4, <1>5 DEF AtRecipient
    <2>2. m \notin unsent' /\ m \in outbox' /\ m \in Inbox(k)'
      BY <1>1, <1>2, <1>3, <1>5, <2>1
    <2>3. m \in Inbox(Recipient(m))'
      BY <1>4, <1>5, <2>2
    <2> QED
      BY <1>4, <1>5, <2>1, <2>2, <2>3 DEF AtRecipient
  <1>6. CASE Recipient(m) # k
    <2>1. /\ m \in unsent' <=> m \in unsent
          /\ m \in outbox' <=> m \in outbox
      BY <1>1, <1>2, <1>6
    <2>2. Recipient(m) # None =>
            /\ stage'[Recipient(m)] = stage[Recipient(m)]
            /\ m \in Inbox(Recipient(m))' <=> m \in Inbox(Recipient(m))
      BY <1>1, <1>3, <1>4, <1>6 DEF Inbox
    <2> QED
      BY <1>4, <2>1, <2>2, UntouchedAtRecipient
  <1> QED
    BY <1>5, <1>6

\* A message that outlives a destruction was in no inbox that was withdrawn.
LEMMA DestroyPosts ==
  ASSUME Lifecycle, Lists, model' = model, NEW machines \in SUBSET Machines, Destroy(machines),
         UNCHANGED <<unsent, outbox>>, NEW m \in Pool, m \in Pool', AtRecipient(m)
  PROVE  AtRecipient(m)'
  <1> DEFINE r == Recipient(m)
  <1>1. /\ m \in Tokens /\ r \in Machines \cup {None} /\ None \notin Machines
        /\ stage \in [Machines -> Stages]
    BY RecipientTyped DEF Pool, Lists
  <1>2. /\ \A k : Inbox(k)' = IF k \in machines /\ model.part[k] # "activity" THEN {} ELSE Inbox(k)
        /\ \A k \in Machines : stage'[k] = IF k \in machines THEN "ended" ELSE stage[k]
        /\ \A k \in machines : model.part[k] # "activity" => m \notin Inbox(k)
    BY <1>1, DestroyInboxes DEF Pool
  <1>3. r' = r
    BY DEF Recipient
  <1>4. CASE r \notin machines
    <2>1. Recipient(m) # None =>
            /\ stage'[Recipient(m)] = stage[Recipient(m)]
            /\ m \in Inbox(Recipient(m))' <=> m \in Inbox(Recipient(m))
      BY <1>1, <1>2, <1>3, <1>4 DEF Inbox
    <2> QED
      BY <1>1, <2>1, UntouchedAtRecipient
  <1>5. CASE r \in machines
    <2>1. r \in Machines /\ r # None /\ stage'[r] = "ended" /\ stage[r] \in Stages
      BY <1>1, <1>2, <1>5
    <2>2. ASSUME model.part[r] # "activity" PROVE m \notin outbox /\ m \notin Inbox(r)'
      BY <1>2, <1>3, <1>5, <2>1, <2>2 DEF AtRecipient, Stages, Inbox
    <2>3. m \in Inbox(r)' <=> m \in Inbox(Recipient(m))'
      BY <1>3
    <2> QED
      BY <1>3, <2>1, <2>2, <2>3 DEF AtRecipient
  <1> QED
    BY <1>4, <1>5

\* A message is posted where its recipient looks for it, known or not.
LEMMA PostPosts ==
  ASSUME Lifecycle, Advances, Lists, Known, UNCHANGED <<model, stage, archive, installs>>,
         NEW t \in Tokens, at[t] \in {"created", "entering"}, Post(t),
         NEW m \in Pool', m \in Pool => LostInCopy(m) \/ AtRecipient(m)
  PROVE  LostInCopy(m)' \/ AtRecipient(m)'
  <1>1. /\ \A k : Inbox(k)' = IF /\ Recipient(t) # None /\ k = Recipient(t)
                                 /\ k \in archive /\ stage[k] = "live"
                              THEN Inbox(k) \cup {t} ELSE Inbox(k)
        /\ unsent' = IF Recipient(t) # None /\ Recipient(t) \notin archive
                     THEN unsent \cup {t} ELSE unsent
        /\ outbox' = IF Recipient(t) = None \/ (Recipient(t) \in archive /\ stage[Recipient(t)] = "live")
                     THEN outbox \cup {t} ELSE outbox
    BY PostInboxes DEF Post
  <1>2. m \in Tokens /\ (m # t => m \in Pool)
    BY DEF Post, Pool, Tokens, Lifecycle
  <1>3. CASE m # t
    <2>1. CASE LostInCopy(m)
      BY <1>2, <2>1, LostStays DEF Known
    <2>2. CASE AtRecipient(m)
      <3>1. /\ m \in unsent' <=> m \in unsent
            /\ m \in outbox' <=> m \in outbox
            /\ m \in Inbox(Recipient(m))' <=> m \in Inbox(Recipient(m))
        BY <1>1, <1>3 DEF Recipient, Inbox
      <3> QED
        BY <1>2, <2>2, <3>1, UntouchedAtRecipient
    <2> QED
      BY <1>2, <1>3, <2>1, <2>2
  <1>4. CASE m = t
    <2> DEFINE r == Recipient(t)
    <2>1. r \in Machines \cup {None} /\ None \notin Machines /\ stage \in [Machines -> Stages] /\ r' = r
      BY RecipientTyped DEF Lists, Recipient
    <2>2. t \notin Sent
      BY DEF Lifecycle, Sent
    <2>3. t \notin unsent /\ t \notin outbox /\ (r \in Machines => t \notin Inbox(r))
      BY <2>2 DEF Lists
    <2>4. t \in Inbox(r)' <=> t \in Inbox(Recipient(t))'
      BY <2>1
    <2>5. CASE r = None
      BY <1>1, <1>4, <2>1, <2>3, <2>5 DEF AtRecipient
    <2>6. CASE r # None /\ stage[r] = "pending"
      <3>1. r \notin archive
        BY <2>1, <2>6 DEF Known
      <3>2. t \in unsent' /\ t \notin outbox' /\ t \notin Inbox(r)'
        BY <1>1, <2>1, <2>3, <2>6, <3>1
      <3> QED
        BY <1>4, <2>1, <2>4, <2>6, <3>2 DEF AtRecipient
    <2>7. CASE r # None /\ stage[r] = "live"
      <3>1. CASE r \in archive
        <4>1. t \notin unsent' /\ t \in outbox' /\ t \in Inbox(r)'
          BY <1>1, <2>1, <2>3, <2>7, <3>1
        <4> QED
          BY <1>4, <2>1, <2>4, <2>7, <4>1 DEF AtRecipient
      <3>2. CASE r \notin archive
        <4>1. installs > 0 /\ model.part[r] # "process"
          BY <2>1, <2>7, <3>2 DEF Known
        <4>2. LostInCopy(t)'
          BY <2>1, <2>7, <4>1 DEF LostInCopy
        <4> QED
          BY <1>4, <4>2
      <3> QED
        BY <3>1, <3>2
    <2>8. CASE r # None /\ stage[r] = "ended"
      <3>1. t \notin outbox' /\ t \notin Inbox(r)'
        BY <1>1, <2>1, <2>3, <2>8
      <3> QED
        BY <1>4, <2>1, <2>4, <2>8, <3>1 DEF AtRecipient
    <2> QED
      BY <2>1, <2>5, <2>6, <2>7, <2>8 DEF Stages
  <1> QED
    BY <1>3, <1>4

\* A message that is told apart is copied to the lists it was in.
LEMMA InstallPosts ==
  ASSUME Lifecycle, Lists, Posted, Install, installs' = installs + 1
  PROVE  Posted'
  <1>1. /\ UNCHANGED <<model, stage, message>>
        /\ Machines' = Machines /\ Pool' = Pool
        /\ archive \subseteq Machines /\ stage \in [Machines -> Stages]
        /\ installs \in Nat /\ installs' > 0
        /\ \A m : Recipient(m)' = Recipient(m)
    BY DEF Install, Machines, Pool, Tokens, Lists, Posted, Known, Recipient
  <1>2. ASSUME NEW m \in Pool, ~LostInCopy(m)'
        PROVE  /\ AtRecipient(m)
               /\ Recipient(m) # None => model.part[Recipient(m)] = "process"
               /\ \A x \in Pool \ {m} : ~Alike(x, m) /\ ~Alike(m, x)
    <2>1. /\ Recipient(m) # None => model.part[Recipient(m)] = "process"
          /\ \A x \in Tokens \ {m} : Alike(x, m) => message[x] = "none"
      BY <1>1, <1>2 DEF LostInCopy, Alike, Tokens, Recipient
    <2>2. \A x \in Pool \ {m} : ~Alike(x, m) /\ ~Alike(m, x)
      BY <2>1 DEF Pool, Alike
    <2>3. ~LostInCopy(m)
      BY <2>1 DEF LostInCopy
    <2> QED
      BY <2>1, <2>2, <2>3 DEF Posted
  <1>3. CASE UNCHANGED <<archive, unsent, inbox, outbox>>
    <2>1. Known'
      BY <1>1, <1>3 DEF Posted, Known
    <2>2. ASSUME NEW m \in Pool, AtRecipient(m) PROVE AtRecipient(m)'
      BY <1>1, <1>3, <2>2 DEF AtRecipient, Inbox
    <2> QED
      BY <1>1, <1>2, <2>1, <2>2 DEF Posted
  <1>4. ASSUME NEW found \in [Pool -> Pool],
               \A x \in Pool : Alike(x, found[x]),
               LET copied(list) == {found[x] : x \in list \cap Pool}
                   known == {k \in archive : model.part[k] = "process" /\ stage[k] = "live"}
               IN /\ archive' = known
                  /\ unsent' = copied(unsent)
                  /\ outbox' = copied(outbox)
                  /\ inbox' = [k \in {k \in known \cap DOMAIN inbox : inbox[k] \cap Pool # {}}
                                 |-> copied(inbox[k])]
        PROVE  Posted'
    <2> DEFINE copied(list) == {found[x] : x \in list \cap Pool}
               known == {k \in archive : model.part[k] = "process" /\ stage[k] = "live"}
    <2>1. Known'
      BY <1>1, <1>4 DEF Posted, Known
    <2> SUFFICES ASSUME NEW m \in Pool, ~LostInCopy(m)' PROVE AtRecipient(m)'
      BY <1>1, <2>1 DEF Posted
    <2> DEFINE r == Recipient(m)
    <2>2. found[m] = m /\ \A x \in Pool : found[x] = m => x = m
      BY <1>2, <1>4
    <2>3. \A list : m \in copied(list) <=> m \in list
      BY <2>2
    <2>4. /\ m \in unsent' <=> m \in unsent
          /\ m \in outbox' <=> m \in outbox
      BY <1>4, <2>3
    <2>5. /\ m \in Tokens /\ r \in Machines \cup {None} /\ None \notin Machines
          /\ r # None => model.part[r] = "process"
      BY <1>2, RecipientTyped DEF Pool
    <2>6. inbox' = [k \in {k \in known \cap DOMAIN inbox : inbox[k] \cap Pool # {}} |-> copied(inbox[k])]
      BY <1>4
    <2> HIDE DEF copied
    <2>7. ASSUME m \in Inbox(r)' PROVE r \in known /\ m \in Inbox(r)
      BY <2>3, <2>6, <2>7, <1>1 DEF Inbox
    <2>8. ASSUME r # None, stage[r] = "live" PROVE m \in Inbox(r)'
      <3>1. r \in known
        BY <2>5, <2>8 DEF Posted, Known
      <3>2. m \in Inbox(r)
        BY <1>2, <2>8 DEF AtRecipient
      <3>3. r \in DOMAIN inbox /\ m \in inbox[r]
        BY <3>2 DEF Inbox
      <3> QED
        BY <2>3, <2>6, <3>1, <3>3, <1>1 DEF Inbox
    <2>9. r # None => (m \in Inbox(r)' <=> stage[r] = "live")
      BY <2>7, <2>8
    <2>10. AtRecipient(m) /\ (m \in Inbox(r)' <=> m \in Inbox(Recipient(m))')
      BY <1>1, <1>2
    <2> QED
      BY <1>1, <2>4, <2>5, <2>9, <2>10 DEF AtRecipient
  <1> QED
    BY <1>3, <1>4 DEF Install

LEMMA ExchangePosts ==
  ASSUME Lifecycle, Advances, Lists, Posted, Exchanges, installs' = installs
  PROVE  Posted'
  <1>1. ListStep /\ model' = model /\ Tokens' = Tokens
    BY ExchangesLists, SentStays DEF Advances, Onwards
  <1>2. Known'
    BY <1>1, KnownKept DEF Posted
  <1> SUFFICES ASSUME NEW m \in Pool' PROVE LostInCopy(m)' \/ AtRecipient(m)'
    BY <1>2 DEF Posted
  <1>3. m \in Tokens
    BY <1>1 DEF Pool
  <1>4. m \in Pool => LostInCopy(m) \/ AtRecipient(m)
    BY DEF Posted
  <1>5. LostInCopy(m) => LostInCopy(m)'
    BY <1>3, LostStays DEF Posted, Known
  <1>6. CASE Pool' \subseteq Pool /\ \E k \in Machines : stage[k] = "pending" /\ Register(k)
    BY <1>1, <1>4, <1>5, <1>6, RegisterPosts
  <1>7. CASE (\E k \in Machines : Destroy(Destroyed(k))) /\ UNCHANGED <<archive, unsent, outbox>>
    <2> PICK k \in Machines : Destroy(Destroyed(k))
      BY <1>7
    <2>1. Destroyed(k) \in SUBSET Machines
      BY DEF Destroyed
    <2>2. m \in Pool
      <3>1. message'[m] \in {message[m], "withdrawn"}
        BY <1>3, DestroyInboxes
      <3> QED
        BY <1>3, <3>1 DEF Pool
    <2> QED
      BY <1>1, <1>4, <1>5, <1>7, <2>1, <2>2, DestroyPosts
  <1>8. CASE /\ \E t \in Tokens : at[t] \in {"created", "entering"} /\ Post(t)
             /\ UNCHANGED <<stage, archive>>
    BY <1>1, <1>4, <1>8, PostPosts DEF Posted
  <1>9. CASE Pool' \subseteq Pool /\ UNCHANGED <<stage, archive, unsent, inbox, outbox>>
    <2>1. Recipient(m)' = Recipient(m)
      BY <1>1 DEF Recipient
    <2>2. m \in Inbox(Recipient(m))' <=> m \in Inbox(Recipient(m))
      BY <1>9, <2>1 DEF Inbox
    <2>3. m \in Pool
      BY <1>9
    <2> QED
      BY <1>1, <1>3, <1>4, <1>5, <1>9, <2>2, <2>3, UntouchedAtRecipient
  <1> QED
    BY <1>1, <1>6, <1>7, <1>8, <1>9 DEF ListStep

LEMMA PostedKept ==
  Lifecycle /\ Conditions /\ (~aborted => Gathered) /\ EveryCache /\ Exchanged /\ Posted /\ [Next]_vars
    => Posted'
  <1> SUFFICES ASSUME Lifecycle, Conditions, ~aborted => Gathered, DOMAIN evaluation = Caches,
                      Exchanged, Posted, [Next]_vars
               PROVE  Posted'
    BY DEF EveryCache
  <1>1. Advances
    BY NextAdvances
  <1>2. \/ Exchanges /\ installs' = installs
        \/ Install /\ installs' = installs + 1
    BY NextExchanges
  <1> QED
    BY <1>1, <1>2, ExchangePosts, InstallPosts DEF Exchanged

LEMMA PostedExact == Lifecycle /\ Exchanged /\ Posted => PostedOnce
  <1> SUFFICES ASSUME Lifecycle, Exchanged, Posted,
                      NEW m \in Pool, ~LostInCopy(m)
               PROVE  LET r == Recipient(m)
                          holders == {k \in DOMAIN inbox : m \in inbox[k]}
                      IN IF r = None THEN m \in outbox /\ m \notin unsent /\ holders = {}
                         ELSE CASE stage[r] = "pending" -> m \in unsent /\ m \notin outbox /\ holders = {}
                                [] stage[r] = "live"    -> m \notin unsent /\ m \in outbox /\ holders = {r}
                                [] stage[r] = "ended"   ->
                                     model.part[r] # "activity" => m \notin outbox /\ holders = {}
    BY DEF PostedOnce
  <1> DEFINE r == Recipient(m)
             holders == {k \in DOMAIN inbox : m \in inbox[k]}
  <1>1. m \in Tokens /\ r \in Machines \cup {None} /\ None \notin Machines
    BY RecipientTyped DEF Pool
  <1>2. /\ stage \in [Machines -> Stages]
        /\ \A k \in holders : k \in Machines /\ m \in Inbox(k) /\ Recipient(m) = k
    BY DEF Exchanged, Lists, Inbox
  <1>3. r # None => (r \in holders <=> m \in Inbox(r))
    BY DEF Inbox
  <1>4. holders \subseteq {r} /\ (r = None => holders = {})
    BY <1>1, <1>2
  <1>5. AtRecipient(m)
    BY DEF Posted
  <1> HIDE DEF holders
  <1>6. CASE r = None
    BY <1>4, <1>5, <1>6 DEF AtRecipient, holders
  <1>7. CASE r # None /\ stage[r] = "pending"
    <2>1. m \in unsent /\ m \notin outbox /\ holders = {}
      BY <1>3, <1>4, <1>5, <1>7 DEF AtRecipient
    <2> QED
      BY <1>7, <2>1 DEF holders
  <1>8. CASE r # None /\ stage[r] = "live"
    <2>1. m \notin unsent /\ m \in outbox /\ holders = {r}
      BY <1>3, <1>4, <1>5, <1>8 DEF AtRecipient
    <2> QED
      BY <1>8, <2>1 DEF holders
  <1>9. CASE r # None /\ stage[r] = "ended"
    <2>1. model.part[r] # "activity" => m \notin outbox /\ holders = {}
      BY <1>3, <1>4, <1>5, <1>9 DEF AtRecipient
    <2> QED
      BY <1>9, <2>1 DEF holders
  <1> QED
    BY <1>1, <1>2, <1>6, <1>7, <1>8, <1>9 DEF Stages

LEMMA InitPosted == Init => Posted
  BY DEF Init, ExchangeInit, Posted, Known, Pool

\* A message that is in the state is kept until its recipient is known, is in its
\* inbox and in no other while that is alive, and is nowhere once it is over: of
\* whatever sendings, registrations, withdrawals and installations came before.
\* Only what a copy does not tell apart or does not register is excepted.
THEOREM FoundByRecipient == Spec => []PostedOnce
  <1>1. Init => (~aborted => Gathered)
    BY InitGathers
  <1> QED
    BY <1>1, InitLifecycle, InitConditions, InitExchanged, InitPosted, LifecycleKept, ConditionsKept,
       GatheredKept, CachesKept, ExchangedKept, PostedKept, PostedExact, PTL DEF Spec
=============================================================================
