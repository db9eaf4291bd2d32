--------------------------- MODULE MessageExchange ---------------------------
(***************************************************************************)
(* The messages of a system state (execution/engine/src/Message.cpp,       *)
(* Token.cpp, StateMachine.cpp, Engine.cpp, SystemState.cpp): sending to a *)
(* recipient that is known, not yet known or over, registering a recipient,*)
(* awaiting a delivery, the delivery that completes the receiver and the   *)
(* waiting send task, the instantiation of a process by a message, the     *)
(* withdrawal of messages with their sender or their recipient, and the    *)
(* copy of all this when a state is installed in another engine.           *)
(*                                                                         *)
(* A collaboration c gives, besides the fields of MessageFlows,            *)
(*   part, holder   of each state machine with an identity of its own: a   *)
(*        "process" instance, or the instance of a non-interrupting        *)
(*        "event" subprocess or of a multi-instance "activity" and the     *)
(*        process instance it belongs to;                                  *)
(*   node, owner    of each token: its node and the state machine it is in;*)
(*   address, value of each token at a message node: the identity its      *)
(*        header names (the recipient of a sender, the sender expected by  *)
(*        a receiver) and the value of the additional key, None if absent. *)
(* A token is at one node only and sends at most one message, which is     *)
(* named after it.                                                         *)
(***************************************************************************)
EXTENDS MessageFlows

CONSTANTS Collaborations, None

\* A token at the start event of a process waits for nothing: the message that
\* instantiated the process is consumed.  It is not a token of the exchange.
ASSUME CollaborationsAssumption ==
  \A c \in Collaborations :
    /\ ValidTriggers(c)
    /\ c.candidates = MessageCandidates(c)
    /\ IsFiniteSet(DOMAIN c.node)
    /\ None \notin DOMAIN c.node \cup DOMAIN c.part
    /\ \A t \in DOMAIN c.node :
         /\ c.owner[t] \in DOMAIN c.part
         /\ c.address[t] \in DOMAIN c.part \cup {None}
         /\ c.kind[c.node[t]] # "processStart"
    /\ \A m \in DOMAIN c.part : c.part[m] # "process" =>
         c.holder[m] \in DOMAIN c.part /\ c.part[c.holder[m]] = "process"

VARIABLES
  model,      \* the collaboration of this behaviour
  stage,      \* [machines -> {"pending", "live", "ended"}]
  at,         \* [tokens -> where the token is in its life]
  message,    \* [tokens -> state of the message it sent, "none" before]
  content,    \* [tokens -> the message delivered to it, None before]
  archive,    \* machines whose identity is known to the system state
  unsent,     \* messages kept until their recipient is registered
  inbox,      \* [machine |-> messages directed to it], by address in memory
  outbox,     \* messages that are listed under their origin
  commands,   \* queue of commands of the engine
  aborted     \* a copy has read what is not there

exchangeVars ==
  <<model, stage, at, message, content, archive, unsent, inbox, outbox, commands, aborted>>

Machines == DOMAIN model.part
Tokens == DOMAIN model.node
Kind(t) == model.kind[model.node[t]]
Activities == {"sendTask", "receive", "task", "decision"}

\* The messages held by the system state: every other reference to a message
\* is weak and gone with it.
Pool == {m \in Tokens : message[m] = "created"}

IsSendTask(t) == Kind(t) = "sendTask"
Recipient(m) == model.address[m]

\* A header key defined on both sides must agree: the sender of a message is
\* the instance it is sent from, its recipient and the sender a receiver
\* expects are those the headers name.
Agree(a, b) == a = None \/ b = None \/ a = b

Matches(m, r) ==
  /\ Agree(model.owner[m], model.address[r])
  /\ Agree(Recipient(m), model.owner[r])
  /\ Agree(model.value[m], model.value[r])

\* Tokens with a pending request for a message, and those it can be served by.
AwaitsDelivery(t) == at[t] = "busy" /\ Kind(t) \in Catching
Candidate(r, m) ==
  <<model.node[m], model.node[r]>> \in model.candidates /\ Matches(m, r)
AwaitsEntry(t) == at[t] = "ready"
AwaitsChoice(t) == at[t] = "busy" /\ Kind(t) = "decision"

Settled == commands = <<>> /\ ~aborted
Enqueue(new) == commands' = commands \o new

ExchangeInit ==
  /\ model \in Collaborations
  /\ stage = [m \in Machines |-> "pending"]
  /\ at = [t \in Tokens |-> "created"]
  /\ message = [t \in Tokens |-> "none"]
  /\ content = [t \in Tokens |-> None]
  /\ archive = {}
  /\ unsent = {}
  /\ inbox = [m \in {} |-> {}]
  /\ outbox = {}
  /\ commands = <<>>
  /\ aborted = FALSE

-----------------------------------------------------------------------------
(* Recipients *)

Inbox(m) == IF m \in DOMAIN inbox THEN inbox[m] ELSE {}

InboxWith(m, new) ==
  IF new = {} THEN inbox
  ELSE [k \in DOMAIN inbox \cup {m} |-> IF k = m THEN Inbox(m) \cup new ELSE inbox[k]]

\* Mutant: the messages kept for the recipient are left where they are.
RegisterAlone(m) ==
  /\ stage' = [stage EXCEPT ![m] = "live"]
  /\ archive' = archive \cup {m}
  /\ UNCHANGED <<inbox, outbox, unsent>>

\* A recipient becomes known, and receives the messages kept for it.
Register(m) ==
  LET kept == {x \in unsent \cap Pool : Recipient(x) = m}
  IN /\ stage' = [stage EXCEPT ![m] = "live"]
     /\ archive' = archive \cup {m}
     /\ inbox' = InboxWith(m, kept)
     /\ outbox' = outbox \cup kept
     /\ unsent' = {x \in unsent : Recipient(x) # m}

\* The process instances a message creates come into being with that message.
Triggered(m) ==
  model.part[m] = "process" /\ TriggerOf(model, model.instanceOf[m]) # {}

StartInstance(m) ==
  /\ Settled
  /\ stage[m] = "pending"
  /\ model.part[m] = "process"
  /\ ~Triggered(m)
  /\ Register(m)
  /\ UNCHANGED <<model, at, message, content, commands, aborted>>

\* An event subprocess is armed, an instance of a multi-instance activity entered.
StartPart(m) ==
  /\ ~aborted
  /\ stage[m] = "pending"
  /\ model.part[m] # "process"
  /\ stage[model.holder[m]] = "live"
  /\ Register(m)
  /\ UNCHANGED <<model, at, message, content, commands, aborted>>

\* What is destroyed with a machine: the machines and the tokens in it.
Destroyed(m) == {k \in Machines : k = m \/ (model.part[k] # "process" /\ model.holder[k] = m)}

\* Mutant: a send task that is destroyed leaves its message behind.
DestroyReceivers(machines) ==
  LET gone == {t \in Tokens : model.owner[t] \in machines}
      withdrawing == {k \in machines : model.part[k] # "activity"}
      lost == UNION {Inbox(k) : k \in withdrawing}
  IN /\ stage' = [k \in Machines |-> IF k \in machines THEN "ended" ELSE stage[k]]
     /\ at' = [t \in Tokens |-> IF t \in gone THEN "gone" ELSE at[t]]
     /\ message' = [x \in Tokens |-> IF x \in lost \cap Pool THEN "withdrawn" ELSE message[x]]
     /\ inbox' = [k \in DOMAIN inbox \ withdrawing |-> inbox[k]]

\* Only process instances and event subprocesses withdraw the messages directed
\* to them; the instance of a multi-instance activity leaves its inbox behind.
\* A send task that is destroyed withdraws its message.
Destroy(machines) ==
  LET gone == {t \in Tokens : model.owner[t] \in machines}
      withdrawing == {k \in machines : model.part[k] # "activity"}
      lost == (UNION {Inbox(k) : k \in withdrawing})
                \cup {t \in gone : IsSendTask(t) /\ at[t] = "busy"}
  IN /\ stage' = [k \in Machines |-> IF k \in machines THEN "ended" ELSE stage[k]]
     /\ at' = [t \in Tokens |-> IF t \in gone THEN "gone" ELSE at[t]]
     /\ message' = [x \in Tokens |-> IF x \in lost \cap Pool THEN "withdrawn" ELSE message[x]]
     /\ inbox' = [k \in DOMAIN inbox \ withdrawing |-> inbox[k]]

EndMachine(m) ==
  /\ ~aborted
  /\ stage[m] = "live"
  /\ Destroy(Destroyed(m))
  /\ UNCHANGED <<model, content, archive, unsent, outbox, commands, aborted>>

-----------------------------------------------------------------------------
(* Tokens *)

Idle(t) == ~aborted /\ at[t] = "created" /\ stage[model.owner[t]] = "live"

\* A message with a recipient is kept if the recipient is not known, and listed
\* in its inbox if it is alive; a message to one that is over is listed nowhere.
Post(t) ==
  LET r == Recipient(t)
      known == r \in archive
  IN /\ message' = [message EXCEPT ![t] = "created"]
     /\ unsent' = IF r # None /\ ~known THEN unsent \cup {t} ELSE unsent
     /\ inbox' = IF r # None /\ known /\ stage[r] = "live" THEN InboxWith(r, {t}) ELSE inbox
     /\ outbox' = IF r = None \/ (known /\ stage[r] = "live") THEN outbox \cup {t} ELSE outbox

TriggerCommand(t) ==
  LET processes == ProcessesTriggered(model, model.node[t])
  IN IF processes = {} THEN <<>>
     ELSE <<[type |-> "trigger", token |-> t]>>

\* A token at a throw event sends at once and goes on.  Where a token applies its
\* operators, noticed is what the announcement of their writes has enqueued.
Throw(t, noticed) ==
  /\ Idle(t)
  /\ Kind(t) = "throw"
  /\ Post(t)
  /\ at' = [at EXCEPT ![t] = "gone"]
  /\ Enqueue(noticed \o TriggerCommand(t))
  /\ UNCHANGED <<model, stage, content, archive, aborted>>

\* A token at an activity requests its entry; one at a catch event is busy at
\* once, and may be through already.
Arrive(t, through) ==
  /\ Idle(t)
  /\ Kind(t) # "throw"
  /\ at' = [at EXCEPT ![t] = IF Kind(t) \in Activities THEN "ready" ELSE "busy"]
  /\ Enqueue(IF through THEN <<[type |-> "complete", token |-> t]>> ELSE <<>>)
  /\ UNCHANGED <<model, stage, message, content, archive, unsent, inbox, outbox, aborted>>

\* The entry decision of a token at an activity.
EnterEvent(t) ==
  /\ Settled
  /\ AwaitsEntry(t)
  /\ at' = [at EXCEPT ![t] = "entering"]
  /\ Enqueue(<<[type |-> "enter", token |-> t]>>)
  /\ UNCHANGED <<model, stage, message, content, archive, unsent, inbox, outbox, aborted>>

\* The completion of a task, or the choice made at a decision task.
CompleteEvent(t) ==
  /\ Settled
  /\ at[t] = "busy"
  /\ Kind(t) \in {"task", "decision"}
  /\ at' = [at EXCEPT ![t] = "completing"]
  /\ Enqueue(<<[type |-> "complete", token |-> t]>>)
  /\ UNCHANGED <<model, stage, message, content, archive, unsent, inbox, outbox, aborted>>

\* The send task waiting for the delivery of the message.
Completing(m) ==
  IF IsSendTask(m) THEN <<[type |-> "complete", token |-> m]>> ELSE <<>>

\* A message is delivered: it leaves the state, and both ends complete.
Deliver(r, m) ==
  /\ Settled
  /\ AwaitsDelivery(r)
  /\ m \in Pool
  /\ content' = [content EXCEPT ![r] = m]
  /\ message' = [message EXCEPT ![m] = "delivered"]
  /\ at' = [t \in Tokens |-> IF t = r \/ (t = m /\ IsSendTask(m)) THEN "completing" ELSE at[t]]
  /\ Enqueue(Completing(m) \o <<[type |-> "complete", token |-> r]>>)
  /\ UNCHANGED <<model, stage, archive, unsent, inbox, outbox, aborted>>

\* A waiting token is withdrawn or fails: a boundary event, a failure in its scope.
Interrupt(t) ==
  /\ ~aborted
  /\ at[t] \in {"ready", "entering", "busy", "completing"}
  /\ at' = [at EXCEPT ![t] = "gone"]
  /\ message' = IF IsSendTask(t) /\ at[t] = "busy" /\ t \in Pool
                THEN [message EXCEPT ![t] = "withdrawn"] ELSE message
  /\ UNCHANGED <<model, stage, content, archive, unsent, inbox, outbox, commands, aborted>>

-----------------------------------------------------------------------------
(* Commands: one that is bound to a token is skipped if the token is gone. *)

IsNext(type, t) ==
  /\ ~aborted
  /\ commands # <<>>
  /\ Head(commands) = [type |-> type, token |-> t]

Skip ==
  /\ ~aborted
  /\ commands # <<>>
  /\ LET c == Head(commands)
     IN IF c.type = "trigger" THEN c.token \notin Pool ELSE at[c.token] = "gone"
  /\ commands' = Tail(commands)
  /\ UNCHANGED <<model, stage, at, message, content, archive, unsent, inbox, outbox, aborted>>

\* An entered token is busy; a send task posts its message.
EnterCommand(t, noticed) ==
  /\ IsNext("enter", t)
  /\ at[t] = "entering"
  /\ at' = [at EXCEPT ![t] = "busy"]
  /\ IF IsSendTask(t)
     THEN /\ Post(t)
          /\ commands' = Tail(commands) \o noticed \o TriggerCommand(t)
     ELSE /\ commands' = Tail(commands) \o noticed
          /\ UNCHANGED <<message, unsent, inbox, outbox>>
  /\ UNCHANGED <<model, stage, content, archive, aborted>>

CompleteCommand(t, noticed) ==
  /\ IsNext("complete", t)
  /\ at[t] \in {"busy", "completing"}
  /\ at' = [at EXCEPT ![t] = "gone"]
  /\ commands' = Tail(commands) \o noticed
  /\ UNCHANGED <<model, stage, message, content, archive, unsent, inbox, outbox, aborted>>

\* A message creates an instance of the process it triggers and is consumed.
\* The instance is one of those the collaboration provides for it.
TriggerCommandRun(m) ==
  /\ IsNext("trigger", m)
  /\ m \in Pool
  /\ \E k \in Machines :
       /\ stage[k] = "pending"
       /\ model.part[k] = "process"
       /\ model.instanceOf[k] \in ProcessesTriggered(model, model.node[m])
       /\ Register(k)
  /\ message' = [message EXCEPT ![m] = "delivered"]
  /\ at' = IF IsSendTask(m) THEN [at EXCEPT ![m] = "completing"] ELSE at
  /\ commands' = Tail(commands) \o Completing(m)
  /\ UNCHANGED <<model, content, aborted>>

-----------------------------------------------------------------------------
(* Installing a copy of the state *)

\* The messages the copy does not tell apart: those of one origin and one
\* recipient that a send task, or no send task, waits for.
Alike(x, y) ==
  /\ model.node[x] = model.node[y]
  /\ Recipient(x) = Recipient(y)

\* The copy of a send task copies its message, which must be there still.
SenderWithoutMessage == \E t \in Tokens : IsSendTask(t) /\ at[t] = "busy" /\ t \notin Pool

\* The inbox of a recipient is found by its address, which may be stale.
StaleInbox == \E k \in DOMAIN inbox : stage[k] = "ended"

\* Every list is filled with the first message like the one it held; process
\* instances are registered anew, and no other recipient is.
Install ==
  /\ Settled
  /\ IF SenderWithoutMessage \/ StaleInbox
     THEN /\ aborted' = TRUE
          /\ UNCHANGED <<archive, unsent, inbox, outbox>>
     ELSE \E found \in [Pool -> Pool] :
            /\ \A x, y \in Pool : Alike(x, y) => found[x] = found[y]
            /\ \A x \in Pool : Alike(x, found[x])
            /\ LET copied(list) == {found[x] : x \in list \cap Pool}
                   known == {k \in archive : model.part[k] = "process" /\ stage[k] = "live"}
               IN /\ archive' = known
                  /\ unsent' = copied(unsent)
                  /\ outbox' = copied(outbox)
                  /\ inbox' = [k \in {k \in known \cap DOMAIN inbox : inbox[k] \cap Pool # {}}
                                 |-> copied(inbox[k])]
            /\ UNCHANGED aborted
  /\ UNCHANGED <<model, stage, at, message, content, commands>>
=============================================================================
