------------------------- MODULE SequentialPerformer -------------------------
(***************************************************************************)
(* A sequential performer: the token at a process, subprocess or ad-hoc    *)
(* subprocess that several sequential ad-hoc subprocesses share, so that   *)
(* at most one of their child activities is performed at any time.         *)
(*                                                                         *)
(* The engine requests an entry decision for a waiting child only while    *)
(* the performer is idle: requests are withdrawn when it becomes busy and  *)
(* renewed when it becomes idle.  An event is processed in a round of its  *)
(* own; the commands it enqueues are executed one action each, in order,   *)
(* before the next event, and a command of a removed token is skipped.     *)
(***************************************************************************)
EXTENDS Naturals, Sequences, FiniteSets

CONSTANTS
  Tokens,      \* tokens at the child activities
  Scopes,      \* the sequential ad-hoc subprocesses sharing the performer
  ScopeOf,     \* the ad-hoc subprocess each token belongs to
  None         \* no token

ASSUME PerformerAssumption ==
  /\ IsFiniteSet(Tokens)
  /\ ScopeOf \in [Tokens -> Scopes]
  /\ None \notin Tokens

States == {"absent", "arrived", "ready", "entered", "busy", "completed",
           "failed", "removed"}

TokenCommands ==
  {"enter", "complete", "fromCompleted", "fail", "handleFailure", "interrupt"}

VARIABLES
  state,      \* Token::state, with "absent" before creation, "removed" after
  request,    \* tokens holding a decision request
  former,     \* tokens some decision of a controller was built for, on a
              \* request that has been destroyed since
  armed,      \* tokens with tokens waiting at their boundary events
  performing, \* Token::performing of the performer
  pending,    \* Token::pendingSequentialEntries of the performer
  commands    \* Engine::commands

vars == <<state, request, former, armed, performing, pending, commands>>

-----------------------------------------------------------------------------
Command(name, t) == [name |-> name, token |-> t]
Withdrawal(s) == [name |-> "withdraw", scope |-> s]

CommandSet == [name : TokenCommands, token : Tokens] \union [name : {"withdraw"}, scope : Scopes]

Settled == commands = <<>>

\* The sequences holding every element of a set once.
Orderings(S) ==
  {q \in [1..Cardinality(S) -> S] :
     /\ \A e \in S : \E k \in DOMAIN q : q[k] = e
     /\ \A j, k \in DOMAIN q : q[j] = q[k] => j = k}

\* Tokens the list holds that still exist and await entry.
Waiting == {t \in Tokens : state[t] = "ready" /\ \E k \in DOMAIN pending : pending[k] = t}

Present(s) == {t \in Tokens : ScopeOf[t] = s /\ state[t] \notin {"absent", "removed"}}

\* Mutant of Without: the token entered is not taken off the list.
WithoutNone(q, k) == q

Without(q, k) == SubSeq(q, 1, k - 1) \o SubSeq(q, k + 1, Len(q))

\* Mutant of Expired: a decision expires with its token only, as an event does.
ExpiredWithToken(t, basis) == state[t] = "removed"

\* Decision::expired: a decision is bound to the request it was built for.
Expired(t, basis) == basis = "former" \/ t \notin request

\* occupySequentialPerformer: no waiting child may be entered any more.
Occupy(t) ==
  /\ \E k \in DOMAIN pending : pending[k] = t /\ pending' = Without(pending, k)
  /\ performing' = t
  /\ request' = request \ (Waiting \union {t})
  /\ former' = former \union (request \intersect (Waiting \union {t}))

\* Mutant of Renewed: only the first waiting token is asked for.
RenewedFirst(gone) ==
  {t \in Waiting \ gone : \E k \in DOMAIN pending :
     pending[k] = t /\ \A j \in 1..(k - 1) : pending[j] \notin Waiting \ gone}

\* releaseSequentialPerformer: the waiting tokens a request is renewed for.
\* Those that go together with the releasing token await entry no longer.
Renewed(gone) == Waiting \ gone

Release(gone) ==
  /\ performing' = None
  /\ request' = (request \ gone) \union Renewed(gone)

\* Mutant of AwaitEntry: the request is not deferred while somebody performs.
AwaitEntryAtOnce(t, busy) == {t}

\* awaitEntryEvent: a request is deferred until the performer becomes idle.
AwaitEntry(t, busy) == IF busy THEN {} ELSE {t}

\* withdraw: a token that performs releases the performer, unless it has failed.
Withdraw(gone) ==
  LET releasing == performing \in gone /\ state[performing] # "failed" IN
  \/ releasing /\ Release(gone)
  \/ ~releasing /\ UNCHANGED performing /\ request' = request \ gone

\* Mutant of ReleaseOnFailure: a token that fails keeps the performer.
FailUnreleased(t) == UNCHANGED <<performing, request>>

\* advanceToFailed: a token that fails no longer performs.
ReleaseOnFailure(t) ==
  \/ performing = t /\ Release({})
  \/ performing # t /\ UNCHANGED <<performing, request>>

Queue(cmd) == commands' = Append(Tail(commands), cmd)

-----------------------------------------------------------------------------
Init ==
  /\ state = [t \in Tokens |-> "absent"]
  /\ request = {} /\ former = {} /\ armed = {}
  /\ performing = None
  /\ pending = <<>> /\ commands = <<>>

\* Mutant of StartScope: the tokens do not come to await their ready events.
StartScopeCreating(s) ==
  /\ Settled
  /\ \A t \in Tokens : ScopeOf[t] = s => state[t] = "absent"
  /\ state' = [t \in Tokens |-> IF ScopeOf[t] = s THEN "created" ELSE state[t]]
  /\ UNCHANGED <<request, former, armed, performing, pending, commands>>

\* An ad-hoc subprocess is started with a token at each of its activities.
StartScope(s) ==
  /\ Settled
  /\ \A t \in Tokens : ScopeOf[t] = s => state[t] = "absent"
  /\ state' = [t \in Tokens |-> IF ScopeOf[t] = s THEN "arrived" ELSE state[t]]
  /\ UNCHANGED <<request, former, armed, performing, pending, commands>>

\* The ready event of a token: it awaits its entry.
ReadyEvent(t) ==
  /\ Settled
  /\ state[t] = "arrived"
  /\ state' = [state EXCEPT ![t] = "ready"]
  /\ pending' = Append(pending, t)
  /\ request' = request \union AwaitEntry(t, performing # None)
  /\ UNCHANGED <<former, armed, performing, commands>>

\* A controller dispatches an entry decision that has not expired.
EntryEvent(t, basis) ==
  /\ Settled
  /\ state[t] = "ready"
  /\ basis = "former" => t \in former
  /\ ~Expired(t, basis)
  /\ Occupy(t)
  /\ commands' = <<Command("enter", t)>>
  /\ UNCHANGED <<state, armed>>

\* An event completing a busy activity.
CompletionEvent(t) ==
  /\ Settled
  /\ state[t] = "busy"
  /\ commands' = <<Command("complete", t)>>
  /\ UNCHANGED <<state, request, former, armed, performing, pending>>

\* A clock tick or signal triggers interrupting events at activities and around
\* ad-hoc subprocesses, and may complete or fail what is busy, in any order.
Trigger ==
  /\ Settled
  /\ \E hit \in SUBSET armed, left \in SUBSET {s \in Scopes : Present(s) # {}},
        ends \in SUBSET {t \in Tokens : state[t] = "busy"},
        name \in {"complete", "fail"} :
       LET all == {Command("interrupt", t) : t \in hit}
                    \union {Withdrawal(s) : s \in left}
                    \union {Command(name, t) : t \in ends}
       IN Cardinality(all) \in 1..2 /\ commands' \in Orderings(all)
  /\ UNCHANGED <<state, request, former, armed, performing, pending>>

\* A copy of the state is installed: no decision refers to a copied token yet,
\* and those waiting are listed in whatever order the tokens are copied.
InstallCopy ==
  /\ Settled
  /\ pending' \in Orderings(Waiting)
  /\ former' = {}
  /\ UNCHANGED <<state, request, armed, performing, commands>>

-----------------------------------------------------------------------------
\* A command whose token has been removed is skipped.
Skip ==
  /\ ~Settled
  /\ Head(commands).name # "withdraw"
  /\ state[Head(commands).token] = "removed"
  /\ commands' = Tail(commands)
  /\ UNCHANGED <<state, request, former, armed, performing, pending>>

\* advanceToEntered: the boundary events of the activity are initiated, then it
\* becomes busy or, the entry being infeasible, fails.
Enter(t) ==
  /\ \/ state' = [state EXCEPT ![t] = "busy"] /\ commands' = Tail(commands)
     \/ state' = [state EXCEPT ![t] = "entered"] /\ Queue(Command("fail", t))
  /\ armed' = armed \union {t}
  /\ UNCHANGED <<request, former, performing, pending>>

\* advanceToCompleted: the restrictions are satisfied or the token fails.
Complete(t) ==
  /\ state' = [state EXCEPT ![t] = "completed"]
  /\ \E name \in {"fromCompleted", "fail"} : Queue(Command(name, t))
  /\ UNCHANGED <<request, former, armed, performing, pending>>

\* advanceFromCompleted: the performer is released, then the activity loops,
\* its token awaiting entry behind the others, or the token is done.
FromCompleted(t) ==
  /\ performing' = None
  /\ \/ /\ state' = [state EXCEPT ![t] = "ready"]
        /\ pending' = Append(pending, t)
        /\ request' = request \union Renewed({}) \union AwaitEntry(t, FALSE)
        /\ UNCHANGED armed
     \/ /\ state' = [state EXCEPT ![t] = "removed"]
        /\ armed' = armed \ {t}
        /\ request' = request \union Renewed({})
        /\ UNCHANGED pending
  /\ commands' = Tail(commands)
  /\ UNCHANGED former

Fail(t) ==
  /\ ReleaseOnFailure(t)
  /\ state' = [state EXCEPT ![t] = "failed"]
  /\ Queue(Command("handleFailure", t))
  /\ UNCHANGED <<former, armed, pending>>

\* The failure is caught at the activity or fails the ad-hoc subprocess.
HandleFailure(t) ==
  /\ \/ t \in armed /\ Queue(Command("interrupt", t))
     \/ Queue(Withdrawal(ScopeOf[t]))
  /\ UNCHANGED <<state, request, former, armed, performing, pending>>

\* The tokens in a scope or at an activity are withdrawn and removed.
Remove(gone) ==
  /\ Withdraw(gone)
  /\ state' = [t \in Tokens |-> IF t \in gone THEN "removed" ELSE state[t]]
  /\ armed' = armed \ gone
  /\ former' = former \ gone
  /\ commands' = Tail(commands)
  /\ UNCHANGED pending

\* The command at the front is the one named, and its token still exists.
Runs(name, t) ==
  /\ ~Settled
  /\ Head(commands) = Command(name, t)
  /\ state[t] # "removed"

ExecuteFor(t) ==
  \/ Runs("enter", t) /\ Enter(t)
  \/ Runs("complete", t) /\ Complete(t)
  \/ Runs("fromCompleted", t) /\ FromCompleted(t)
  \/ Runs("fail", t) /\ Fail(t)
  \/ Runs("handleFailure", t) /\ HandleFailure(t)
  \/ Runs("interrupt", t) /\ Remove({t})

ExecuteWithdrawal(s) ==
  /\ ~Settled
  /\ Head(commands) = Withdrawal(s)
  /\ Remove(Present(s))

Execute ==
  \/ Skip
  \/ \E t \in Tokens : ExecuteFor(t)
  \/ \E s \in Scopes : ExecuteWithdrawal(s)

Next ==
  \/ \E s \in Scopes : StartScope(s)
  \/ \E t \in Tokens : ReadyEvent(t)
  \/ \E t \in Tokens, basis \in {"current", "former"} : EntryEvent(t, basis)
  \/ \E t \in Tokens : CompletionEvent(t)
  \/ Trigger
  \/ InstallCopy
  \/ Execute

Spec == Init /\ [][Next]_vars

\* Controllers decide while they are asked, commands are executed, and what is
\* busy is completed.
FairSpec ==
  /\ Spec
  /\ WF_vars(Execute)
  /\ WF_vars(\E t \in Tokens : EntryEvent(t, "current"))
  /\ WF_vars(\E t \in Tokens : CompletionEvent(t))

-----------------------------------------------------------------------------
\* The states of a token between occupying and releasing the performer.
Performed == {t \in Tokens : state[t] \in {"entered", "busy", "completed"}}

\* Types of all variables.
TypeOK ==
  /\ state \in [Tokens -> States]
  /\ request \subseteq Tokens
  /\ former \subseteq Tokens
  /\ armed \subseteq Tokens
  /\ performing \in Tokens \union {None}
  /\ pending \in Seq(Tokens)
  /\ commands \in Seq(CommandSet)

\* At most one child activity of all ad-hoc subprocesses sharing a performer is
\* performed at any time, and the performer knows which: what
\* SequentialAdHocSubProcess guarantees, through failure, loop and withdrawal.
MutualExclusion ==
  \A t \in Performed : performing = t

\* Once an event is processed, the performer is held by a child activity that
\* is busy: one that failed, completed or was withdrawn has released it.
HeldByBusy == Settled /\ performing # None => state[performing] = "busy"

\* A decision is requested for every child awaiting entry whenever the performer
\* is idle, and for none while it is busy: a missing request is a child never
\* entered, a request too many an entry the performer must not allow.
RequestedIffIdle ==
  Settled => request = {t \in Tokens : state[t] = "ready" /\ performing = None}

\* The performer lists every child awaiting entry once.
ListedOnce ==
  \A t \in Tokens :
    state[t] = "ready" /\ ~(\E k \in DOMAIN commands : commands[k] = Command("enter", t)) =>
      Cardinality({k \in DOMAIN pending : pending[k] = t}) = 1

\* Children are entered in the order listed, as InstantEntry enters them, and
\* no copy of the state rearranges the list.
InOrder ==
  /\ ~InstallCopy
  /\ \A k \in DOMAIN pending :
       EntryEvent(pending[k], "current") => \A j \in 1..(k - 1) : pending[j] \notin Waiting

\* If controllers eventually enter in order, no child awaits entry forever, even
\* with looping activities contending: requests are renewed for all, and a child
\* that loops queues behind the others.
NoStarvation ==
  <>[][InOrder]_vars => \A t \in Tokens : state[t] = "ready" ~> state[t] # "ready"
=============================================================================
