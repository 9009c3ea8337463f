------------------------------- MODULE Mailbox -------------------------------
(***************************************************************************)
(* MailboxService (apps/daemon/src/modules/mailbox/mailbox.ts): the        *)
(* durable Bot-mail queue.  A source Bot's tool call enqueues a delivery   *)
(* in one transaction; a bounded in-memory pool of dispatchers claims it,  *)
(* inserts a target Turn and waits until the target's Agent worker accepts *)
(* the message; daemon start-up reconciles whatever a crash interrupted.   *)
(*                                                                         *)
(* Durable (SQLite): mail, turn, bot, unread, unreadMail.  In memory, lost *)
(* in a crash: pending, phase, rerun, activeDispatches, drainScheduled and *)
(* the process-local readiness.  A delivery is an index 1..MaxMail, its    *)
(* target Thread is named by the same index, and SQLite transactions and   *)
(* synchronous JavaScript sections are single steps.                       *)
(***************************************************************************)
EXTENDS Naturals, Sequences, FiniteSets

CONSTANTS
  Bots,           \* Bot identities
  Agents,         \* Agent identities; several Bots may share one
  AgentOf,        \* AgentOf[b]: the Agent that Bot b references
  Calls,          \* idempotency keys: (source Turn, source Tool Call)
  SourceOf,       \* SourceOf[c]: the Bot whose Turn makes call c
  MaxMail,        \* bound: deliveries ever enqueued
  MaxDispatches,  \* MAX_CONCURRENT_DISPATCHES (4 in the code)
  MaxStarts,      \* bound: daemon starts after the first
  Outcomes,       \* input: how target Turns may end
  Deletable,      \* input: the Bots a user may delete
  None            \* no Bot, no call

ASSUME MailboxAssumption ==
  /\ AgentOf \in [Bots -> Agents]
  /\ SourceOf \in [Calls -> Bots]
  /\ MaxMail \in Nat
  /\ MaxDispatches \in Nat \ {0}
  /\ MaxStarts \in Nat
  /\ Outcomes \subseteq {"completed", "cancelled", "failed"}
  /\ Deletable \subseteq Bots
  /\ None \notin Bots \cup Calls

VARIABLES
  daemon,            \* "down", "recovered", "up" or "stopping"
  starts,            \* daemon starts so far (bounds crashes)
  ready,             \* AgentsRegistry.isReady
  bot,               \* Bot row and bot_deletions row
  mail,              \* bot_mail_deliveries
  turn,              \* statuses of the Turn rows inserted for a delivery
  unread,            \* bot_state.unread_count
  unreadMail,        \* bot_state.unread_thread_id (0: NULL)
  pending,           \* #pending and #pendingDeliveryIds
  phase,             \* where the #dispatch of a delivery in #active is
  rerun,             \* #rerun
  activeDispatches,  \* #activeDispatches
  drainScheduled     \* #drainScheduled

durable == <<bot, mail, turn, unread, unreadMail>>
queue == <<pending, phase, rerun, activeDispatches, drainScheduled>>
vars == <<daemon, starts, ready, durable, queue>>

Ids == 1..MaxMail
MailState == {"none", "queued", "dispatching", "delivered", "failed", "gone"}
TurnStatus == {"working", "completed", "cancelled", "failed"}
Terminal == TurnStatus \ {"working"}

(* Bot rows: "cleaning" and "drained" are the two halves of a deletion     *)
(* whose bot_deletions row says 'cleaning' - before and after the service  *)
(* has seen every active Turn of the Bot terminal.                         *)
BotState == {"present", "cleaning", "drained", "deleteFailed", "deleted"}
Deleting(b) == bot[b] \in {"cleaning", "drained"}

NoMail == [state |-> "none", call |-> None, source |-> None, target |-> None, turn |-> 0]

TypeOK ==
  /\ daemon \in {"down", "recovered", "up", "stopping"}
  /\ starts \in 0..MaxStarts
  /\ ready \in [Agents -> BOOLEAN]
  /\ bot \in [Bots -> BotState]
  /\ mail \in [Ids -> [state : MailState, call : Calls \cup {None},
                       source : Bots \cup {None}, target : Bots \cup {None},
                       turn : Nat]]
  /\ turn \in [Ids -> Seq(TurnStatus)]
  /\ unread \in [Bots -> Nat]
  /\ unreadMail \in [Bots -> Ids \cup {0}]
  /\ pending \in Seq(Ids)
  /\ phase \in [Ids -> {"idle", "awaiting", "settled"}]
  /\ rerun \in SUBSET Ids
  /\ activeDispatches \in Nat
  /\ drainScheduled \in BOOLEAN

Running == daemon \in {"up", "stopping"}
Live(d) == mail[d].state \notin {"none", "gone"}
Elements(s) == {s[i] : i \in DOMAIN s}
Active == {d \in Ids : phase[d] # "idle"}

Duplicate(c) == \E d \in Ids : Live(d) /\ mail[d].call = c
Unused == {d \in Ids : mail[d].state = "none"}
Queued(d) == mail[d].state = "queued" /\ mail[d].turn = 0

Init ==
  /\ daemon = "up"
  /\ starts = 0
  /\ ready = [a \in Agents |-> FALSE]
  /\ bot = [b \in Bots |-> "present"]
  /\ mail = [d \in Ids |-> NoMail]
  /\ turn = [d \in Ids |-> <<>>]
  /\ unread = [b \in Bots |-> 0]
  /\ unreadMail = [b \in Bots |-> 0]
  /\ pending = <<>>
  /\ phase = [d \in Ids |-> "idle"]
  /\ rerun = {}
  /\ activeDispatches = 0
  /\ drainScheduled = FALSE

-----------------------------------------------------------------------------
(* The rows of S in the order their queries return them: oldest first.     *)
InOrder(s, S) ==
  /\ Elements(s) = S
  /\ \A i, j \in DOMAIN s : i < j => s[i] < s[j]

(* Mutant: a request for a delivery being dispatched is dropped.           *)
ScheduleDispatchNoRerun(D) ==
  LET new == (D \ Active) \ Elements(pending) IN
  /\ rerun' = rerun
  /\ \E s \in [1..Cardinality(new) -> new] : InOrder(s, new) /\ pending' = pending \o s
  /\ drainScheduled' = (drainScheduled \/ new # {})

(* Mutant: rows are queued but the drain microtask is not requested.       *)
ScheduleDispatchNoDrain(D) ==
  LET new == (D \ Active) \ Elements(pending) IN
  /\ rerun' = rerun \cup (D \cap Active)
  /\ \E s \in [1..Cardinality(new) -> new] : InOrder(s, new) /\ pending' = pending \o s
  /\ drainScheduled' = drainScheduled

(* #scheduleDispatch for each of D: a delivery being dispatched is run     *)
(* again afterwards, one already pending is left alone, any other joins    *)
(* the queue and a drain microtask is requested.                           *)
ScheduleDispatch(D) ==
  LET new == (D \ Active) \ Elements(pending) IN
  /\ rerun' = rerun \cup (D \cap Active)
  /\ \E s \in [1..Cardinality(new) -> new] :
       /\ InOrder(s, new)
       /\ pending' = pending \o s
  /\ drainScheduled' = (drainScheduled \/ new # {})

(* enqueue: one transaction inserts the target Thread, its message and the *)
(* delivery and raises the target's attention; then dispatch is requested. *)
(* A repeated Tool Call is answered with its existing delivery.            *)
Enqueue(c, b) ==
  /\ Running
  /\ ~Duplicate(c)
  /\ b # SourceOf[c]
  /\ bot[SourceOf[c]] \in {"present", "deleteFailed"}
  /\ bot[b] \in {"present", "deleteFailed"}
  /\ \E d \in Unused :
       /\ \A e \in Unused : d <= e
       /\ mail' = [mail EXCEPT ![d] = [state |-> "queued", call |-> c, source |-> SourceOf[c],
                                       target |-> b, turn |-> 0]]
       /\ unread' = [unread EXCEPT ![b] = @ + 1]
       /\ unreadMail' = [unreadMail EXCEPT ![b] = d]
       /\ ScheduleDispatch({d})
  /\ UNCHANGED <<daemon, starts, ready, bot, turn, phase, activeDispatches>>

(* The two reads of a delivery before its claim - #dispatchRow and the     *)
(* claiming UPDATE - happen in one synchronous section, so they agree.     *)
Claimable(d) ==
  /\ Queued(d)
  /\ bot[mail[d].target] \notin {"cleaning", "drained", "deleted"}
  /\ ready[AgentOf[mail[d].target]]

(* Mutant: the pool comparison is <= instead of <.                         *)
RoomOffByOne(used) == (MaxDispatches + 1) - used

Room(used) == MaxDispatches - used

(* #drainDispatches: take pending deliveries while the pool has room.  The *)
(* synchronous head of each #dispatch runs inside the loop: it returns at  *)
(* once, or it claims the row, inserts the target Turn and waits.          *)
DrainDispatches(P, idle, used) ==
  LET n == IF Len(P) <= Room(used) THEN Len(P) ELSE Room(used)
      batch == {P[i] : i \in 1..n}
      claimed == {d \in batch : Claimable(d)}
  IN
  /\ pending' = SubSeq(P, n + 1, Len(P))
  /\ activeDispatches' = used + n
  /\ phase' = [d \in Ids |-> IF d \in claimed THEN "awaiting"
                             ELSE IF d \in batch THEN "settled"
                             ELSE IF d \in idle THEN "idle" ELSE phase[d]]
  /\ turn' = [d \in Ids |-> IF d \in claimed THEN Append(turn[d], "working") ELSE turn[d]]
  /\ mail' = [d \in Ids |-> IF d \in claimed
                            THEN [mail[d] EXCEPT !.state = "dispatching", !.turn = Len(turn[d]) + 1]
                            ELSE mail[d]]

(* The microtask #scheduleDispatch queued.                                 *)
DrainMicrotask ==
  /\ Running
  /\ drainScheduled
  /\ drainScheduled' = FALSE
  /\ DrainDispatches(pending, {}, activeDispatches)
  /\ UNCHANGED <<daemon, starts, ready, bot, unread, unreadMail, rerun>>

(* The finally of a dispatch: leave the pool, honour a rerun request,      *)
(* drain again.                                                            *)
FinishDispatch(d) ==
  /\ Running
  /\ phase[d] = "settled"
  /\ rerun' = rerun \ {d}
  /\ LET again == d \in rerun /\ d \notin Elements(pending) IN
     /\ drainScheduled' = (drainScheduled \/ again)
     /\ DrainDispatches(IF again THEN Append(pending, d) ELSE pending,
                        {d}, activeDispatches - 1)
  /\ UNCHANGED <<daemon, starts, ready, bot, unread, unreadMail>>

(* Mutant: a delivery whose Turn has already ended is not settled.         *)
OwnsWhileWorking(d) ==
  /\ mail[d].state = "dispatching"
  /\ turn[d] # <<>>
  /\ turn[d][Len(turn[d])] = "working"

Owns(d) == mail[d].state = "dispatching" /\ mail[d].turn = Len(turn[d])

(* startPeerMailTurn resolves: the worker accepted message.send.           *)
Accept(d) ==
  /\ Running
  /\ phase[d] = "awaiting"
  /\ phase' = [phase EXCEPT ![d] = "settled"]
  /\ mail' = IF Owns(d) THEN [mail EXCEPT ![d].state = "delivered"] ELSE mail
  /\ UNCHANGED <<daemon, starts, ready, bot, turn, unread, unreadMail, pending, rerun,
                 activeDispatches, drainScheduled>>

(* Mutant: failing overwrites Turns that have ended.                       *)
FailEvery(s) == [i \in DOMAIN s |-> "failed"]

FailWorking(s) == [i \in DOMAIN s |-> IF s[i] = "working" THEN "failed" ELSE s[i]]

(* startPeerMailTurn rejects: the worker could not start, open a session   *)
(* or accept the message.  A Turn that is not terminal yet is failed.      *)
Reject(d) ==
  /\ Running
  /\ phase[d] = "awaiting"
  /\ phase' = [phase EXCEPT ![d] = "settled"]
  /\ turn' = [turn EXCEPT ![d] = FailWorking(@)]
  /\ mail' = IF Owns(d) THEN [mail EXCEPT ![d].state = "failed"] ELSE mail
  /\ UNCHANGED <<daemon, starts, ready, bot, unread, unreadMail, pending, rerun,
                 activeDispatches, drainScheduled>>

(* TurnService settles a target Turn: output, abort, crash or timeout.     *)
EndTurn(d, outcome) ==
  /\ Running
  /\ turn[d] # <<>>
  /\ turn[d][Len(turn[d])] = "working"
  /\ turn' = [turn EXCEPT ![d][Len(turn[d])] = outcome]
  /\ UNCHANGED <<daemon, starts, ready, bot, mail, unread, unreadMail, queue>>

-----------------------------------------------------------------------------
(* The readiness listener: #scheduleAgentDispatch on a transition to ready.*)
BecomeReady(a) ==
  /\ Running
  /\ ~ready[a]
  /\ ready' = [ready EXCEPT ![a] = TRUE]
  /\ ScheduleDispatch({d \in Ids : /\ Queued(d)
                                   /\ AgentOf[mail[d].target] = a
                                   /\ ~Deleting(mail[d].target)})
  /\ UNCHANGED <<daemon, starts, durable, phase, activeDispatches>>

LoseReadiness(a) ==
  /\ Running
  /\ ready[a]
  /\ ready' = [ready EXCEPT ![a] = FALSE]
  /\ UNCHANGED <<daemon, starts, durable, queue>>

(* BotsService.clearUnread: opening the Thread the unread mark points at.  *)
ClearUnread(b) ==
  /\ Running
  /\ bot[b] # "deleted"
  /\ unreadMail[b] # 0
  /\ unread' = [unread EXCEPT ![b] = 0]
  /\ unreadMail' = [unreadMail EXCEPT ![b] = 0]
  /\ UNCHANGED <<daemon, starts, ready, bot, mail, turn, queue>>

MailTo(b) == {d \in Ids : Live(d) /\ mail[d].target = b}
Busy(b) == \E d \in MailTo(b) : \E i \in DOMAIN turn[d] : turn[d][i] = "working"

(* BotDeletionService: claim, wait for the active Turns, commit or fail.   *)
ClaimDeletion(b) ==
  /\ Running
  /\ bot[b] \in {"present", "deleteFailed"}
  /\ bot' = [bot EXCEPT ![b] = "cleaning"]
  /\ UNCHANGED <<daemon, starts, ready, mail, turn, unread, unreadMail, queue>>

DrainDeletion(b) ==
  /\ Running
  /\ bot[b] = "cleaning"
  /\ ~Busy(b)
  /\ bot' = [bot EXCEPT ![b] = "drained"]
  /\ UNCHANGED <<daemon, starts, ready, mail, turn, unread, unreadMail, queue>>

FailDeletion(b) ==
  /\ Running
  /\ Deleting(b)
  /\ bot' = [bot EXCEPT ![b] = "deleteFailed"]
  /\ UNCHANGED <<daemon, starts, ready, mail, turn, unread, unreadMail, queue>>

(* The final transaction: mail and Turns of the target go with it, mail it *)
(* sent stays with a NULL source.                                          *)
CommitDeletion(b) ==
  /\ Running
  /\ bot[b] = "drained"
  /\ bot' = [bot EXCEPT ![b] = "deleted"]
  /\ mail' = [d \in Ids |-> IF d \in MailTo(b) THEN [mail[d] EXCEPT !.state = "gone"]
                            ELSE IF mail[d].source = b THEN [mail[d] EXCEPT !.source = None]
                            ELSE mail[d]]
  /\ turn' = [d \in Ids |-> IF d \in MailTo(b) THEN <<>> ELSE turn[d]]
  /\ unread' = [unread EXCEPT ![b] = 0]
  /\ unreadMail' = [unreadMail EXCEPT ![b] = 0]
  /\ UNCHANGED <<daemon, starts, ready, queue>>

-----------------------------------------------------------------------------
(* SIGINT/SIGTERM: the shutdown awaits several services before the         *)
(* database closes, and the mailbox goes on working meanwhile.             *)
Stop ==
  /\ daemon = "up"
  /\ daemon' = "stopping"
  /\ UNCHANGED <<starts, ready, durable, queue>>

(* The process ends, after Stop or in a crash: everything in memory goes.  *)
Down ==
  /\ daemon \in {"recovered", "up", "stopping"}
  /\ starts < MaxStarts
  /\ daemon' = "down"
  /\ ready' = [a \in Agents |-> FALSE]
  /\ pending' = <<>>
  /\ phase' = [d \in Ids |-> "idle"]
  /\ rerun' = {}
  /\ activeDispatches' = 0
  /\ drainScheduled' = FALSE
  /\ UNCHANGED <<starts, durable>>

(* recoverOnStartup: working Turns fail, interrupted deletions fail.       *)
RecoverOnStartup ==
  /\ daemon = "down"
  /\ daemon' = "recovered"
  /\ starts' = starts + 1
  /\ turn' = [d \in Ids |-> FailWorking(turn[d])]
  /\ bot' = [b \in Bots |-> IF Deleting(b) THEN "deleteFailed" ELSE bot[b]]
  /\ UNCHANGED <<ready, mail, unread, unreadMail, queue>>

Interrupted(d) == mail[d].state \in {"queued", "dispatching"} /\ mail[d].turn # 0

(* Mutant: reconciliation replays every interrupted claim.                 *)
ReconciledReplaying(d) ==
  IF mail[d].state = "dispatching" THEN [mail[d] EXCEPT !.state = "queued", !.turn = 0]
  ELSE mail[d]

(* The row reconcileStartup leaves: an unclaimed dispatch is queued again, *)
(* a delivery whose target Turn exists fails and is never replayed.        *)
Reconciled(d) ==
  IF mail[d].state = "dispatching" /\ mail[d].turn = 0 THEN [mail[d] EXCEPT !.state = "queued"]
  ELSE IF Interrupted(d) THEN [mail[d] EXCEPT !.state = "failed"]
  ELSE mail[d]

(* reconcileStartup, which also fails the target Turn of an interrupted    *)
(* delivery and schedules all that is queued.  agents.init has run before: *)
(* no Agent is ready.                                                      *)
ReconcileStartup ==
  /\ daemon = "recovered"
  /\ daemon' = "up"
  /\ mail' = [d \in Ids |-> Reconciled(d)]
  /\ turn' = [d \in Ids |-> IF Interrupted(d) THEN [turn[d] EXCEPT ![mail[d].turn] = "failed"]
                            ELSE turn[d]]
  /\ ScheduleDispatch({d \in Ids : Reconciled(d).state = "queued" /\ Reconciled(d).turn = 0})
  /\ UNCHANGED <<starts, ready, bot, unread, unreadMail, phase, activeDispatches>>

Next ==
  \/ \E c \in Calls, b \in Bots : Enqueue(c, b)
  \/ DrainMicrotask
  \/ \E d \in Ids : FinishDispatch(d)
  \/ \E d \in Ids : Accept(d)
  \/ \E d \in Ids : Reject(d)
  \/ \E d \in Ids, outcome \in Outcomes : EndTurn(d, outcome)
  \/ \E a \in Agents : BecomeReady(a)
  \/ \E a \in Agents : LoseReadiness(a)
  \/ \E b \in Bots : ClearUnread(b)
  \/ \E b \in Deletable : ClaimDeletion(b)
  \/ \E b \in Bots : DrainDeletion(b)
  \/ \E b \in Bots : FailDeletion(b)
  \/ \E b \in Bots : CommitDeletion(b)
  \/ Stop
  \/ Down
  \/ RecoverOnStartup
  \/ ReconcileStartup

(* The steps the daemon takes by itself: microtasks run, promises settle   *)
(* and a worker's acceptance is bounded by request timeouts (30 s to open, *)
(* 60 s to send).  Users, worker readiness, deletion and crashes promise   *)
(* nothing.                                                                *)
Fairness ==
  /\ WF_vars(DrainMicrotask)
  /\ \A d \in Ids : WF_vars(FinishDispatch(d)) /\ WF_vars(Accept(d) \/ Reject(d))

Spec == Init /\ [][Next]_vars
FairSpec == Spec /\ Fairness
-----------------------------------------------------------------------------
(* A delivery starts at most one target Turn in its whole life: readiness  *)
(* events, rerun requests and start-up reconciliation may all ask for its  *)
(* dispatch, over any number of crashes (claim UPDATE, reconcileStartup).  *)
ClaimedOnce == \A d \in Ids : Len(turn[d]) <= 1

(* While the daemon runs, a row left in 'dispatching' belongs to a pending *)
(* #dispatch, so it cannot stay there for ever (the two guarded UPDATEs).  *)
DispatchingIsOwned ==
  Running => \A d \in Ids : mail[d].state = "dispatching" => phase[d] = "awaiting"

(* A failed delivery is visible as one terminal Turn; a queued one has not *)
(* started any (startPeerMailTurn's catch, reconcileStartup).              *)
FailureIsVisible ==
  \A d \in Ids :
    /\ mail[d].state = "failed" => turn[d] # <<>> /\ turn[d][Len(turn[d])] \in Terminal
    /\ mail[d].state = "queued" => turn[d] = <<>>

(* The pool's counter is the number of dispatches under way and respects   *)
(* MAX_CONCURRENT_DISPATCHES (#drainDispatches and its finally).           *)
PoolAccounting ==
  activeDispatches = Cardinality(Active) /\ activeDispatches <= MaxDispatches

(* No lost wake-up: mail that could be claimed now is waiting in the queue *)
(* or will be put back into it, and a queue that is not empty has a drain  *)
(* coming or a full pool (#scheduleDispatch's active, pending and          *)
(* drainScheduled tests).  A Bot whose deletion failed is outside: mail    *)
(* skipped while it was being deleted waits for a readiness event.         *)
NoLostDispatch ==
  Running =>
    /\ \A d \in Ids : Claimable(d) /\ bot[mail[d].target] = "present" =>
         d \in Elements(pending) \/ (phase[d] = "settled" /\ d \in rerun)
    /\ pending # <<>> => drainScheduled \/ activeDispatches = MaxDispatches

(* Once a deletion has seen the Bot's Turns terminal, none starts until it *)
(* ends: the commit removes no working Turn (dispatch's deletion tests).   *)
DrainedStaysIdle == \A b \in Bots : bot[b] = "drained" => ~Busy(b)

(* Retrying a Tool Call never makes a second exchange, and unread attention*)
(* counts and points at mail the Bot still has (enqueue, clearUnread).     *)
RetryInvisible ==
  /\ \A d, e \in Ids : Live(d) /\ Live(e) /\ mail[d].call = mail[e].call => d = e
  /\ \A b \in Bots : /\ unread[b] <= Cardinality(MailTo(b))
                     /\ unreadMail[b] \in MailTo(b) \cup {0}
                     /\ unreadMail[b] = 0 <=> unread[b] = 0

(* The promises of the durable rows together: mail is neither lost, nor    *)
(* sent twice, nor dispatched behind a deletion's back (#scheduleDispatch, *)
(* enqueue's duplicate test, #dispatch's deletion test).                   *)
MailIsKept == TypeOK /\ NoLostDispatch /\ DrainedStaysIdle /\ RetryInvisible

(* What a row says of its delivery is true: a dispatching one has a live   *)
(* dispatcher, a failed one a terminal Turn, a queued one none.            *)
RowsTellTruth == DispatchingIsOwned /\ FailureIsVisible

TurnsFinal ==
  \A d \in Ids : \A i \in DOMAIN turn[d] :
    turn[d][i] \in Terminal =>
      turn'[d] = <<>> \/ (i \in DOMAIN turn'[d] /\ turn'[d][i] = turn[d][i])

(* A terminal target Turn keeps its status in every step but the start-up  *)
(* reconciliation (#setTurnStatus, recoverOnStartup).                      *)
TerminalOnceInService == [][daemon # "recovered" => TurnsFinal]_vars

(* packages/domain/src/turn.ts: a turn reaches a terminal state exactly    *)
(* once.  reconcileStartup's UPDATE of turns has no status condition.      *)
TerminalOnce == [][TurnsFinal]_vars

(* Queued mail is eventually settled if its target stays usable: the queue *)
(* neither starves nor forgets it (retry on readiness, bounded pool).      *)
Usable(d) ==
  /\ Running
  /\ mail[d].target \in Bots
  /\ bot[mail[d].target] = "present"
  /\ ready[AgentOf[mail[d].target]]

QueuedMailSettles ==
  \A d \in Ids : <>[]Usable(d) => <>[](mail[d].state \in {"delivered", "failed"})
=============================================================================
