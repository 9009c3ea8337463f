-------------------------------- MODULE Turns --------------------------------
(***************************************************************************)
(* The Turn lifecycle: TurnService (apps/daemon/src/modules/turns),        *)
(* Supervisor and WorkerClient (supervision/), AgentsRegistry readiness    *)
(* (modules/agents) and the session state of the Agent worker process      *)
(* (workers/pi).  A Turn leases the plugins, obtains its Agent's worker,   *)
(* opens a native session, sends the message and then waits for a terminal *)
(* worker event, its own timer, a crash of the worker, or an abort.        *)
(*                                                                         *)
(* A Turn is named by its insertion order and its worker session by the    *)
(* Turn.  Commands reach a live worker at once; everything the worker      *)
(* writes queues up per session and may be read arbitrarily late, so a     *)
(* reply can lose the race against its request's timeout.  Synchronous     *)
(* JavaScript sections are single steps.  Transcript rows and tool calls   *)
(* are Transcript's; steering is left out; deletion appears as its abort.  *)
(***************************************************************************)
EXTENDS Naturals, Sequences, FiniteSets

CONSTANTS
  Agents,      \* Agent identities: one worker process each
  Threads,     \* conversation Threads
  AgentOf,     \* AgentOf[th]: the Agent of the Bot that owns Thread th
  MaxTurns,    \* bound: Turns ever inserted
  MaxWorkers,  \* bound: worker processes ever spawned
  MaxStarts,   \* bound: daemon restarts
  Kinds,       \* input: subset of {"user", "peer"}
  MaxAborts,   \* bound: aborts of one Turn by lifecycle services
  Rechecks     \* input: may an Agent be rechecked while it is ready?

ASSUME TurnsAssumption ==
  /\ AgentOf \in [Threads -> Agents]
  /\ MaxTurns \in Nat
  /\ MaxWorkers \in Nat
  /\ MaxStarts \in Nat
  /\ Kinds \subseteq {"user", "peer"}
  /\ MaxAborts \in Nat
  /\ Rechecks \in BOOLEAN

Turns == 1..MaxTurns
Workers == 1..MaxWorkers

VARIABLES
  \* SQLite
  status,    \* turns.status ("none": not inserted)
  thread,    \* turns.thread_id
  native,    \* the Threads with a thread_sessions row
  notes,     \* "turn cancelled" system messages in the Turn's Thread
  \* TurnService
  peer,      \* the Turns started by the mailbox (startPeerMailTurn)
  accepted,  \* mail accepted by its worker, its delivery row not yet told
  start,     \* where #startTurn is: leasing, spawning or opening
  ctx,       \* the Turns in #turns
  lease,     \* the Turns holding a plugin lease
  sending,   \* the Turns whose message.send awaits its reply
  aborter,   \* where an abortTurn of the Turn is
  aborts,    \* abortTurn calls so far (bounds retries)
  timedOut,  \* contexts with a timeoutFailureReason
  queue,     \* #timeoutQueues: expired Turns per Agent
  phase,     \* where #timeoutTurn of the queue's head is
  \* Supervisor and AgentsRegistry
  at,        \* the worker the Turn's start or session is on (0: none)
  current,   \* #agentWorkers (0: no entry)
  victim,    \* the worker stopAgentWorker is killing
  proc,      \* state of each worker process
  restart,   \* #restartTimers
  respawn,   \* the worker a restart timer waits for (0: none)
  ready,     \* status "ready" and its capability inventory
  probing,   \* the worker probed by the latest recheck generation (0: none)
  starts,    \* daemon restarts so far
  \* the Agent worker process
  session,   \* the SessionEntry of the Turn
  aborting,  \* the abort commands awaiting session.abort()
  out,       \* what the worker wrote for the session, not yet read
  verdict    \* ghost: the first terminal event of the session

rows == <<status, thread, native, notes>>
service == <<peer, accepted, start, ctx, lease, sending, aborter, aborts, timedOut>>
timeouts == <<queue, phase, victim>>
registry == <<current, proc, restart, respawn, ready, probing, starts>>
worker == <<session, aborting, out, verdict>>
vars == <<rows, service, timeouts, at, registry, worker>>

Terminal == {"completed", "cancelled", "failed"}
Aborters == {"timeout", "delete"}
Reply(re, ok) == [re |-> re, ok |-> ok]
Event(e) == [event |-> e]
Message == [re : {"open", "send"} \cup Aborters, ok : BOOLEAN]
             \cup [event : {"completed", "cancelled", "error"}]

TypeOK ==
  /\ status \in [Turns -> {"none", "working"} \cup Terminal]
  /\ thread \in [Turns -> Threads \cup {0}]
  /\ native \subseteq Threads
  /\ notes \in [Turns -> Nat]
  /\ peer \subseteq Turns
  /\ accepted \subseteq peer
  /\ start \in [Turns -> {"none", "leasing", "spawning", "opening"}]
  /\ ctx \subseteq Turns
  /\ lease \subseteq Turns
  /\ sending \subseteq Turns
  /\ aborter \in [Turns -> {"none", "starting", "resume", "pending"}]
  /\ aborts \in [Turns -> Nat]
  /\ timedOut \subseteq Turns
  /\ queue \in [Agents -> Seq(Turns)]
  /\ phase \in [Agents -> {"idle", "aborting", "confirming", "stopping"}]
  /\ at \in [Turns -> Workers \cup {0}]
  /\ current \in [Agents -> Workers \cup {0}]
  /\ victim \in [Agents -> Workers \cup {0}]
  /\ proc \in [Workers -> {"none", "starting", "up", "stopping", "dead"}]
  /\ restart \in [Agents -> BOOLEAN]
  /\ respawn \in [Agents -> Workers \cup {0}]
  /\ ready \in [Agents -> BOOLEAN]
  /\ probing \in [Agents -> Workers \cup {0}]
  /\ starts \in 0..MaxStarts
  /\ session \in [Turns -> {"none", "opening", "idle", "reading", "running", "settled",
                            "ended", "stale", "hidden", "closed"}]
  /\ aborting \in [Turns -> SUBSET Aborters]
  /\ out \in [Turns -> Seq(Message)]
  /\ verdict \in [Turns -> {"none", "completed", "cancelled", "error"}]

Agent(t) == AgentOf[thread[t]]
Used == {t \in Turns : status[t] # "none"}
(* Mutant: only Turns whose message was not accepted yet.                  *)
SendingOf(a) == {t \in Used \cap sending : Agent(t) = a}

TurnsOf(a) == {t \in Used : Agent(t) = a}
Alive(w) == w # 0 /\ proc[w] \in {"starting", "up", "stopping"}
On(w) == {t \in Turns : at[t] = w}

Init ==
  /\ status = [t \in Turns |-> "none"]
  /\ thread = [t \in Turns |-> 0]
  /\ native = {}
  /\ notes = [t \in Turns |-> 0]
  /\ peer = {}
  /\ accepted = {}
  /\ start = [t \in Turns |-> "none"]
  /\ ctx = {}
  /\ lease = {}
  /\ sending = {}
  /\ aborter = [t \in Turns |-> "none"]
  /\ aborts = [t \in Turns |-> 0]
  /\ timedOut = {}
  /\ queue = [a \in Agents |-> <<>>]
  /\ phase = [a \in Agents |-> "idle"]
  /\ at = [t \in Turns |-> 0]
  /\ current = [a \in Agents |-> 0]
  /\ victim = [a \in Agents |-> 0]
  /\ proc = [w \in Workers |-> "none"]
  /\ restart = [a \in Agents |-> FALSE]
  /\ respawn = [a \in Agents |-> 0]
  /\ ready = [a \in Agents |-> FALSE]
  /\ probing = [a \in Agents |-> 0]
  /\ starts = 0
  /\ session = [t \in Turns |-> "none"]
  /\ aborting = [t \in Turns |-> {}]
  /\ out = [t \in Turns |-> <<>>]
  /\ verdict = [t \in Turns |-> "none"]

-----------------------------------------------------------------------------
(* #setTurnStatus: a terminal status is never replaced.                    *)
SetTurnStatus(from, next) == IF from = "working" THEN next ELSE from

(* Mutant: the catch of send fails no Turn.                                *)
SettledOnlyContexts(t, ended, outcome, rejected) ==
  IF t \in ended THEN SetTurnStatus(status[t], outcome) ELSE status[t]

SettledStatus(t, ended, outcome, rejected) ==
  LET ended1 == IF t \in ended THEN SetTurnStatus(status[t], outcome) ELSE status[t]
      failed == SetTurnStatus(ended1, "failed")
  IN
  IF t \notin rejected THEN ended1
  ELSE IF aborter[t] = "starting" THEN SetTurnStatus(failed, "cancelled") ELSE failed

Released(ended, rejected) == ended \cup rejected

(* #finishTurn of the contexts in done, and the rejection of the start     *)
(* promises in rejected, whose Turns the catch of send fails unless they   *)
(* are terminal.  An abort that was waiting for such a start then cancels  *)
(* the Turn, which has no effect by now, and leaves its system note.       *)
Settle(done, outcome, rejected) ==
  LET ended == done \cap ctx IN
  /\ ctx' = ctx \ ended
  /\ lease' = lease \ Released(ended, rejected)
  /\ status' = [t \in Turns |-> SettledStatus(t, ended, outcome, rejected)]
  /\ start' = [t \in Turns |-> IF t \in rejected THEN "none" ELSE start[t]]
  /\ notes' = [t \in Turns |-> notes[t] + (IF t \in ended /\ outcome = "cancelled" THEN 1 ELSE 0)
                                 + (IF t \in rejected /\ aborter[t] = "starting" THEN 1 ELSE 0)]

Waiting(T) == {t \in T : aborter[t] = "starting"}
Aborted(T) == [t \in Turns |-> IF t \in T THEN "none" ELSE aborter[t]]

(* Mutant: a busy session is not closed.                                   *)
ClosedIfIdle(s) == IF s = "running" THEN s ELSE "closed"

(* session.close; a message whose attachments are being read at that       *)
(* moment still goes to the disposed session afterwards.                   *)
Closed(s) == IF s = "reading" THEN "stale" ELSE "closed"

(* closeSession of the contexts in done whose worker is alive.             *)
CloseSessions(done) ==
  session' = [t \in Turns |-> IF t \in done \cap ctx /\ Alive(at[t]) THEN Closed(session[t])
                              ELSE session[t]]

(* AgentsRegistry.markOffline also ends the recheck generation.            *)
MarkOffline(a) ==
  /\ ready' = [ready EXCEPT ![a] = FALSE]
  /\ probing' = [probing EXCEPT ![a] = 0]

Says(t, m) == out[t] # <<>> /\ Head(out[t]) = m
Read(t) == out' = [out EXCEPT ![t] = Tail(@)]

(* Supervisor.agentWorker: the Agent's live worker, or a new process.      *)
AgentWorker(a, w) ==
  \/ /\ Alive(current[a])
     /\ w = current[a]
     /\ UNCHANGED <<current, proc>>
  \/ /\ ~Alive(current[a])
     /\ w \in Workers
     /\ proc[w] = "none"
     /\ \A v \in Workers : proc[v] = "none" => w <= v
     /\ current' = [current EXCEPT ![a] = w]
     /\ proc' = [proc EXCEPT ![w] = "starting"]

(* The worker's sessions map has no such entry.                            *)
Forgotten == {"none", "stale", "hidden", "closed"}

(* turn.abort sent to worker w: it is refused where the session is unknown,*)
(* does nothing to a session that is not running (one still reading its    *)
(* attachments included), and otherwise waits for session.abort().         *)
SendAbort(t, by, w) ==
  IF w = at[t] /\ session[t] = "running"
  THEN /\ aborting' = [aborting EXCEPT ![t] = @ \cup {by}]
       /\ UNCHANGED out
  ELSE /\ out' = [out EXCEPT ![t] =
            Append(@, Reply(by, w = at[t] /\ session[t] \notin Forgotten))]
       /\ UNCHANGED aborting

(* Mutant: a Turn that is still starting does not count.                   *)
BusyWithContext(th) == \E t \in ctx : thread[t] = th /\ status[t] = "working"

Busy(th) == \E t \in Turns : thread[t] = th /\ status[t] = "working"

(* send: a Thread with an active Turn is steered instead, and nothing      *)
(* starts while a timed-out session is being stopped.  The mailbox's claim *)
(* looks at neither: its Thread, one per delivery, is there from the       *)
(* enqueue on, so the user may have sent into it before.                   *)
Send(t, th, k) ==
  /\ status[t] = "none"
  /\ \A u \in Turns : status[u] = "none" => t <= u
  /\ ready[AgentOf[th]]
  /\ IF k = "peer" THEN \A u \in peer : thread[u] # th
     ELSE ~Busy(th) /\ queue[AgentOf[th]] = <<>>
  /\ status' = [status EXCEPT ![t] = "working"]
  /\ thread' = [thread EXCEPT ![t] = th]
  /\ peer' = IF k = "peer" THEN peer \cup {t} ELSE peer
  /\ start' = [start EXCEPT ![t] = "leasing"]
  /\ UNCHANGED <<aborts, native, notes, accepted, ctx, lease, sending, aborter, timedOut,
                 timeouts, at, registry, worker>>

(* plugins.acquire resolves; the worker is there or is spawned.            *)
LeasePlugins(t) ==
  /\ start[t] = "leasing"
  /\ lease' = lease \cup {t}
  /\ start' = [start EXCEPT ![t] = "spawning"]
  /\ \E w \in Workers : AgentWorker(Agent(t), w) /\ at' = [at EXCEPT ![t] = w]
  /\ UNCHANGED <<rows, aborts, peer, accepted, ctx, sending, aborter, timedOut, timeouts, restart,
                 respawn, ready, probing, starts, worker>>

(* A resume needs the capability inventory that readiness carries.         *)
ResumeRefused(t) == t \notin peer /\ thread[t] \in native /\ ~ready[Agent(t)]

OpenSession(t) ==
  /\ start[t] = "spawning"
  /\ proc[at[t]] = "up"
  /\ ~ResumeRefused(t)
  /\ start' = [start EXCEPT ![t] = "opening"]
  /\ session' = [session EXCEPT ![t] = "opening"]
  /\ UNCHANGED <<rows, aborts, peer, accepted, ctx, lease, sending, aborter, timedOut, timeouts,
                 at, registry, aborting, out, verdict>>

(* #startTurn rejects: no lease, no handshake within 15 s, no resume, no   *)
(* session within 30 s.                                                    *)
StartFails(t) ==
  /\ start[t] # "none"
  /\ start[t] = "spawning" => proc[at[t]] = "starting" \/ ResumeRefused(t)
  /\ Settle({}, "failed", {t})
  /\ aborter' = Aborted(Waiting({t}))
  /\ UNCHANGED <<aborts, thread, native, peer, accepted, sending, timedOut, timeouts, at,
                 registry, worker>>

OpenRefused(t) ==
  /\ start[t] = "opening"
  /\ Says(t, Reply("open", FALSE))
  /\ Read(t)
  /\ Settle({}, "failed", {t})
  /\ aborter' = Aborted(Waiting({t}))
  /\ UNCHANGED <<aborts, thread, native, peer, accepted, sending, timedOut, timeouts, at,
                 registry, session, aborting, verdict>>

(* The session is open: the context is registered, its timer armed and     *)
(* message.send written.  An abort waiting for a user's start goes on.     *)
SessionOpened(t) ==
  /\ start[t] = "opening"
  /\ Says(t, Reply("open", TRUE))
  /\ Read(t)
  /\ start' = [start EXCEPT ![t] = "none"]
  /\ native' = native \cup {thread[t]}
  /\ ctx' = ctx \cup {t}
  /\ sending' = sending \cup {t}
  /\ session' = [session EXCEPT ![t] = "reading"]
  /\ aborter' = IF t \notin peer /\ aborter[t] = "starting"
                THEN [aborter EXCEPT ![t] = "resume"] ELSE aborter
  /\ UNCHANGED <<aborts, status, thread, notes, peer, accepted, lease, timedOut, timeouts, at,
                 registry, aborting, verdict>>

SendAccepted(t) ==
  /\ t \in sending
  /\ Says(t, Reply("send", TRUE))
  /\ Read(t)
  /\ sending' = sending \ {t}
  /\ accepted' = IF t \in peer THEN accepted \cup {t} ELSE accepted
  /\ aborter' = IF aborter[t] = "starting" THEN [aborter EXCEPT ![t] = "resume"] ELSE aborter
  /\ UNCHANGED <<rows, aborts, peer, start, ctx, lease, timedOut, timeouts, at, registry, session,
                 aborting, verdict>>

(* The mailbox's await goes on and marks the row delivered.  What the      *)
(* worker wrote along with its answer may have been handled before.        *)
Delivered(t) ==
  /\ t \in accepted
  /\ accepted' = accepted \ {t}
  /\ UNCHANGED <<rows, peer, start, ctx, lease, sending, aborter, aborts, timedOut, timeouts, at,
                 registry, worker>>

(* message.send is refused, or not answered within 60 s: failSend for a    *)
(* user's Turn, the rejected start promise for peer mail.                  *)
SendFails(t) ==
  /\ t \in sending
  /\ \/ Says(t, Reply("send", FALSE)) /\ Read(t)
     \/ UNCHANGED out
  /\ sending' = sending \ {t}
  /\ Settle({t}, "failed", {t} \cap peer)
  /\ CloseSessions({t})
  /\ aborter' = Aborted(Waiting({t} \cap peer))
  /\ UNCHANGED <<aborts, thread, native, peer, accepted, timedOut, timeouts, at, registry,
                 aborting, verdict>>

(* Mutant: a timeout is forgotten.                                         *)
OutcomeForgettingTimeout(t, e) == IF e = "error" THEN "failed" ELSE e

(* onAgentEvent and #routeTurnEvent: a terminal event ends the Turn, if    *)
(* the Agent is ready and the session still has its context.               *)
Outcome(t, e) ==
  IF e = "completed" THEN "completed"
  ELSE IF e = "cancelled" /\ t \notin timedOut THEN "cancelled" ELSE "failed"

EventReceived(t, e) ==
  /\ Says(t, Event(e))
  /\ Read(t)
  /\ LET done == IF ready[Agent(t)] THEN {t} ELSE {} IN
     Settle(done, Outcome(t, e), {}) /\ CloseSessions(done)
  /\ UNCHANGED <<aborts, thread, native, peer, accepted, sending, aborter, timedOut, timeouts, at,
                 registry, aborting, verdict>>

Expected(t, m) ==
  \/ m.re = "open" /\ start[t] = "opening"
  \/ m.re = "send" /\ t \in sending
  \/ m.re = "delete" /\ aborter[t] = "pending"
  \/ m.re = "timeout" /\ phase[Agent(t)] = "aborting" /\ Head(queue[Agent(t)]) = t

(* WorkerClient drops the reply of a request that has timed out.           *)
ReplyIgnored(t) ==
  /\ \E m \in [re : {"open", "send"} \cup Aborters, ok : BOOLEAN] : Says(t, m) /\ ~Expected(t, m)
  /\ Read(t)
  /\ UNCHANGED <<rows, service, timeouts, at, registry, session, aborting, verdict>>

-----------------------------------------------------------------------------
(* abortTurn, by a lifecycle service: at once where the Turn has a context,*)
(* otherwise after its start.                                              *)
AbortTurn(t) ==
  /\ aborts[t] < MaxAborts
  /\ aborts' = [aborts EXCEPT ![t] = @ + 1]
  /\ status[t] = "working"
  /\ aborter[t] = "none"
  /\ ready[Agent(t)]
  /\ aborter' = [aborter EXCEPT ![t] = IF t \in ctx THEN "pending" ELSE "starting"]
  /\ IF t \in ctx THEN \E w \in Workers : AgentWorker(Agent(t), w) /\ SendAbort(t, "delete", w)
     ELSE UNCHANGED <<current, proc, aborting, out>>
  /\ UNCHANGED <<rows, peer, accepted, start, ctx, lease, sending, timedOut, timeouts, at,
                 restart, respawn, ready, probing, starts, session, verdict>>

(* The start resolved: abort its session, if the Agent is still ready.     *)
AbortResumes(t) ==
  /\ aborter[t] = "resume"
  /\ aborter' = [aborter EXCEPT ![t] = IF ready[Agent(t)] THEN "pending" ELSE "none"]
  /\ IF ready[Agent(t)]
     THEN \E w \in Workers : AgentWorker(Agent(t), w) /\ SendAbort(t, "delete", w)
     ELSE UNCHANGED <<current, proc, aborting, out>>
  /\ UNCHANGED <<rows, aborts, peer, accepted, start, ctx, lease, sending, timedOut, timeouts, at,
                 restart, respawn, ready, probing, starts, session, verdict>>

(* turn.abort is answered, or times out after 30 s.                        *)
AbortAnswered(t) ==
  /\ aborter[t] = "pending"
  /\ \/ \E ok \in BOOLEAN : Says(t, Reply("delete", ok)) /\ Read(t)
     \/ UNCHANGED out
  /\ aborter' = Aborted({t})
  /\ UNCHANGED <<rows, aborts, peer, accepted, start, ctx, lease, sending, timedOut, timeouts, at,
                 registry, session, aborting, verdict>>

(* The Turn timer fires: #queueTimeout.                                    *)
TurnExpires(t) ==
  /\ t \in ctx
  /\ \A i \in DOMAIN queue[Agent(t)] : queue[Agent(t)][i] # t
  /\ queue' = [queue EXCEPT ![Agent(t)] = Append(@, t)]
  /\ UNCHANGED <<rows, service, phase, victim, at, registry, worker>>

(* Supervisor.stopAgentWorker: the entry goes at once, the process within  *)
(* 3 s; its exit is expected and is not a crash.                           *)
StopAgentWorker(a) ==
  /\ phase' = [phase EXCEPT ![a] = "stopping"]
  /\ victim' = [victim EXCEPT ![a] = current[a]]
  /\ current' = [current EXCEPT ![a] = 0]
  /\ proc' = [w \in Workers |-> IF w = current[a] /\ Alive(w) THEN "stopping" ELSE proc[w]]
  /\ restart' = [restart EXCEPT ![a] = FALSE]

Done(a) ==
  /\ queue' = [queue EXCEPT ![a] = Tail(@)]
  /\ phase' = [phase EXCEPT ![a] = "idle"]

(* #timeoutTurn for the head of the queue: nothing for a Turn that has     *)
(* ended, a native abort if the inventory has one, else the worker goes.   *)
TimeoutTurn(a) ==
  /\ phase[a] = "idle"
  /\ queue[a] # <<>>
  /\ LET t == Head(queue[a]) IN
     \/ /\ t \notin ctx
        /\ Done(a)
        /\ UNCHANGED <<timedOut, victim, current, proc, restart, aborting, out>>
     \/ /\ t \in ctx
        /\ ready[a]
        /\ timedOut' = timedOut \cup {t}
        /\ phase' = [phase EXCEPT ![a] = "aborting"]
        /\ \E w \in Workers : AgentWorker(a, w) /\ SendAbort(t, "timeout", w)
        /\ UNCHANGED <<queue, victim, restart>>
     \/ /\ t \in ctx
        /\ ~ready[a]
        /\ StopAgentWorker(a)
        /\ UNCHANGED <<queue, timedOut, aborting, out>>
  /\ UNCHANGED <<rows, aborts, peer, accepted, start, ctx, lease, sending, aborter, at, respawn,
                 ready, probing, starts, session, verdict>>

(* The abort succeeded: wait up to 5 s for the terminal status.            *)
TimeoutAborted(a) ==
  /\ phase[a] = "aborting"
  /\ Says(Head(queue[a]), Reply("timeout", TRUE))
  /\ Read(Head(queue[a]))
  /\ phase' = [phase EXCEPT ![a] = "confirming"]
  /\ UNCHANGED <<rows, service, queue, victim, at, registry, session, aborting, verdict>>

TimeoutConfirmed(a) ==
  /\ phase[a] = "confirming"
  /\ status[Head(queue[a])] \in Terminal
  /\ Done(a)
  /\ UNCHANGED <<rows, service, victim, at, registry, worker>>

(* A failed or unconfirmed abort falls through to worker quarantine.       *)
QuarantineWorker(a) ==
  /\ \/ /\ phase[a] = "aborting"
        /\ \/ Says(Head(queue[a]), Reply("timeout", FALSE)) /\ Read(Head(queue[a]))
           \/ UNCHANGED out
     \/ /\ phase[a] = "confirming"
        /\ status[Head(queue[a])] \notin Terminal
        /\ UNCHANGED out
  /\ StopAgentWorker(a)
  /\ UNCHANGED <<rows, service, queue, at, respawn, ready, probing, starts, session, aborting,
                 verdict>>

(* The quarantined worker is gone: the Agent is offline and every context  *)
(* of the Agent fails.                                                     *)
WorkerStopped(a) ==
  /\ phase[a] = "stopping"
  /\ ~Alive(victim[a])
  /\ victim' = [victim EXCEPT ![a] = 0]
  /\ Done(a)
  /\ MarkOffline(a)
  /\ Settle(TurnsOf(a), "failed", {})
  /\ CloseSessions(TurnsOf(a))
  /\ UNCHANGED <<aborts, thread, native, peer, accepted, sending, aborter, timedOut, at, current,
                 proc, restart, respawn, starts, aborting, out, verdict>>

-----------------------------------------------------------------------------
(* The exit of worker w: its pending requests reject.  done: the contexts  *)
(* its exit hook fails besides those whose message.send was pending.       *)
WorkerExit(w, done) ==
  LET unsent == On(w) \cap sending
      rejected == {t \in On(w) : start[t] \in {"spawning", "opening"}} \cup (unsent \cap peer)
  IN
  /\ proc' = [proc EXCEPT ![w] = "dead"]
  /\ sending' = sending \ unsent
  /\ Settle(done \cup unsent, "failed", rejected)
  /\ aborter' = Aborted(Waiting(rejected) \cup {t \in On(w) : aborter[t] = "pending"})
  /\ session' = [t \in Turns |-> IF t \in On(w) THEN "closed"
                                 ELSE IF t \in done \cap ctx /\ Alive(at[t]) THEN Closed(session[t])
                                 ELSE session[t]]
  /\ aborting' = [t \in Turns |-> IF t \in On(w) THEN {} ELSE aborting[t]]
  /\ out' = [t \in Turns |-> IF t \in On(w) THEN <<>> ELSE out[t]]

(* Supervisor onExit: the Agent goes offline, its Turns fail and a restart *)
(* is due in a second.  A heartbeat missed by the watchdog ends here too.  *)
WorkerCrash(a) ==
  /\ current[a] # 0
  /\ proc[current[a]] \in {"starting", "up"}
  /\ WorkerExit(current[a], TurnsOf(a))
  /\ MarkOffline(a)
  /\ restart' = [restart EXCEPT ![a] = TRUE]
  /\ respawn' = [respawn EXCEPT ![a] = 0]
  /\ UNCHANGED <<aborts, thread, native, peer, accepted, timedOut, timeouts, at, current, starts,
                 verdict>>

(* The worker stopped on purpose exits: no crash, except to a restart that *)
(* was still waiting for its handshake.                                    *)
WorkerKilled(a) ==
  /\ phase[a] = "stopping"
  /\ Alive(victim[a])
  /\ LET w == victim[a]
         hook == respawn[a] = w
     IN
     /\ WorkerExit(w, IF hook THEN TurnsOf(a) ELSE {})
     /\ ready' = [ready EXCEPT ![a] = @ /\ ~hook /\ probing[a] # w]
     /\ probing' = [probing EXCEPT ![a] = IF hook \/ @ = w THEN 0 ELSE @]
     /\ respawn' = [respawn EXCEPT ![a] = IF hook THEN 0 ELSE @]
  /\ UNCHANGED <<aborts, thread, native, peer, accepted, timedOut, timeouts, at, current, restart,
                 starts, verdict>>

RestartWorker(a) ==
  /\ restart[a]
  /\ restart' = [restart EXCEPT ![a] = FALSE]
  /\ \E w \in Workers : /\ AgentWorker(a, w)
                        /\ respawn' = IF Alive(current[a]) THEN respawn
                                      ELSE [respawn EXCEPT ![a] = w]
  /\ UNCHANGED <<rows, service, timeouts, at, ready, probing, starts, worker>>

(* The restarted worker's handshake times out: the crash hook runs for a   *)
(* process that goes on living.                                            *)
RestartTimesOut(a) ==
  /\ respawn[a] # 0
  /\ proc[respawn[a]] \in {"starting", "stopping"}
  /\ respawn' = [respawn EXCEPT ![a] = 0]
  /\ MarkOffline(a)
  /\ Settle(TurnsOf(a), "failed", {})
  /\ CloseSessions(TurnsOf(a))
  /\ UNCHANGED <<aborts, thread, native, peer, accepted, sending, aborter, timedOut, timeouts, at,
                 current, proc, restart, starts, aborting, out, verdict>>

(* The hello frame.                                                        *)
Hello(w) ==
  /\ proc[w] = "starting"
  /\ proc' = [proc EXCEPT ![w] = "up"]
  /\ respawn' = [a \in Agents |-> IF respawn[a] = w THEN 0 ELSE respawn[a]]
  /\ UNCHANGED <<rows, service, timeouts, at, current, restart, ready, probing, starts, worker>>

(* AgentsRegistry.recheck starts a generation of its own; a ready Agent    *)
(* stays ready meanwhile.                                                  *)
Recheck(a) ==
  /\ ready[a] \/ probing[a] # 0 => Rechecks
  /\ \E w \in Workers : AgentWorker(a, w) /\ probing' = [probing EXCEPT ![a] = w]
  /\ UNCHANGED <<rows, service, timeouts, at, restart, respawn, ready, starts, worker>>

ProbePasses(a) ==
  /\ probing[a] # 0
  /\ proc[probing[a]] \in {"up", "stopping"}
  /\ ready' = [ready EXCEPT ![a] = TRUE]
  /\ probing' = [probing EXCEPT ![a] = 0]
  /\ UNCHANGED <<rows, service, timeouts, at, current, proc, restart, respawn, starts, worker>>

(* The probe fails, times out, or the conformance record does not match.   *)
ProbeFails(a) ==
  /\ probing[a] # 0
  /\ ready' = [ready EXCEPT ![a] = FALSE]
  /\ probing' = [probing EXCEPT ![a] = 0]
  /\ UNCHANGED <<rows, service, timeouts, at, current, proc, restart, respawn, starts, worker>>

-----------------------------------------------------------------------------
(* The Agent worker process, handling commands concurrently.               *)
Write(t, s) == out' = [out EXCEPT ![t] = @ \o s]
Witness(t, e) == verdict' = [verdict EXCEPT ![t] = IF @ = "none" THEN e ELSE @]

(* session.open / session.resume.                                          *)
WorkerOpens(t) ==
  /\ session[t] = "opening"
  /\ \E ok \in BOOLEAN :
       /\ session' = [session EXCEPT ![t] = IF ok THEN "idle" ELSE "none"]
       /\ Write(t, <<Reply("open", ok)>>)
  /\ UNCHANGED <<rows, service, timeouts, at, registry, aborting, verdict>>

(* message.send, after its attachments are read: the prompt runs.  Whether *)
(* the session was closed meanwhile is not looked at: the disposed native  *)
(* session is prompted too, hidden from the daemon and from turn.abort.    *)
WorkerReads(t) ==
  /\ session[t] \in {"reading", "stale"}
  /\ \E ok \in BOOLEAN :
       /\ session' = [session EXCEPT ![t] = IF @ = "stale" THEN IF ok THEN "hidden" ELSE "closed"
                                            ELSE IF ok THEN "running" ELSE "idle"]
       /\ Write(t, <<Reply("send", ok)>>)
  /\ UNCHANGED <<rows, service, timeouts, at, registry, aborting, verdict>>

(* agent_settled.                                                          *)
WorkerSettles(t) ==
  /\ session[t] = "running"
  /\ session' = [session EXCEPT ![t] = "settled"]
  /\ LET e == IF aborting[t] = {} THEN "completed" ELSE "cancelled" IN
     Write(t, <<Event(e)>>) /\ Witness(t, e)
  /\ UNCHANGED <<rows, service, timeouts, at, registry, aborting>>

(* The events of a forgotten session are not passed on.                    *)
HiddenSettles(t) ==
  /\ session[t] = "hidden"
  /\ session' = [session EXCEPT ![t] = "closed"]
  /\ UNCHANGED <<rows, service, timeouts, at, registry, aborting, out, verdict>>

(* prompt() rejects, be it before or after the session settled.            *)
PromptFails(t) ==
  /\ session[t] \in {"running", "settled", "hidden"}
  /\ session' = [session EXCEPT ![t] = IF @ = "hidden" THEN "closed" ELSE "ended"]
  /\ Write(t, <<Event("error")>>)
  /\ Witness(t, "error")
  /\ UNCHANGED <<rows, service, timeouts, at, registry, aborting>>

(* session.abort() returns to a turn.abort command.                        *)
WorkerAborts(t, by) ==
  /\ by \in aborting[t]
  /\ aborting' = [aborting EXCEPT ![t] = @ \ {by}]
  /\ IF session[t] = "running"
     THEN /\ session' = [session EXCEPT ![t] = "settled"]
          /\ Write(t, <<Event("cancelled"), Reply(by, TRUE)>>)
          /\ Witness(t, "cancelled")
     ELSE Write(t, <<Reply(by, TRUE)>>) /\ UNCHANGED <<session, verdict>>
  /\ UNCHANGED <<rows, service, timeouts, at, registry>>

-----------------------------------------------------------------------------
(* Mutant: the start-up UPDATE has no condition on status.                 *)
RecoveredAlways(s) == IF s = "none" THEN s ELSE "failed"

Recovered(s) == IF s = "working" THEN "failed" ELSE s

(* The mail's delivery row is claimed; no acceptance is recorded in it.    *)
Dispatching(t) == t \in accepted \/ (t \in peer /\ (start[t] # "none" \/ t \in sending))

(* The daemon process ends and starts again: workers exit with it,         *)
(* recoverOnStartup fails the Turns that were working and reconcileStartup *)
(* the Turns of dispatching mail, ended or not.                            *)
Restart ==
  /\ starts < MaxStarts
  /\ starts' = starts + 1
  /\ status' = [t \in Turns |-> IF Dispatching(t) THEN "failed" ELSE Recovered(status[t])]
  /\ accepted' = {}
  /\ start' = [t \in Turns |-> "none"]
  /\ ctx' = {}
  /\ lease' = {}
  /\ sending' = {}
  /\ aborter' = [t \in Turns |-> "none"]
  /\ timedOut' = {}
  /\ queue' = [a \in Agents |-> <<>>]
  /\ phase' = [a \in Agents |-> "idle"]
  /\ victim' = [a \in Agents |-> 0]
  /\ current' = [a \in Agents |-> 0]
  /\ proc' = [w \in Workers |-> IF proc[w] = "none" THEN "none" ELSE "dead"]
  /\ restart' = [a \in Agents |-> FALSE]
  /\ respawn' = [a \in Agents |-> 0]
  /\ ready' = [a \in Agents |-> FALSE]
  /\ probing' = [a \in Agents |-> 0]
  /\ session' = [t \in Turns |-> "none"]
  /\ aborting' = [t \in Turns |-> {}]
  /\ out' = [t \in Turns |-> <<>>]
  /\ UNCHANGED <<aborts, thread, native, notes, peer, at, verdict>>

ServiceStep(t) ==
  \/ \E th \in Threads, k \in Kinds : Send(t, th, k)
  \/ LeasePlugins(t)
  \/ OpenSession(t)
  \/ StartFails(t)
  \/ OpenRefused(t)
  \/ SessionOpened(t)
  \/ SendAccepted(t)
  \/ Delivered(t)
  \/ SendFails(t)
  \/ \E e \in {"completed", "cancelled", "error"} : EventReceived(t, e)
  \/ ReplyIgnored(t)
  \/ AbortTurn(t)
  \/ AbortResumes(t)
  \/ AbortAnswered(t)
  \/ TurnExpires(t)

AgentStep(a) ==
  \/ TimeoutTurn(a)
  \/ TimeoutAborted(a)
  \/ TimeoutConfirmed(a)
  \/ QuarantineWorker(a)
  \/ WorkerStopped(a)
  \/ WorkerCrash(a)
  \/ WorkerKilled(a)
  \/ RestartWorker(a)
  \/ RestartTimesOut(a)
  \/ Recheck(a)
  \/ ProbePasses(a)
  \/ ProbeFails(a)

WorkerStep(t) ==
  \/ WorkerOpens(t)
  \/ WorkerReads(t)
  \/ WorkerSettles(t)
  \/ HiddenSettles(t)
  \/ PromptFails(t)
  \/ \E by \in Aborters : WorkerAborts(t, by)

Next ==
  \/ \E t \in Turns : ServiceStep(t)
  \/ \E a \in Agents : AgentStep(a)
  \/ \E t \in Turns : WorkerStep(t)
  \/ \E w \in Workers : Hello(w)
  \/ Restart

(* Only the daemon's own promises: every wait it makes has a timer (lease  *)
(* connection, 15 s handshake, 30 s open, the Turn timer, 30 s abort, 5 s  *)
(* confirmation, 3 s kill).  Workers and users promise nothing.            *)
Fairness ==
  /\ \A t \in Turns :
       /\ WF_vars(LeasePlugins(t) \/ StartFails(t))
       /\ WF_vars(OpenSession(t) \/ StartFails(t))
       /\ WF_vars(OpenRefused(t) \/ SessionOpened(t) \/ StartFails(t))
       /\ WF_vars(TurnExpires(t))
  /\ \A a \in Agents :
       /\ WF_vars(TimeoutTurn(a))
       /\ WF_vars(TimeoutConfirmed(a) \/ QuarantineWorker(a))
       /\ WF_vars(WorkerKilled(a))
       /\ WF_vars(WorkerStopped(a))

Spec == Init /\ [][Next]_vars
FairSpec == Spec /\ Fairness

-----------------------------------------------------------------------------
(* Fail closed: a working Turn is in the hands of its start or of a        *)
(* context with a timer, whatever raced; nothing else would ever end it.   *)
WorkingIsOwned ==
  TypeOK /\ \A t \in Turns : status[t] = "working" <=> start[t] # "none" \/ t \in ctx

(* A context's session lives on the Agent's worker, or on the one being    *)
(* quarantined: no context survives its worker (exit hook, #timeoutTurn).  *)
ContextHasWorker ==
  \A t \in ctx : LET a == Agent(t) IN
    /\ Alive(at[t]) \/ (phase[a] = "stopping" /\ at[t] = victim[a])
    /\ at[t] = IF proc[at[t]] \in {"starting", "up"} THEN current[a] ELSE victim[a]

(* A prompt the daemon can abort belongs to a context: a Turn that ended   *)
(* has had its session closed (#finishTurn's closeSession).  A prompt no   *)
(* context owns is only ever that of a message accepted after its session  *)
(* was closed, and its Turn has ended: it never passes for work in hand.   *)
RunningIsOwned ==
  \A t \in Turns :
    /\ session[t] = "running" => t \in ctx
    /\ session[t] \in {"stale", "hidden"} => t \notin ctx /\ status[t] \in Terminal

(* Plugin leases neither leak nor are dropped early (leaseTransferred).    *)
LeasesBalance == lease = {t \in Turns : start[t] \in {"spawning", "opening"}} \cup ctx

(* Turns, contexts, workers and leases fit together.                       *)
TurnsAreHeld == WorkingIsOwned /\ ContextHasWorker /\ LeasesBalance

(* Completion only arrives from the worker; a timed-out Turn never counts  *)
(* as cancelled (#routeTurnEvent, timeoutFailureReason).  The Thread of a  *)
(* completed Turn never says "turn cancelled", whatever aborts raced.      *)
HonestOutcome ==
  \A t \in Turns :
    /\ status[t] \in {"completed", "cancelled"} => verdict[t] = status[t]
    /\ t \in timedOut => status[t] # "cancelled"
    /\ status[t] = "completed" => notes[t] = 0

(* Readiness means a running adapter: a ready Agent has a live worker or   *)
(* is about to be marked offline (registry init and markOffline).          *)
ReadyHasWorker ==
  \A a \in Agents : ready[a] => Alive(current[a]) \/ phase[a] = "stopping"

(* What runs or is said to run has an owner and a worker.                  *)
WorkersAreHeld == RunningIsOwned /\ ReadyHasWorker

(* A Turn reaches a terminal state once, restarts included; only start-up  *)
(* replaces an outcome, by "failed", and only that of mail which ended     *)
(* before its row said that it was accepted (reconcileStartup).            *)
TerminalOnce ==
  [][\A t \in Turns : status[t] \in Terminal =>
       \/ status'[t] = status[t]
       \/ status'[t] = "failed" /\ Dispatching(t) /\ starts' # starts]_vars

(* All of this implements the Turn lifecycle the domain promises.          *)
Lifecycle == INSTANCE TurnLifecycle
               WITH status <- status, thread <- thread, mail <- peer, verdict <- verdict
RefinesLifecycle == Lifecycle!Spec

(* Every Turn ends, whatever the worker does.                              *)
EveryTurnEnds == \A t \in Turns : status[t] = "working" ~> status[t] \in Terminal
=============================================================================
