----------------------------- MODULE TurnsProofs -----------------------------
(* The Turn lifecycle, for any number of Agents, Threads, Turns, workers,    *)
(* aborts and restarts.  The invariant that is inductive has four parts:     *)
(* types; who owns a Turn (its start, its context, its lease); where the     *)
(* workers are (in service, in quarantine, or gone); and how far the worker  *)
(* session is, with what it wrote and nobody has read yet.                   *)
EXTENDS Turns, TLAPS

Verdicts == {"completed", "cancelled", "error"}

-----------------------------------------------------------------------------
\* A timeout is handled for the head of the queue, and a start has a Thread.
QueuesHold == \A a \in Agents : phase[a] # "idle" => queue[a] # <<>>
StartsPlaced == \A t \in Turns : start[t] # "none" => thread[t] \in Threads

TypesHold == TypeOK /\ QueuesHold /\ StartsPlaced

\* A Turn that works is in the hands of its start or of its context.
Owned == \A t \in Turns : status[t] = "working" <=> start[t] # "none" \/ t \in ctx

\* A start is over before its Turn has a context, a pending message or a verdict.
StartsApart ==
  \A t \in Turns : start[t] # "none" => t \notin ctx /\ t \notin sending /\ verdict[t] = "none"

\* A Turn that is not inserted has left no trace; one that is belongs to a Thread.
UnusedIsBlank ==
  \A t \in Turns :
    IF status[t] = "none"
    THEN t \notin sending /\ verdict[t] = "none" /\ session[t] = "none" /\ at[t] = 0
    ELSE thread[t] \in Threads

\* Only a Turn that was cancelled or failed has a note of a cancellation.
NotesFit == \A t \in Turns : notes[t] # 0 => status[t] \in {"cancelled", "failed"}

\* An abort is of a Turn, and mail is one.
AbortsPlaced == \A t \in Turns : aborter[t] # "none" \/ t \in peer => status[t] # "none"

\* A start is not of a session the worker has forgotten.
ForgottenApart == \A t \in Turns : start[t] # "none" => session[t] \notin {"stale", "hidden"}

Ownership == Owned /\ LeasesBalance /\ HonestOutcome /\ StartsApart /\ UnusedIsBlank /\ NotesFit

\* A worker serves one Agent, in service or in quarantine.
WorkersApart ==
  /\ \A a \in Agents :
       /\ current[a] # 0 => proc[current[a]] \in {"starting", "up", "dead"}
       /\ victim[a] # 0 => proc[victim[a]] \in {"stopping", "dead"} /\ phase[a] = "stopping"
  /\ \A a, b \in Agents :
       /\ current[a] # 0 => current[a] # victim[b]
       /\ a # b /\ current[a] # 0 => current[a] # current[b]
       /\ a # b /\ victim[a] # 0 => victim[a] # victim[b]

\* A worker that starts or is up is in service, one that stops is in quarantine.
HostedBy(w, a) == w = IF proc[w] \in {"starting", "up"} THEN current[a] ELSE victim[a]

ContextPlaced == \A t \in ctx : at[t] \in Workers

\* A start does not outlive the worker it waits for.
StartHasWorker ==
  \A t \in Turns : start[t] \in {"spawning", "opening"} => Alive(at[t]) /\ HostedBy(at[t], Agent(t))

\* Nor does a probe.
ProbesLive ==
  \A a \in Agents : probing[a] # 0 => Alive(probing[a]) /\ probing[a] \in {current[a], victim[a]}

Hosting ==
  WorkersApart /\ ContextPlaced /\ ContextHasWorker /\ StartHasWorker /\ ProbesLive /\ ReadyHasWorker

\* A session has a verdict once it has settled, and reads or runs for a context with a live worker.
SessionsFit ==
  \A t \in Turns :
    /\ session[t] \in {"opening", "idle", "reading", "running", "stale"} => verdict[t] = "none"
    /\ session[t] = "settled" => verdict[t] # "none"
    /\ session[t] \in {"reading", "running"} => t \in ctx /\ Alive(at[t])
    /\ session[t] \in {"stale", "hidden"} => t \notin ctx

\* What is not read yet agrees with the verdict; an error may come after it.
EventsFit ==
  \A t \in Turns : \A i \in DOMAIN out[t] : \A e \in Verdicts :
    out[t][i] = Event(e) => verdict[t] # "none" /\ (e # "error" => verdict[t] = e)

IsEvent(m) == \E e \in Verdicts : m = Event(e)
IsSendReply(m) == \E ok \in BOOLEAN : m = Reply("send", ok)

\* The reply to message.send is written before any event, and nothing of the session is lost.
Answered(t) ==
  \E j \in DOMAIN out[t] : IsSendReply(out[t][j]) /\ \A i \in 1..(j-1) : ~IsEvent(out[t][i])

\* While message.send waits for its reply no event of the session has been read.
AnswerDue ==
  \A t \in sending :
    status[t] \in {"working", "failed"} /\ (session[t] \in {"reading", "stale"} \/ Answered(t))

Sessions == SessionsFit /\ EventsFit /\ AnswerDue

TurnsIInv == TypesHold /\ AbortsPlaced /\ ForgottenApart /\ Ownership /\ Hosting /\ Sessions

-----------------------------------------------------------------------------
\* Reading a message off a session's output.
LEMMA ReadTypes ==
  ASSUME TypeOK, NEW t \in Turns, NEW m, Says(t, m), Read(t)
  PROVE  out' \in [Turns -> Seq(Message)]
BY DEF TypeOK, Says, Read

\* Writing messages at the end of a session's output.
LEMMA WriteTypes ==
  ASSUME TypeOK, NEW t \in Turns, NEW s \in Seq(Message), Write(t, s)
  PROVE  out' \in [Turns -> Seq(Message)]
BY DEF TypeOK, Write

\* Obtaining the worker of an Agent.
LEMMA AgentWorkerTypes ==
  ASSUME TypeOK, NEW a, NEW w \in Workers, AgentWorker(a, w)
  PROVE  current' \in [Agents -> Workers \cup {0}]
         /\ proc' \in [Workers -> {"none", "starting", "up", "stopping", "dead"}]
BY DEF TypeOK, AgentWorker

\* Sending turn.abort.
LEMMA SendAbortTypes ==
  ASSUME TypeOK, NEW t \in Turns, NEW by \in Aborters, NEW w, SendAbort(t, by, w)
  PROVE  aborting' \in [Turns -> SUBSET Aborters] /\ out' \in [Turns -> Seq(Message)]
<1>1. \A ok \in BOOLEAN : Reply(by, ok) \in Message BY DEF Reply, Message
<1>2. (w = at[t] /\ session[t] \notin Forgotten) \in BOOLEAN OBVIOUS
<1>3. Reply(by, w = at[t] /\ session[t] \notin Forgotten) \in Message
  BY <1>1, <1>2
<1>4. CASE w = at[t] /\ session[t] = "running"
  <2>1. out' = out /\ aborting' = [aborting EXCEPT ![t] = @ \cup {by}]
    BY <1>4 DEF SendAbort
  <2>2. aborting \in [Turns -> SUBSET Aborters] /\ out \in [Turns -> Seq(Message)]
    BY DEF TypeOK
  <2> QED BY <2>1, <2>2
<1>5. CASE ~(w = at[t] /\ session[t] = "running")
  <2>1. out' = [out EXCEPT ![t] = Append(@, Reply(by, w = at[t] /\ session[t] \notin Forgotten))]
        /\ aborting' = aborting
    BY <1>5 DEF SendAbort
  <2> HIDE DEF SendAbort
  <2> DEFINE m == Reply(by, w = at[t] /\ session[t] \notin Forgotten)
  <2>2. m \in Message BY <1>3
  <2>3. out' = [out EXCEPT ![t] = Append(@, m)] BY <2>1
  <2> HIDE DEF m
  <2>4. out' \in [Turns -> Seq(Message)] BY <2>2, <2>3 DEF TypeOK
  <2> QED BY <2>1, <2>4 DEF TypeOK
<1> QED BY <1>4, <1>5

\* Quarantining the worker of an Agent.
LEMMA StopAgentWorkerTypes ==
  ASSUME TypeOK, NEW a \in Agents, StopAgentWorker(a)
  PROVE  /\ phase' \in [Agents -> {"idle", "aborting", "confirming", "stopping"}]
         /\ current' \in [Agents -> Workers \cup {0}]
         /\ victim' \in [Agents -> Workers \cup {0}]
         /\ proc' \in [Workers -> {"none", "starting", "up", "stopping", "dead"}]
         /\ restart' \in [Agents -> BOOLEAN]
BY DEF TypeOK, StopAgentWorker, Alive

\* Settling Turns.
LEMMA SettleTypes ==
  ASSUME TypesHold, NEW done \in SUBSET Turns, NEW outcome \in Terminal,
         NEW rejected \in SUBSET Turns, Settle(done, outcome, rejected)
  PROVE  /\ ctx' \in SUBSET Turns
         /\ lease' \in SUBSET Turns
         /\ status' \in [Turns -> {"none", "working"} \cup Terminal]
         /\ start' \in [Turns -> {"none", "leasing", "spawning", "opening"}]
         /\ notes' \in [Turns -> Nat]
         /\ \A t \in Turns : start'[t] # "none" => start[t] # "none"
BY DEF TypesHold, TypeOK, Settle, SettledStatus, SetTurnStatus, Terminal

\* The exit of a worker.
LEMMA WorkerExitTypes ==
  ASSUME TypesHold, NEW w, NEW done \in SUBSET Turns, WorkerExit(w, done)
  PROVE  /\ ctx' \in SUBSET Turns
         /\ lease' \in SUBSET Turns
         /\ sending' \in SUBSET Turns
         /\ status' \in [Turns -> {"none", "working"} \cup Terminal]
         /\ start' \in [Turns -> {"none", "leasing", "spawning", "opening"}]
         /\ notes' \in [Turns -> Nat]
         /\ proc' \in [Workers -> {"none", "starting", "up", "stopping", "dead"}]
         /\ aborter' \in [Turns -> {"none", "starting", "resume", "pending"}]
         /\ session' \in [Turns -> {"none", "opening", "idle", "reading", "running", "settled",
                                   "ended", "stale", "hidden", "closed"}]
         /\ aborting' \in [Turns -> SUBSET Aborters]
         /\ out' \in [Turns -> Seq(Message)]
         /\ \A t \in Turns : start'[t] # "none" => start[t] # "none"
<1> DEFINE unsent == On(w) \cap sending
           rejected == {t \in On(w) : start[t] \in {"spawning", "opening"}} \cup (unsent \cap peer)
<1>1. Settle(done \cup unsent, "failed", rejected) BY DEF WorkerExit
<1>2. rejected \in SUBSET Turns /\ done \cup unsent \in SUBSET Turns BY DEF On
<1>3. "failed" \in Terminal BY DEF Terminal
<1>4. /\ sending' \in SUBSET Turns
      /\ proc' \in [Workers -> {"none", "starting", "up", "stopping", "dead"}]
      /\ aborter' \in [Turns -> {"none", "starting", "resume", "pending"}]
  BY DEF WorkerExit, Aborted, TypesHold, TypeOK
<1>5. /\ session' \in [Turns -> {"none", "opening", "idle", "reading", "running", "settled",
                                "ended", "stale", "hidden", "closed"}]
      /\ aborting' \in [Turns -> SUBSET Aborters]
      /\ out' \in [Turns -> Seq(Message)]
  BY DEF WorkerExit, Closed, TypesHold, TypeOK
<1> HIDE DEF unsent, rejected
<1> QED BY <1>1, <1>2, <1>3, <1>4, <1>5, SettleTypes

\* Appending to a sequence.
LEMMA AppendTypes ==
  ASSUME NEW S, NEW q \in Seq(S), NEW x \in S
  PROVE  Append(q, x) \in Seq(S) /\ Append(q, x) # <<>>
<1>1. Append(q, x) \in Seq(S) /\ Len(Append(q, x)) = Len(q) + 1 /\ Len(q) \in Nat OBVIOUS
<1>2. Len(<<>>) = 0 OBVIOUS
<1> QED BY <1>1, <1>2

\* The steps of a Turn's service keep the types.
LEMMA ServiceTypes ==
  ASSUME TypesHold, NEW t \in Turns, ServiceStep(t) PROVE TypesHold'
<1> USE DEF TypesHold, TypeOK, QueuesHold, StartsPlaced, rows, service, timeouts, registry, worker
<1>Send. ASSUME NEW th \in Threads, NEW k \in Kinds, Send(t, th, k) PROVE TypesHold'
  BY <1>Send DEF Send
<1>LeasePlugins. CASE LeasePlugins(t)
  BY <1>LeasePlugins, AgentWorkerTypes DEF LeasePlugins
<1>OpenSession. CASE OpenSession(t)
  BY <1>OpenSession DEF OpenSession
<1>StartFails. CASE StartFails(t)
  BY <1>StartFails DEF StartFails, Aborted, Terminal, Waiting, Settle, SettledStatus, SetTurnStatus,
                       Released
<1>OpenRefused. CASE OpenRefused(t)
  <2>1. out' \in [Turns -> Seq(Message)]
    BY <1>OpenRefused, ReadTypes DEF OpenRefused, TypesHold
  <2> QED
    BY <1>OpenRefused, <2>1 DEF OpenRefused, Aborted, Waiting, Terminal, Settle, SettledStatus,
                                SetTurnStatus, Released
<1>SessionOpened. CASE SessionOpened(t)
  BY <1>SessionOpened, TurnsAssumption, ReadTypes DEF Terminal, Settle, SettledStatus, SetTurnStatus,
                                                      Released, SessionOpened
<1>SendAccepted. CASE SendAccepted(t)
  BY <1>SendAccepted, ReadTypes DEF SendAccepted
<1>Delivered. CASE Delivered(t)
  BY <1>Delivered DEF Delivered
<1>SendFails. CASE SendFails(t)
  <2>1. out' \in [Turns -> Seq(Message)]
    BY <1>SendFails, ReadTypes DEF SendFails, TypesHold, TypeOK
  <2> QED
    BY <1>SendFails, <2>1 DEF Terminal, Settle, SettledStatus, SetTurnStatus, Released, SendFails,
                              Aborted, Waiting, CloseSessions, Closed
<1>EventReceived. ASSUME NEW e \in {"completed", "cancelled", "error"}, EventReceived(t, e) PROVE TypesHold'
  BY <1>EventReceived, ReadTypes DEF EventReceived, Outcome, Terminal, CloseSessions, Closed, Settle,
                                     SettledStatus, SetTurnStatus, Released
<1>ReplyIgnored. CASE ReplyIgnored(t)
  BY <1>ReplyIgnored, ReadTypes DEF ReplyIgnored
<1>AbortTurn. CASE AbortTurn(t)
  BY SMTT(30), <1>AbortTurn, AgentWorkerTypes, SendAbortTypes DEF AbortTurn, Aborters
<1>AbortResumes. CASE AbortResumes(t)
  BY <1>AbortResumes, AgentWorkerTypes, SendAbortTypes DEF AbortResumes, Aborters
<1>AbortAnswered. CASE AbortAnswered(t)
  BY <1>AbortAnswered, ReadTypes DEF AbortAnswered, Aborted
<1>TurnExpires. CASE TurnExpires(t)
  <2> DEFINE a == Agent(t)
  <2>1. queue \in [Agents -> Seq(Turns)] BY DEF TypesHold, TypeOK
  <2>2. queue' = [queue EXCEPT ![a] = Append(@, t)] BY <1>TurnExpires DEF TurnExpires
  <2> HIDE DEF a
  <2>3. \A b \in Agents : queue'[b] = IF b = a THEN Append(queue[b], t) ELSE queue[b]
    BY <2>1, <2>2
  <2>4. \A b \in Agents : queue'[b] \in Seq(Turns) /\ (queue[b] # <<>> => queue'[b] # <<>>)
    <3> SUFFICES ASSUME NEW b \in Agents
                 PROVE  queue'[b] \in Seq(Turns) /\ (queue[b] # <<>> => queue'[b] # <<>>)
      OBVIOUS
    <3>1. queue[b] \in Seq(Turns) BY <2>1
    <3>2. Append(queue[b], t) \in Seq(Turns) /\ Append(queue[b], t) # <<>> BY <3>1, AppendTypes
    <3> QED BY <2>3, <3>1, <3>2
  <2>5. queue' \in [Agents -> Seq(Turns)] BY <2>1, <2>2, <2>4
  <2> QED
    BY <1>TurnExpires, <2>4, <2>5 DEF TurnExpires
<1> QED
  BY <1>Send, <1>LeasePlugins, <1>OpenSession, <1>StartFails, <1>OpenRefused, <1>SessionOpened,
     <1>SendAccepted, <1>Delivered, <1>SendFails, <1>EventReceived, <1>ReplyIgnored,
     <1>AbortTurn, <1>AbortResumes, <1>AbortAnswered, <1>TurnExpires DEF ServiceStep

\* So do the steps for an Agent: what a timeout is about stays in its queue until it is done.
LEMMA AgentTypes ==
  ASSUME TypesHold, NEW a \in Agents, AgentStep(a) PROVE TypesHold'
<1> USE DEF TypesHold, TypeOK, QueuesHold, StartsPlaced, rows, service, timeouts, registry, worker
<1>TimeoutTurn. CASE TimeoutTurn(a)
  <2> DEFINE t == Head(queue[a])
  <2>0. /\ t \in Turns /\ queue[a] # <<>> /\ phase[a] = "idle"
        /\ UNCHANGED <<rows, aborts, peer, accepted, start, ctx, lease, sending, aborter, at, respawn, ready, probing,
                       starts, session, verdict>>
    BY <1>TimeoutTurn DEF TimeoutTurn, TypesHold, TypeOK
  <2>1. CASE t \notin ctx
    <3>1. Done(a) /\ UNCHANGED <<timedOut, victim, current, proc, restart, aborting, out>>
      BY <1>TimeoutTurn, <2>1 DEF TimeoutTurn
    <3> HIDE DEF t
    <3> QED
      BY <2>0, <3>1 DEF Done
  <2>2. CASE t \in ctx /\ ready[a]
    <3>1. PICK w \in Workers : AgentWorker(a, w) /\ SendAbort(t, "timeout", w)
      BY <1>TimeoutTurn, <2>2 DEF TimeoutTurn
    <3>2. /\ timedOut' = timedOut \cup {t}
          /\ phase' = [phase EXCEPT ![a] = "aborting"]
          /\ UNCHANGED <<queue, victim, restart>>
      BY <1>TimeoutTurn, <2>2 DEF TimeoutTurn
    <3> HIDE DEF t
    <3>3. current' \in [Agents -> Workers \cup {0}]
          /\ proc' \in [Workers -> {"none", "starting", "up", "stopping", "dead"}]
      BY <3>1, AgentWorkerTypes DEF TypesHold
    <3>4. aborting' \in [Turns -> SUBSET Aborters] /\ out' \in [Turns -> Seq(Message)]
      BY <2>0, <3>1, SendAbortTypes DEF TypesHold, Aborters
    <3> QED
      BY ZenonT(30), <1>TimeoutTurn, <2>0, <3>2, <3>3, <3>4 DEF TimeoutTurn
  <2>3. CASE t \in ctx /\ ~ready[a]
    <3>1. StopAgentWorker(a) /\ UNCHANGED <<queue, timedOut, aborting, out>>
      BY <1>TimeoutTurn, <2>0, <2>3 DEF TimeoutTurn
    <3>2. phase' = [phase EXCEPT ![a] = "stopping"] BY <3>1 DEF StopAgentWorker
    <3> HIDE DEF t
    <3> QED
      BY ZenonT(30), <1>TimeoutTurn, <2>0, <3>1, <3>2, StopAgentWorkerTypes DEF TimeoutTurn
  <2> QED BY <2>1, <2>2, <2>3
<1>TimeoutAborted. CASE TimeoutAborted(a)
  BY <1>TimeoutAborted DEF TimeoutAborted, Says, Read
<1>TimeoutConfirmed. CASE TimeoutConfirmed(a)
  BY <1>TimeoutConfirmed DEF TimeoutConfirmed, Done
<1>QuarantineWorker. CASE QuarantineWorker(a)
  <2>1. phase[a] # "idle" BY <1>QuarantineWorker DEF QuarantineWorker
  <2>2. queue[a] # <<>> BY <2>1 DEF TypesHold, QueuesHold
  <2>3. Head(queue[a]) \in Turns BY <2>2 DEF TypesHold, TypeOK
  <2>4. out' \in [Turns -> Seq(Message)]
    BY <1>QuarantineWorker, <2>3, ReadTypes DEF QuarantineWorker, TypesHold, TypeOK
  <2>5. phase' = [phase EXCEPT ![a] = "stopping"] BY <1>QuarantineWorker
    DEF QuarantineWorker, StopAgentWorker
  <2> QED
    BY <1>QuarantineWorker, <2>2, <2>4, <2>5, StopAgentWorkerTypes DEF QuarantineWorker
<1>WorkerStopped. CASE WorkerStopped(a)
  BY <1>WorkerStopped DEF WorkerStopped, TurnsOf, Used, Done, MarkOffline, CloseSessions, Closed,
                          Terminal, Settle, SettledStatus, SetTurnStatus, Released
<1>WorkerCrash. CASE WorkerCrash(a)
  BY <1>WorkerCrash, WorkerExitTypes DEF WorkerCrash, TurnsOf, Used, MarkOffline
<1>WorkerKilled. CASE WorkerKilled(a)
  <2>1. ready' \in [Agents -> BOOLEAN]
    BY <1>WorkerKilled DEF WorkerKilled, TypesHold, TypeOK
  <2>2. respawn' \in [Agents -> Workers \cup {0}] /\ probing' \in [Agents -> Workers \cup {0}]
    BY <1>WorkerKilled DEF WorkerKilled, TypesHold, TypeOK
  <2>3. PICK done \in SUBSET Turns : WorkerExit(victim[a], done)
    BY <1>WorkerKilled DEF WorkerKilled, TurnsOf, Used
  <2>4. UNCHANGED <<aborts, thread, native, peer, accepted, timedOut, timeouts, at, current, restart, starts,
                   verdict>>
    BY <1>WorkerKilled DEF WorkerKilled
  <2> QED
    BY <1>WorkerKilled, <2>1, <2>2, <2>3, <2>4, WorkerExitTypes DEF WorkerKilled
<1>RestartWorker. CASE RestartWorker(a)
  BY <1>RestartWorker, AgentWorkerTypes DEF RestartWorker
<1>RestartTimesOut. CASE RestartTimesOut(a)
  BY <1>RestartTimesOut DEF RestartTimesOut, TurnsOf, Used, MarkOffline, CloseSessions, Closed,
                            Terminal, Settle, SettledStatus, SetTurnStatus, Released
<1>Recheck. CASE Recheck(a)
  BY <1>Recheck, AgentWorkerTypes DEF Recheck
<1>ProbePasses. CASE ProbePasses(a)
  BY <1>ProbePasses DEF ProbePasses
<1>ProbeFails. CASE ProbeFails(a)
  BY <1>ProbeFails DEF ProbeFails
<1> QED
  BY <1>TimeoutTurn, <1>TimeoutAborted, <1>TimeoutConfirmed, <1>QuarantineWorker, <1>WorkerStopped,
     <1>WorkerCrash, <1>WorkerKilled, <1>RestartWorker, <1>RestartTimesOut, <1>Recheck,
     <1>ProbePasses, <1>ProbeFails DEF AgentStep

\* And the worker's own steps.
LEMMA WorkerTypes ==
  ASSUME TypesHold, NEW t \in Turns, WorkerStep(t) PROVE TypesHold'
<1> USE DEF TypesHold, TypeOK, QueuesHold, StartsPlaced, rows, service, timeouts, registry, worker
<1>WorkerOpens. CASE WorkerOpens(t)
  BY <1>WorkerOpens DEF WorkerOpens, Write, Message, Reply
<1>WorkerReads. CASE WorkerReads(t)
  BY <1>WorkerReads DEF WorkerReads, Write, Message, Reply
<1>WorkerSettles. CASE WorkerSettles(t)
  BY <1>WorkerSettles DEF WorkerSettles, Write, Witness, Message, Event
<1>HiddenSettles. CASE HiddenSettles(t)
  BY <1>HiddenSettles DEF HiddenSettles
<1>PromptFails. CASE PromptFails(t)
  BY <1>PromptFails DEF PromptFails, Write, Witness, Message, Event
<1>WorkerAborts. ASSUME NEW by \in Aborters, WorkerAborts(t, by) PROVE TypesHold'
  <2>1. <<Event("cancelled"), Reply(by, TRUE)>> \in Seq(Message) /\ <<Reply(by, TRUE)>> \in Seq(Message)
    BY DEF Message, Event, Reply
  <2>2. out' \in [Turns -> Seq(Message)]
    BY <1>WorkerAborts, <2>1, WriteTypes DEF WorkerAborts, TypesHold
  <2>3. aborting' \in [Turns -> SUBSET Aborters]
    BY <1>WorkerAborts DEF WorkerAborts, TypesHold, TypeOK
  <2>4. session' = session \/ session' = [session EXCEPT ![t] = "settled"]
    BY <1>WorkerAborts DEF WorkerAborts
  <2>5. verdict' = verdict \/ verdict' = [verdict EXCEPT ![t] = IF @ = "none" THEN "cancelled" ELSE @]
    BY <1>WorkerAborts DEF WorkerAborts, Witness
  <2> QED
    BY <1>WorkerAborts, <2>2, <2>3, <2>4, <2>5 DEF WorkerAborts
<1> QED
  BY <1>WorkerOpens, <1>WorkerReads, <1>WorkerSettles, <1>HiddenSettles, <1>PromptFails,
     <1>WorkerAborts DEF WorkerStep

\* Hello and a daemon restart keep the types.
LEMMA OtherTypes ==
  ASSUME TypesHold, Restart \/ \E w \in Workers : Hello(w) PROVE TypesHold'
<1> USE DEF TypesHold, TypeOK, QueuesHold, StartsPlaced, rows, service, timeouts, registry, worker
<1>1. CASE Restart
  BY <1>1, TurnsAssumption DEF Restart, Recovered, Terminal
<1>2. ASSUME NEW w \in Workers, Hello(w) PROVE TypesHold'
  BY <1>2 DEF Hello
<1> QED BY <1>1, <1>2

-----------------------------------------------------------------------------
\* Settling Turns: a status changes only from working, and what is settled gives its lease back.
LEMMA SettleOwns ==
  ASSUME TurnsIInv, NEW done \in SUBSET Turns, NEW outcome \in Terminal, NEW rejected \in SUBSET Turns,
         Settle(done, outcome, rejected),
         UNCHANGED <<thread, verdict, timedOut>>, sending' \subseteq sending,
         rejected \cap ctx \subseteq done,
         rejected # {} => outcome = "failed",
         \A t \in rejected : status[t] \in {"working", "failed"},
         \A t \in done \cap ctx : outcome # "failed" => verdict[t] = outcome /\ 
                                  (outcome = "cancelled" => t \notin timedOut)
  PROVE  Owned' /\ LeasesBalance' /\ HonestOutcome' /\ StartsApart' /\ NotesFit'
<1> USE DEF TurnsIInv, Ownership, Owned, LeasesBalance, StartsApart, NotesFit, HonestOutcome,
            Settle, Released, Terminal
<1>1. /\ status \in [Turns -> {"none", "working"} \cup Terminal]
      /\ notes \in [Turns -> Nat]
      /\ ctx \subseteq Turns /\ lease \subseteq Turns
  BY DEF TypesHold, TypeOK
<1>2. \A t \in Turns : status'[t] = IF status[t] = "working" /\ t \in done \cap ctx THEN outcome
                                    ELSE IF status[t] = "working" /\ t \in rejected THEN "failed"
                                    ELSE status[t]
  BY <1>1 DEF SettledStatus, SetTurnStatus
<1>3. Owned' BY <1>1, <1>2
<1>4. LeasesBalance' BY <1>1, <1>2
<1>5. StartsApart' BY <1>1, <1>2
<1>6. NotesFit'
  <2>1. ASSUME NEW t \in Turns, notes[t] = 0, t \notin rejected,
               ~(t \in done \cap ctx /\ outcome = "cancelled")
        PROVE  notes'[t] = 0
    <3>1. notes'[t] = notes[t] + 0 + 0 BY <2>1
    <3> QED BY <2>1, <3>1
  <2>2. \A t \in done \cap ctx : status[t] = "working" BY <1>1
  <2> HIDE DEF Settle
  <2> QED BY <1>1, <1>2, <2>1, <2>2
<1>7. HonestOutcome'
  <2> SUFFICES ASSUME NEW t \in Turns
               PROVE  /\ status'[t] \in {"completed", "cancelled"} => verdict[t] = status'[t]
                      /\ t \in timedOut => status'[t] # "cancelled"
                      /\ status'[t] = "completed" => notes'[t] = 0
    OBVIOUS
  <2>1. status'[t] = "completed" => notes'[t] = 0 BY <1>6
  <2> HIDE DEF Settle
  <2> QED BY <1>1, <1>2, <2>1
<1> QED BY <1>3, <1>4, <1>5, <1>6, <1>7

\* What a step must touch to disturb who owns a Turn.
LEMMA OwnershipFrame ==
  ASSUME Ownership,
         UNCHANGED <<status, thread, notes, start, ctx, lease, sending, timedOut, verdict, session, at>>
  PROVE  Ownership'
BY DEF Ownership, Owned, LeasesBalance, HonestOutcome, StartsApart, UnusedIsBlank, NotesFit

\* Every step of a Turn's service leaves each Turn with its owner.
LEMMA ServiceOwns ==
  ASSUME TurnsIInv, NEW t \in Turns, ServiceStep(t) PROVE Ownership'
<1> USE DEF TurnsIInv, rows, service, timeouts, registry, worker
<1>Send. ASSUME NEW th \in Threads, NEW k \in Kinds, Send(t, th, k) PROVE Ownership'
  BY <1>Send DEF Send, Ownership, Owned, LeasesBalance, HonestOutcome, StartsApart, UnusedIsBlank,
                 NotesFit, TypesHold, TypeOK
<1>0. start \in [Turns -> {"none", "leasing", "spawning", "opening"}] /\ lease \subseteq Turns
      /\ session \in [Turns -> {"none", "opening", "idle", "reading", "running", "settled",
                                "ended", "stale", "hidden", "closed"}] /\ ctx \subseteq Turns
  BY DEF TypesHold, TypeOK
<1>LeasePlugins. CASE LeasePlugins(t)
  <2>1. /\ start[t] = "leasing" /\ start' = [start EXCEPT ![t] = "spawning"] /\ lease' = lease \cup {t}
        /\ \A u \in Turns : u # t => at'[u] = at[u]
        /\ UNCHANGED <<status, thread, notes, ctx, sending, timedOut, verdict, session>>
    BY <1>LeasePlugins DEF LeasePlugins, TypesHold, TypeOK
  <2>2. Owned' /\ LeasesBalance' /\ HonestOutcome' /\ StartsApart' /\ NotesFit'
    BY <1>0, <2>1 DEF Ownership, Owned, LeasesBalance, HonestOutcome, StartsApart, NotesFit
  <2>3. UnusedIsBlank'
    BY <1>0, <2>1 DEF Ownership, Owned, UnusedIsBlank
  <2> QED BY <2>2, <2>3 DEF Ownership
<1>OpenSession. CASE OpenSession(t)
  <2>1. /\ start[t] = "spawning" /\ start' = [start EXCEPT ![t] = "opening"]
        /\ session' = [session EXCEPT ![t] = "opening"]
        /\ UNCHANGED <<status, thread, notes, ctx, lease, sending, timedOut, verdict, at>>
    BY <1>OpenSession DEF OpenSession
  <2>2. Owned' /\ LeasesBalance' /\ HonestOutcome' /\ StartsApart' /\ NotesFit'
    BY <1>0, <2>1 DEF Ownership, Owned, LeasesBalance, HonestOutcome, StartsApart, NotesFit
  <2>3. UnusedIsBlank'
    BY <1>0, <2>1 DEF Ownership, Owned, UnusedIsBlank
  <2> QED BY <2>2, <2>3 DEF Ownership
<1>SessionOpened. CASE SessionOpened(t)
  <2>1. /\ start[t] = "opening" /\ start' = [start EXCEPT ![t] = "none"]
        /\ session' = [session EXCEPT ![t] = "reading"]
        /\ ctx' = ctx \cup {t} /\ sending' = sending \cup {t}
        /\ UNCHANGED <<status, thread, notes, lease, timedOut, verdict, at>>
    BY <1>SessionOpened DEF SessionOpened
  <2>2. Owned' /\ LeasesBalance' /\ HonestOutcome' /\ StartsApart' /\ NotesFit'
    BY <1>0, <2>1 DEF Ownership, Owned, LeasesBalance, HonestOutcome, StartsApart, NotesFit
  <2>3. UnusedIsBlank'
    BY <1>0, <2>1 DEF Ownership, Owned, UnusedIsBlank
  <2> QED BY <2>2, <2>3 DEF Ownership
<1>SendAccepted. CASE SendAccepted(t)
  BY <1>SendAccepted DEF SendAccepted, Ownership, Owned, LeasesBalance, HonestOutcome, StartsApart,
                         UnusedIsBlank, NotesFit
<1>StartRejected. CASE StartFails(t) \/ OpenRefused(t)
  <2>1. start[t] # "none" /\ Settle({}, "failed", {t})
        /\ UNCHANGED <<thread, verdict, timedOut, sending, session, at>>
    BY <1>StartRejected DEF StartFails, OpenRefused
  <2>2. t \notin ctx /\ status[t] = "working"
    BY <2>1 DEF Ownership, Owned, StartsApart
  <2>3. Owned' /\ LeasesBalance' /\ HonestOutcome' /\ StartsApart' /\ NotesFit'
    BY <2>1, <2>2, SettleOwns DEF Terminal
  <2>4. UnusedIsBlank'
    BY <2>1 DEF Settle, SettledStatus, SetTurnStatus, Ownership, UnusedIsBlank, TypesHold, TypeOK
  <2> QED BY <2>3, <2>4 DEF Ownership
<1>SendFails. CASE SendFails(t)
  <2>1. t \in sending /\ Settle({t}, "failed", {t} \cap peer) /\ CloseSessions({t})
        /\ sending' = sending \ {t} /\ UNCHANGED <<thread, verdict, timedOut, at>>
    BY <1>SendFails DEF SendFails
  <2>2. status[t] \in {"working", "failed"}
    BY <2>1 DEF Sessions, AnswerDue
  <2>3. Owned' /\ LeasesBalance' /\ HonestOutcome' /\ StartsApart' /\ NotesFit'
    BY <2>1, <2>2, SettleOwns DEF Terminal
  <2>4. UnusedIsBlank'
    BY <2>1 DEF Settle, SettledStatus, SetTurnStatus, CloseSessions, Ownership, UnusedIsBlank, Owned,
                TypesHold, TypeOK
  <2> QED BY <2>3, <2>4 DEF Ownership
<1>EventReceived. ASSUME NEW e \in {"completed", "cancelled", "error"}, EventReceived(t, e)
                  PROVE  Ownership'
  <2> DEFINE done == IF ready[Agent(t)] THEN {t} ELSE {}
  <2>1. Settle(done, Outcome(t, e), {}) /\ CloseSessions(done)
        /\ UNCHANGED <<thread, verdict, timedOut, sending, at>>
    BY <1>EventReceived DEF EventReceived
  <2>2. Outcome(t, e) \in Terminal BY DEF Outcome, Terminal
  <2>3. e # "error" => verdict[t] = e
    BY <1>EventReceived DEF EventReceived, Says, TypesHold, TypeOK, Sessions, EventsFit, Verdicts
  <2>4. Outcome(t, e) # "failed" => verdict[t] = Outcome(t, e)
                                    /\ (Outcome(t, e) = "cancelled" => t \notin timedOut)
    BY <2>3 DEF Outcome
  <2>5. done \subseteq {t} OBVIOUS
  <2> HIDE DEF done
  <2>6. Owned' /\ LeasesBalance' /\ HonestOutcome' /\ StartsApart' /\ NotesFit'
    BY <2>1, <2>2, <2>4, <2>5, SettleOwns
  <2>7. UnusedIsBlank'
    BY <2>1, <2>2, <2>5 DEF Settle, SettledStatus, SetTurnStatus, Terminal, CloseSessions, Ownership,
                            UnusedIsBlank, Owned, TypesHold, TypeOK
  <2> QED BY <2>6, <2>7 DEF Ownership
<1>others. CASE \/ Delivered(t) \/ ReplyIgnored(t) \/ AbortTurn(t) \/ AbortResumes(t) \/ AbortAnswered(t)
                \/ TurnExpires(t)
  BY <1>others, OwnershipFrame DEF Delivered, ReplyIgnored, AbortTurn, AbortResumes, AbortAnswered,
                                   TurnExpires
<1> QED
  BY <1>Send, <1>LeasePlugins, <1>OpenSession, <1>SessionOpened, <1>SendAccepted,
     <1>StartRejected, <1>SendFails, <1>EventReceived, <1>others
    DEF ServiceStep

\* A worker's exit fails the contexts and rejects the requests it had.
LEMMA WorkerExitOwns ==
  ASSUME TurnsIInv, NEW w \in Workers, NEW done \in SUBSET Turns, WorkerExit(w, done),
         UNCHANGED <<thread, verdict, timedOut, at>>
  PROVE  Ownership'
<1> USE DEF TurnsIInv
<1> DEFINE unsent == On(w) \cap sending
           rejected == {t \in On(w) : start[t] \in {"spawning", "opening"}} \cup (unsent \cap peer)
<1>1. Settle(done \cup unsent, "failed", rejected) /\ sending' = sending \ unsent
  BY DEF WorkerExit
<1>2. rejected \cap ctx \subseteq unsent
  BY DEF Ownership, StartsApart, On
<1>3. \A t \in rejected : status[t] \in {"working", "failed"}
  BY DEF Ownership, Owned, On, Sessions, AnswerDue
<1>4. rejected \in SUBSET Turns /\ unsent \in SUBSET Turns BY DEF On
<1> HIDE DEF unsent, rejected
<1>5. Owned' /\ LeasesBalance' /\ HonestOutcome' /\ StartsApart' /\ NotesFit'
  BY <1>1, <1>2, <1>3, <1>4, SettleOwns DEF Terminal
<1>6. UnusedIsBlank'
  <2>1. 0 \notin Workers BY TurnsAssumption DEF Workers
  <2>2. \A t \in Turns : status'[t] = "none" => status[t] = "none" /\ t \notin ctx
    BY <1>1 DEF Settle, SettledStatus, SetTurnStatus, Ownership, Owned, TypesHold, TypeOK
  <2>3. \A t \in Turns : t \notin On(w) /\ t \notin ctx => session'[t] = session[t]
    BY DEF WorkerExit
  <2>4. \A t \in Turns : status[t] = "none" => t \notin On(w)
    BY <2>1 DEF On, Ownership, UnusedIsBlank
  <2>5. \A t \in Turns : status[t] = "none" => status'[t] = "none"
    BY <1>1 DEF Settle, SettledStatus, SetTurnStatus, TypesHold, TypeOK
  <2>6. \A t \in Turns : status'[t] = "none" =>
          t \notin sending' /\ verdict'[t] = "none" /\ session'[t] = "none" /\ at'[t] = 0
    BY <1>1, <2>2, <2>3, <2>4 DEF Ownership, UnusedIsBlank
  <2>7. \A t \in Turns : status'[t] # "none" => thread'[t] \in Threads
    BY <2>2, <2>5 DEF Ownership, UnusedIsBlank
  <2> QED
    BY <2>6, <2>7 DEF UnusedIsBlank
<1> QED BY <1>5, <1>6 DEF Ownership

\* Every step for an Agent leaves each Turn with its owner.
LEMMA AgentOwns ==
  ASSUME TurnsIInv, NEW a \in Agents, AgentStep(a) PROVE Ownership'
<1> USE DEF TurnsIInv, rows, service, timeouts, registry, worker
<1>TimeoutTurn. CASE TimeoutTurn(a)
  <2>1. /\ timedOut' = timedOut \/ (Head(queue[a]) \in ctx /\ timedOut' = timedOut \cup {Head(queue[a])})
        /\ UNCHANGED <<status, thread, notes, start, ctx, lease, sending, verdict, session, at>>
    BY <1>TimeoutTurn DEF TimeoutTurn
  <2>2. HonestOutcome'
    BY <2>1 DEF Ownership, Owned, HonestOutcome, TypesHold, TypeOK
  <2> QED
    BY <2>1, <2>2 DEF Ownership, Owned, LeasesBalance, StartsApart, UnusedIsBlank, NotesFit
<1>Offline. CASE WorkerStopped(a) \/ RestartTimesOut(a)
  <2>1. Settle(TurnsOf(a), "failed", {}) /\ CloseSessions(TurnsOf(a))
        /\ UNCHANGED <<thread, verdict, timedOut, sending, at>>
    BY <1>Offline DEF WorkerStopped, RestartTimesOut
  <2>2. TurnsOf(a) \in SUBSET Turns BY DEF TurnsOf, Used
  <2>3. Owned' /\ LeasesBalance' /\ HonestOutcome' /\ StartsApart' /\ NotesFit'
    BY <2>1, <2>2, SettleOwns DEF Terminal
  <2>4. UnusedIsBlank'
    BY <2>1 DEF Settle, SettledStatus, SetTurnStatus, CloseSessions, Ownership, UnusedIsBlank, Owned,
                TypesHold, TypeOK
  <2> QED BY <2>3, <2>4 DEF Ownership
<1>WorkerCrash. CASE WorkerCrash(a)
  <2>1. current[a] \in Workers /\ WorkerExit(current[a], TurnsOf(a)) /\ TurnsOf(a) \in SUBSET Turns
        /\ UNCHANGED <<thread, verdict, timedOut, at>>
    BY <1>WorkerCrash DEF WorkerCrash, TypesHold, TypeOK, TurnsOf, Used
  <2> QED BY <2>1, WorkerExitOwns
<1>WorkerKilled. CASE WorkerKilled(a)
  <2>1. /\ \E done \in SUBSET Turns : WorkerExit(victim[a], done)
        /\ UNCHANGED <<thread, verdict, timedOut, at>>
    BY <1>WorkerKilled DEF WorkerKilled, TurnsOf, Used
  <2>2. victim[a] \in Workers BY <1>WorkerKilled DEF WorkerKilled, Alive, TypesHold, TypeOK
  <2> QED BY <2>1, <2>2, WorkerExitOwns
<1>others. CASE TimeoutAborted(a) \/ TimeoutConfirmed(a) \/ QuarantineWorker(a) \/ RestartWorker(a)
                \/ Recheck(a) \/ ProbePasses(a) \/ ProbeFails(a)
  BY <1>others, OwnershipFrame DEF TimeoutAborted, TimeoutConfirmed, QuarantineWorker, RestartWorker,
     Recheck, ProbePasses, ProbeFails
<1> QED
  BY <1>TimeoutTurn, <1>Offline, <1>WorkerCrash, <1>WorkerKilled, <1>others DEF AgentStep

\* The worker's own steps touch its session alone: a verdict is the first, and comes to a Turn that has started.
LEMMA WorkerOwns ==
  ASSUME TurnsIInv, NEW t \in Turns, WorkerStep(t) PROVE Ownership'
<1> USE DEF TurnsIInv, rows, service, timeouts, registry
<1>1. UNCHANGED <<status, thread, notes, start, ctx, lease, sending, timedOut, at>>
  BY DEF WorkerStep, WorkerOpens, WorkerReads, WorkerSettles, HiddenSettles, PromptFails,
         WorkerAborts
<1>2. \A u \in Turns : session'[u] # session[u] => session[u] # "none"
  <2>0. session \in [Turns -> {"none", "opening", "idle", "reading", "running", "settled",
                               "ended", "stale", "hidden", "closed"}]
        /\ verdict \in [Turns -> {"none", "completed", "cancelled", "error"}]
    BY DEF TypesHold, TypeOK
  <2>1. CASE WorkerOpens(t) BY <2>0, <2>1 DEF WorkerOpens
  <2>2. CASE WorkerReads(t) BY <2>0, <2>2 DEF WorkerReads
  <2>3. CASE WorkerSettles(t) BY <2>0, <2>3 DEF WorkerSettles, Witness
  <2>4. CASE PromptFails(t) BY <2>0, <2>4 DEF PromptFails, Witness
  <2>5. CASE \E by \in Aborters : WorkerAborts(t, by) BY <2>0, <2>5 DEF WorkerAborts, Witness
  <2>6. CASE HiddenSettles(t) BY <2>0, <2>6 DEF HiddenSettles
  <2> QED BY <2>1, <2>2, <2>3, <2>4, <2>5, <2>6 DEF WorkerStep
<1>3. \A u \in Turns : verdict'[u] # verdict[u] => verdict[u] = "none" /\ session[u] \in {"running", "settled", "hidden"}
  <2>0. session \in [Turns -> {"none", "opening", "idle", "reading", "running", "settled",
                               "ended", "stale", "hidden", "closed"}]
        /\ verdict \in [Turns -> {"none", "completed", "cancelled", "error"}]
    BY DEF TypesHold, TypeOK
  <2>1. CASE WorkerOpens(t) BY <2>0, <2>1 DEF WorkerOpens
  <2>2. CASE WorkerReads(t) BY <2>0, <2>2 DEF WorkerReads
  <2>3. CASE WorkerSettles(t) BY <2>0, <2>3 DEF WorkerSettles, Witness
  <2>4. CASE PromptFails(t) BY <2>0, <2>4 DEF PromptFails, Witness
  <2>5. CASE \E by \in Aborters : WorkerAborts(t, by) BY <2>0, <2>5 DEF WorkerAborts, Witness
  <2>6. CASE HiddenSettles(t) BY <2>0, <2>6 DEF HiddenSettles
  <2> QED BY <2>1, <2>2, <2>3, <2>4, <2>5, <2>6 DEF WorkerStep
<1>4. \A u \in Turns : verdict'[u] # verdict[u] => start[u] = "none" /\ status[u] # "none"
  BY <1>3 DEF Sessions, SessionsFit, ForgottenApart, Ownership, StartsApart, UnusedIsBlank
<1>5. HonestOutcome' /\ StartsApart'
  BY <1>1, <1>3, <1>4 DEF Ownership, HonestOutcome, StartsApart
<1>6. UnusedIsBlank'
  BY <1>1, <1>2, <1>4 DEF Ownership, UnusedIsBlank
<1> QED
  BY <1>1, <1>5, <1>6 DEF Ownership, Owned, LeasesBalance, NotesFit

\* A restart ends what was working.
LEMMA RestartOwns == ASSUME TurnsIInv, Restart PROVE Ownership'
BY DEF TurnsIInv, Restart, Recovered, Dispatching, AbortsPlaced, Ownership, Owned, LeasesBalance,
       HonestOutcome, StartsApart,
       UnusedIsBlank,
       NotesFit, TypesHold, TypeOK, Terminal

-----------------------------------------------------------------------------
\* No step takes a Turn out of the table, and an abort begins for a Turn that works.
LEMMA AbortsStep ==
  ASSUME TurnsIInv, Next PROVE AbortsPlaced'
<1> USE DEF rows, service, timeouts, registry, worker
<1>0. /\ status \in [Turns -> {"none", "working"} \cup Terminal]
      /\ aborter \in [Turns -> {"none", "starting", "resume", "pending"}]
      /\ \A t \in Turns : aborter[t] # "none" \/ t \in peer => status[t] # "none"
      /\ \A t \in Turns : start[t] # "none" => status[t] # "none"
  BY DEF TurnsIInv, TypesHold, TypeOK, AbortsPlaced, Ownership, Owned
<1>1. ASSUME NEW done \in SUBSET Turns, NEW outcome \in Terminal, NEW rejected \in SUBSET Turns,
             Settle(done, outcome, rejected), NEW T \in SUBSET Turns, aborter' = Aborted(T) \/ aborter' = aborter,
             peer' = peer
      PROVE  AbortsPlaced'
  BY <1>0, <1>1 DEF AbortsPlaced, Settle, SettledStatus, SetTurnStatus, Aborted, Terminal
<1>6. ASSUME UNCHANGED <<status, aborter, peer>> PROVE AbortsPlaced'
  BY <1>0, <1>6 DEF AbortsPlaced
<1>7. ASSUME NEW done \in SUBSET Turns, NEW outcome \in Terminal, Settle(done, outcome, {}),
             UNCHANGED <<aborter, peer>>
      PROVE  AbortsPlaced'
  BY <1>0, <1>7 DEF AbortsPlaced, Settle, SettledStatus, SetTurnStatus, Terminal
<1>2. ASSUME NEW t \in Turns, ServiceStep(t) PROVE AbortsPlaced'
  <2>1. CASE StartFails(t) \/ OpenRefused(t)
    BY <1>1, <2>1 DEF StartFails, OpenRefused, Waiting, Terminal
  <2>2. CASE SendFails(t)
    BY <1>1, <2>2 DEF SendFails, Waiting, Terminal
  <2>3. ASSUME NEW e \in {"completed", "cancelled", "error"}, EventReceived(t, e)
        PROVE  AbortsPlaced'
    <3> DEFINE done == IF ready[Agent(t)] THEN {t} ELSE {}
    <3>1. Settle(done, Outcome(t, e), {}) /\ aborter' = aborter /\ peer' = peer BY <2>3
      DEF EventReceived
    <3>2. done \in SUBSET Turns /\ Outcome(t, e) \in Terminal BY DEF Outcome, Terminal
    <3> HIDE DEF done
    <3> QED BY <1>7, <3>1, <3>2
  <2>4. ASSUME NEW th \in Threads, NEW k \in Kinds, Send(t, th, k) PROVE AbortsPlaced'
    BY <1>0, <2>4 DEF AbortsPlaced, Send
  <2>5. CASE LeasePlugins(t) \/ OpenSession(t) \/ ReplyIgnored(t) \/ TurnExpires(t)
    BY <1>6, <2>5 DEF LeasePlugins, OpenSession, ReplyIgnored, TurnExpires
  <2>6. CASE SessionOpened(t) \/ SendAccepted(t) \/ Delivered(t)
    BY <1>0, <2>6 DEF AbortsPlaced, SessionOpened, SendAccepted, Delivered
  <2>7. CASE AbortTurn(t) \/ AbortResumes(t) \/ AbortAnswered(t)
    BY <1>0, <2>7 DEF AbortsPlaced, AbortTurn, AbortResumes, AbortAnswered, Aborted
  <2> QED BY <1>2, <2>1, <2>2, <2>3, <2>4, <2>5, <2>6, <2>7 DEF ServiceStep
<1>3. ASSUME NEW a \in Agents, AgentStep(a) PROVE AbortsPlaced'
  <2>1. CASE WorkerStopped(a) \/ RestartTimesOut(a)
    <3>1. TurnsOf(a) \in SUBSET Turns /\ "failed" \in Terminal BY DEF TurnsOf, Used, Terminal
    <3>2. Settle(TurnsOf(a), "failed", {}) /\ UNCHANGED <<aborter, peer>>
      BY <2>1 DEF WorkerStopped, RestartTimesOut
    <3> QED BY <1>7, <3>1, <3>2
  <2>2. ASSUME NEW w, NEW done \in SUBSET Turns, WorkerExit(w, done), peer' = peer PROVE AbortsPlaced'
    BY <1>0, <2>2 DEF WorkerExit, AbortsPlaced, Settle, SettledStatus, SetTurnStatus, Aborted, Terminal
  <2>3. CASE WorkerCrash(a) \/ WorkerKilled(a)
    <3>1. peer' = peer /\ \E w, done : WorkerExit(w, done) /\ done \in SUBSET Turns
      BY <2>3 DEF WorkerCrash, WorkerKilled, TurnsOf, Used
    <3> QED BY <2>2, <3>1
  <2>4. CASE \/ TimeoutTurn(a) \/ TimeoutAborted(a) \/ TimeoutConfirmed(a) \/ QuarantineWorker(a)
             \/ RestartWorker(a) \/ Recheck(a) \/ ProbePasses(a) \/ ProbeFails(a)
    BY <1>6, <2>4 DEF TimeoutTurn, TimeoutAborted, TimeoutConfirmed, QuarantineWorker, RestartWorker,
                      Recheck, ProbePasses, ProbeFails
  <2> QED BY <1>3, <2>1, <2>3, <2>4 DEF AgentStep
<1>4. CASE \E t \in Turns : WorkerStep(t)
  BY <1>0, <1>4 DEF AbortsPlaced, WorkerStep, WorkerOpens, WorkerReads, WorkerSettles, HiddenSettles,
                    PromptFails, WorkerAborts
<1>5. CASE Restart \/ \E w \in Workers : Hello(w)
  BY <1>0, <1>5 DEF AbortsPlaced, Restart, Recovered, Dispatching, Hello
<1> QED BY <1>2, <1>3, <1>4, <1>5 DEF Next

\* A session is forgotten when its context is finished, and a start begins without one.
LEMMA ForgottenStep ==
  ASSUME TurnsIInv, Next PROVE ForgottenApart'
<1> USE DEF rows, service, timeouts, registry, worker
<1> DEFINE Quiet == /\ \A u \in Turns : start'[u] # "none" => start[u] # "none" \/ session'[u] = "none"
                    /\ \A u \in Turns : session'[u] \in {"stale", "hidden"} =>
                                         session[u] \in {"stale", "hidden"} \/ u \in ctx
<1>0. /\ session \in [Turns -> {"none", "opening", "idle", "reading", "running", "settled",
                                "ended", "stale", "hidden", "closed"}]
      /\ start \in [Turns -> {"none", "leasing", "spawning", "opening"}]
      /\ \A t \in Turns : status[t] = "none" => session[t] = "none"
  BY DEF TurnsIInv, TypesHold, TypeOK, Ownership, UnusedIsBlank
<1>1. ASSUME Quiet PROVE ForgottenApart'
  BY <1>1 DEF TurnsIInv, ForgottenApart, Ownership, StartsApart
<1>2. ASSUME NEW t \in Turns, ServiceStep(t) PROVE Quiet
  <2>1. CASE StartFails(t) \/ OpenRefused(t)
    BY <1>0, <2>1 DEF StartFails, OpenRefused, Settle
  <2>2. CASE SendFails(t) \/ \E e \in {"completed", "cancelled", "error"} : EventReceived(t, e)
    BY <1>0, <2>2 DEF SendFails, EventReceived, Settle, CloseSessions, Closed
  <2>3. CASE \E th \in Threads, k \in Kinds : Send(t, th, k)
    BY <1>0, <2>3 DEF Send
  <2>4. CASE \/ LeasePlugins(t) \/ OpenSession(t) \/ SessionOpened(t) \/ SendAccepted(t) \/ Delivered(t)
             \/ ReplyIgnored(t) \/ AbortTurn(t) \/ AbortResumes(t) \/ AbortAnswered(t) \/ TurnExpires(t)
    BY <1>0, <2>4 DEF LeasePlugins, OpenSession, SessionOpened, SendAccepted, Delivered, ReplyIgnored,
                      AbortTurn, AbortResumes, AbortAnswered, TurnExpires
  <2> QED BY <1>2, <2>1, <2>2, <2>3, <2>4 DEF ServiceStep
<1>3. ASSUME NEW a \in Agents, AgentStep(a) PROVE Quiet
  <2>1. CASE WorkerStopped(a) \/ RestartTimesOut(a)
    BY <1>0, <2>1 DEF WorkerStopped, RestartTimesOut, Settle, CloseSessions, Closed
  <2>2. ASSUME NEW w, NEW done, WorkerExit(w, done) PROVE Quiet
    BY <1>0, <2>2 DEF WorkerExit, Settle, Closed
  <2>3. CASE WorkerCrash(a) \/ WorkerKilled(a)
    BY <2>2, <2>3 DEF WorkerCrash, WorkerKilled
  <2>4. CASE \/ TimeoutTurn(a) \/ TimeoutAborted(a) \/ TimeoutConfirmed(a) \/ QuarantineWorker(a)
             \/ RestartWorker(a) \/ Recheck(a) \/ ProbePasses(a) \/ ProbeFails(a)
    BY <2>4 DEF TimeoutTurn, TimeoutAborted, TimeoutConfirmed, QuarantineWorker, RestartWorker, Recheck,
                ProbePasses, ProbeFails
  <2> QED BY <1>3, <2>1, <2>3, <2>4 DEF AgentStep
<1>4. ASSUME NEW t \in Turns, WorkerStep(t) PROVE Quiet
  BY <1>0, <1>4 DEF WorkerStep, WorkerOpens, WorkerReads, WorkerSettles, HiddenSettles, PromptFails,
                    WorkerAborts
<1>5. ASSUME Restart \/ \E w \in Workers : Hello(w) PROVE Quiet
  BY <1>0, <1>5 DEF Restart, Hello
<1> HIDE DEF Quiet
<1> QED BY <1>1, <1>2, <1>3, <1>4, <1>5 DEF Next

-----------------------------------------------------------------------------
\* The Agent of a Turn that has a start or a context.
LEMMA AgentIsKnown ==
  ASSUME TurnsIInv, NEW t \in Turns, start[t] # "none" \/ t \in ctx
  PROVE  Agent(t) \in Agents
BY TurnsAssumption DEF TurnsIInv, Ownership, Owned, UnusedIsBlank, Agent

\* Steps that take contexts, starts, probes and readiness away, and leave the workers as they are.
LEMMA HostingFrame ==
  ASSUME Hosting, UNCHANGED <<proc, current, victim>>,
         \A a \in Agents : phase'[a] = "stopping" <=> phase[a] = "stopping",
         \A t \in ctx' : t \in ctx /\ Agent(t) \in Agents /\ UNCHANGED <<at[t], thread[t]>>,
         \A t \in Turns : start'[t] \in {"spawning", "opening"} =>
                            start[t] \in {"spawning", "opening"} /\ UNCHANGED <<at[t], thread[t]>>,
         \A a \in Agents : (probing'[a] # 0 => probing'[a] = probing[a]) /\ (ready'[a] => ready[a])
  PROVE  Hosting'
<1> USE DEF Hosting
<1>1. WorkersApart' BY DEF WorkersApart
<1>2. ContextHasWorker' /\ ContextPlaced' BY DEF ContextHasWorker, ContextPlaced, Agent, Alive
<1>3. StartHasWorker' BY DEF StartHasWorker, HostedBy, Agent, Alive
<1>4. ProbesLive' BY DEF ProbesLive, Alive
<1>5. ReadyHasWorker' BY DEF ReadyHasWorker, Alive
<1> QED BY <1>1, <1>2, <1>3, <1>4, <1>5

\* Contexts and starts keep their workers when what is in service or in quarantine stays so.
LEMMA HostingFollows ==
  ASSUME TurnsIInv, UNCHANGED <<thread, ctx>>, \A t \in ctx : at'[t] = at[t],
         \A t \in Turns : start'[t] \in {"spawning", "opening"} =>
            \/ start[t] \in {"spawning", "opening"} /\ at'[t] = at[t]
            \/ \E v \in Workers : at'[t] = v /\ Alive(v)' /\ HostedBy(v, Agent(t))',
         \A v \in Workers, b \in Agents :
            /\ HostedBy(v, b) /\ Alive(v) => HostedBy(v, b)' /\ Alive(v)'
            /\ HostedBy(v, b) /\ phase[b] = "stopping" /\ v = victim[b] =>
                 HostedBy(v, b)' /\ phase'[b] = "stopping" /\ v = victim'[b]
  PROVE  ContextPlaced' /\ ContextHasWorker' /\ StartHasWorker'
<1> USE DEF TurnsIInv, TypesHold, Hosting
<1>1. thread' = thread /\ ctx' = ctx OBVIOUS
<1>2. \A t \in Turns : start[t] # "none" \/ t \in ctx => Agent(t) \in Agents
  BY AgentIsKnown
<1>3. ASSUME NEW t \in ctx
      PROVE  /\ Alive(at[t])' \/ (phase'[Agent(t)] = "stopping" /\ at[t] = victim'[Agent(t)])
             /\ at[t] = IF proc'[at[t]] \in {"starting", "up"} THEN current'[Agent(t)] ELSE victim'[Agent(t)]
  <2>1. PICK v \in Workers, b \in Agents : v = at[t] /\ b = Agent(t)
    BY <1>2 DEF ContextPlaced, TypeOK
  <2>2. HostedBy(v, b) /\ (Alive(v) \/ (phase[b] = "stopping" /\ v = victim[b]))
    BY <2>1 DEF ContextHasWorker, HostedBy
  <2>3. HostedBy(v, b)' /\ (Alive(v)' \/ (phase'[b] = "stopping" /\ v = victim'[b]))
    BY <2>2
  <2> QED BY <1>1, <2>1, <2>3 DEF HostedBy, Alive
<1>4. ContextPlaced' /\ ContextHasWorker'
  BY <1>1, <1>3 DEF ContextPlaced, ContextHasWorker, Agent
<1>5. ASSUME NEW t \in Turns, start[t] \in {"spawning", "opening"}
      PROVE  /\ Alive(at[t])' \/ at'[t] # at[t]
             /\ at[t] = IF proc'[at[t]] \in {"starting", "up"} THEN current'[Agent(t)] ELSE victim'[Agent(t)]
  <2>0. at[t] \in Workers BY <1>5 DEF StartHasWorker, Alive, TypeOK
  <2>1. PICK v \in Workers, b \in Agents : v = at[t] /\ b = Agent(t)
    BY <1>2, <1>5, <2>0
  <2>2. HostedBy(v, b) /\ Alive(v) BY <1>5, <2>1 DEF StartHasWorker
  <2>3. HostedBy(v, b)' /\ Alive(v)' BY <2>2
  <2> QED BY <1>1, <2>1, <2>3 DEF HostedBy, Alive
<1>6. ASSUME NEW t \in Turns, start'[t] \in {"spawning", "opening"}
      PROVE  /\ Alive(at[t])'
             /\ at'[t] = IF proc'[at'[t]] \in {"starting", "up"} THEN current'[Agent(t)] ELSE victim'[Agent(t)]
  <2>1. CASE start[t] \in {"spawning", "opening"} /\ at'[t] = at[t] BY <1>5, <2>1
  <2>2. CASE \E v \in Workers : at'[t] = v /\ Alive(v)' /\ HostedBy(v, Agent(t))'
    BY <1>1, <2>2 DEF HostedBy, Alive, Agent
  <2> QED BY <1>6, <2>1, <2>2
<1>7. StartHasWorker' BY <1>1, <1>6 DEF StartHasWorker, HostedBy, Agent
<1> QED BY <1>4, <1>7

\* What is in service or in quarantine stays so while the Agent's worker is obtained.
LEMMA AgentWorkerHosts ==
  ASSUME TypeOK, Hosting, NEW a \in Agents, NEW w \in Workers, AgentWorker(a, w),
         UNCHANGED victim, \A b \in Agents : phase'[b] = "stopping" <=> phase[b] = "stopping"
  PROVE  /\ WorkersApart'
         /\ \A v \in Workers, b \in Agents :
              HostedBy(v, b) /\ proc[v] # "none" => HostedBy(v, b)' /\ proc'[v] = proc[v]
         /\ \A v \in Workers : Alive(v) => Alive(v)'
         /\ Alive(w)' /\ w = current'[a] /\ proc'[w] \in {"starting", "up"}
         /\ \A b \in Agents : Alive(current[b]) => current'[b] = current[b]
<1>0. 0 \notin Workers BY TurnsAssumption DEF Workers
<1> USE DEF TypeOK, Hosting
<1>1. CASE Alive(current[a]) /\ w = current[a] /\ UNCHANGED <<current, proc>>
  BY <1>0, <1>1 DEF WorkersApart, HostedBy, Alive
<1>2. CASE /\ ~Alive(current[a]) /\ proc[w] = "none"
           /\ current' = [current EXCEPT ![a] = w]
           /\ proc' = [proc EXCEPT ![w] = "starting"]
  <2>1. WorkersApart'
    <3>1. /\ current \in [Agents -> Workers \cup {0}] /\ victim \in [Agents -> Workers \cup {0}]
          /\ proc \in [Workers -> {"none", "starting", "up", "stopping", "dead"}]
      BY DEF TypeOK
    <3> HIDE DEF TypeOK
    <3>2. \A b \in Agents : current[b] # w /\ victim[b] # w
      <4>1. WorkersApart /\ proc[w] = "none" /\ w # 0 BY <1>0, <1>2
      <4> HIDE DEF Hosting
      <4> QED BY <4>1 DEF WorkersApart
    <3> HIDE DEF Hosting
    <3>3. \A b \in Agents : current'[b] # 0 => proc'[current'[b]] \in {"starting", "up", "dead"}
      BY <1>0, <1>2, <3>1, <3>2 DEF WorkersApart, Hosting
    <3>4. \A b \in Agents : victim'[b] # 0 => proc'[victim'[b]] \in {"stopping", "dead"} /\ phase'[b] = "stopping"
      BY <1>0, <1>2, <3>1, <3>2 DEF WorkersApart, Hosting
    <3>5. \A b, c \in Agents :
         /\ current'[b] # 0 => current'[b] # victim'[c]
         /\ b # c /\ current'[b] # 0 => current'[b] # current'[c]
         /\ b # c /\ victim'[b] # 0 => victim'[b] # victim'[c]
      BY <1>0, <1>2, <3>1, <3>2 DEF WorkersApart, Hosting
    <3> QED BY <3>3, <3>4, <3>5 DEF WorkersApart
  <2>2. ASSUME NEW v \in Workers, NEW b \in Agents, HostedBy(v, b), proc[v] # "none"
        PROVE  HostedBy(v, b)' /\ proc'[v] = proc[v]
    BY <1>0, <1>2, <2>2 DEF HostedBy, Alive
  <2>3. \A v \in Workers : Alive(v) => Alive(v)' BY <1>2 DEF Alive
  <2>4. Alive(w)' /\ w = current'[a] /\ proc'[w] \in {"starting", "up"} BY <1>0, <1>2 DEF Alive
  <2>5. \A b \in Agents : Alive(current[b]) => current'[b] = current[b] BY <1>2
  <2> QED BY <2>1, <2>2, <2>3, <2>4, <2>5
<1> QED BY <1>1, <1>2 DEF AgentWorker

\* Obtaining a worker disturbs nothing that has one.
LEMMA AgentWorkerKeeps ==
  ASSUME TurnsIInv, NEW a \in Agents, NEW w \in Workers, AgentWorker(a, w),
         UNCHANGED <<victim, thread, ctx, ready>>, \A t \in ctx : at'[t] = at[t],
         \A t \in Turns : start'[t] \in {"spawning", "opening"} =>
            \/ start[t] \in {"spawning", "opening"} /\ at'[t] = at[t]
            \/ at'[t] = w /\ Agent(t) = a,
         \A b \in Agents : phase'[b] = "stopping" <=> phase[b] = "stopping",
         \A b \in Agents : probing'[b] = probing[b] \/ (b = a /\ probing'[b] = w)
  PROVE  Hosting'
<1> USE DEF TurnsIInv, TypesHold
<1>0. 0 \notin Workers BY TurnsAssumption DEF Workers
<1>1. /\ WorkersApart'
      /\ \A v \in Workers, b \in Agents :
           HostedBy(v, b) /\ proc[v] # "none" => HostedBy(v, b)' /\ proc'[v] = proc[v]
      /\ \A v \in Workers : Alive(v) => Alive(v)'
      /\ Alive(w)' /\ w = current'[a] /\ proc'[w] \in {"starting", "up"}
      /\ \A b \in Agents : Alive(current[b]) => current'[b] = current[b]
  BY AgentWorkerHosts
<1>2. ASSUME NEW v \in Workers, NEW b \in Agents, HostedBy(v, b),
             Alive(v) \/ (phase[b] = "stopping" /\ v = victim[b])
      PROVE  HostedBy(v, b)' /\ (Alive(v) => Alive(v)')
  <2>1. proc[v] # "none" BY <1>0, <1>2 DEF Alive, Hosting, WorkersApart
  <2> QED BY <1>1, <1>2, <2>1
<1>3. HostedBy(w, a)' BY <1>1 DEF HostedBy
<1>3c. ContextPlaced' /\ ContextHasWorker' /\ StartHasWorker'
  <2>1. \A t \in Turns : start'[t] \in {"spawning", "opening"} =>
            \/ start[t] \in {"spawning", "opening"} /\ at'[t] = at[t]
            \/ \E v \in Workers : at'[t] = v /\ Alive(v)' /\ HostedBy(v, Agent(t))'
    <3> SUFFICES ASSUME NEW t \in Turns, at'[t] = w, Agent(t) = a
                 PROVE  at'[t] = w /\ Alive(w)' /\ HostedBy(w, Agent(t))'
      OBVIOUS
    <3>1. Agent(t)' = a BY DEF Agent
    <3> QED BY <1>1, <1>3, <3>1 DEF HostedBy
  <2> QED BY <1>2, <2>1, HostingFollows
<1>4. ASSUME NEW b \in Agents, probing'[b] # 0
      PROVE  Alive(probing[b])' /\ probing'[b] \in {current'[b], victim'[b]}
  <2>1. CASE b = a /\ probing'[b] = w
    BY <1>1, <2>1 DEF Alive
  <2>2. CASE probing'[b] = probing[b]
    <3>1. PICK v \in Workers : v = probing[b] BY <1>4, <2>2 DEF TypeOK
    <3>2. Alive(v) /\ v \in {current[b], victim[b]}
      BY <1>4, <2>2, <3>1 DEF Hosting, ProbesLive
    <3>3. Alive(v)' /\ v \in {current'[b], victim'[b]}
      BY <1>1, <3>2
    <3> QED BY <2>2, <3>1, <3>3 DEF Alive
  <2> QED BY <2>1, <2>2
<1>5. ProbesLive' BY <1>4 DEF ProbesLive, Alive
<1>6. ReadyHasWorker'
  <2>1. ASSUME NEW b \in Agents, Alive(current[b])
        PROVE  Alive(current[b])'
    <3>1. PICK v \in Workers : v = current[b] BY <2>1 DEF Alive, TypeOK
    <3>2. Alive(v)' /\ current'[b] = v BY <1>1, <2>1, <3>1
    <3> QED BY <3>2 DEF Alive
  <2> QED BY <2>1 DEF Hosting, ReadyHasWorker, Alive
<1> QED BY <1>1, <1>3c, <1>5, <1>6 DEF Hosting

\* Quarantine takes the Agent's worker out of service with all that it hosts.
LEMMA StopAgentWorkerKeeps ==
  ASSUME TurnsIInv, NEW a \in Agents, phase[a] # "stopping", StopAgentWorker(a),
         UNCHANGED <<thread, ctx, at, start, ready, probing>>
  PROVE  Hosting'
<1> USE DEF TurnsIInv, TypesHold
<1>0. 0 \notin Workers BY TurnsAssumption DEF Workers
<1>t. /\ current \in [Agents -> Workers \cup {0}] /\ victim \in [Agents -> Workers \cup {0}]
      /\ proc \in [Workers -> {"none", "starting", "up", "stopping", "dead"}]
      /\ phase \in [Agents -> {"idle", "aborting", "confirming", "stopping"}]
  BY DEF TypeOK
<1>1. /\ phase' = [phase EXCEPT ![a] = "stopping"]
      /\ victim' = [victim EXCEPT ![a] = current[a]]
      /\ current' = [current EXCEPT ![a] = 0]
      /\ \A v \in Workers : proc'[v] = IF v = current[a] /\ Alive(v) THEN "stopping" ELSE proc[v]
  BY DEF StopAgentWorker
<1>2. victim[a] = 0 BY DEF Hosting, WorkersApart
<1>3. WorkersApart' BY <1>0, <1>t, <1>1 DEF Hosting, WorkersApart, Alive
<1>4. \A v \in Workers, b \in Agents : HostedBy(v, b) /\ Alive(v) => HostedBy(v, b)' /\ Alive(v)'
  BY <1>0, <1>t, <1>1, <1>2 DEF Hosting, WorkersApart, HostedBy, Alive
<1>5. \A v \in Workers, b \in Agents :
         phase[b] = "stopping" /\ v = victim[b] => HostedBy(v, b)' /\ phase'[b] = "stopping" /\ v = victim'[b]
  BY <1>0, <1>t, <1>1, <1>2 DEF Hosting, WorkersApart, HostedBy
<1>6. ContextPlaced' /\ ContextHasWorker' /\ StartHasWorker'
  BY <1>4, <1>5, HostingFollows
<1>9. ProbesLive'
  <2> SUFFICES ASSUME NEW b \in Agents, probing[b] # 0
               PROVE  Alive(probing[b])' /\ probing[b] \in {current'[b], victim'[b]}
    BY DEF ProbesLive, Alive
  <2>1. probing[b] \in Workers /\ Alive(probing[b]) /\ probing[b] \in {current[b], victim[b]}
    BY DEF Hosting, ProbesLive, TypeOK
  <2>2. Alive(probing[b])' BY <1>0, <1>1, <2>1 DEF Alive
  <2> QED BY <1>0, <1>t, <1>1, <1>2, <2>1, <2>2
<1>10. ASSUME NEW b \in Agents, ready[b]
       PROVE  Alive(current[b])' \/ phase'[b] = "stopping"
  <2>1. CASE b = a BY <1>t, <1>1, <2>1
  <2>2. CASE b # a
    <3>1. Alive(current[b]) \/ phase[b] = "stopping" BY <1>10 DEF Hosting, ReadyHasWorker
    <3>2. current'[b] = current[b] /\ phase'[b] = phase[b] BY <1>t, <1>1, <2>2
    <3>3. Alive(current[b]) => current[b] # current[a] /\ current[b] \in Workers
      BY <1>t, <2>2 DEF Alive, Hosting, WorkersApart
    <3> QED BY <1>1, <3>1, <3>2, <3>3 DEF Alive
  <2> QED BY <2>1, <2>2
<1>11. ReadyHasWorker' BY <1>10 DEF ReadyHasWorker, Alive
<1> QED BY <1>3, <1>6, <1>9, <1>11 DEF Hosting

\* A worker that exits takes the starts and the pending messages on it along.
LEMMA WorkerExitHosts ==
  ASSUME TurnsIInv, NEW a \in Agents, NEW w \in Workers, NEW done \in SUBSET Turns,
         WorkerExit(w, done), w \in {current[a], victim[a]}, Alive(w),
         w = current[a] => done = TurnsOf(a),
         UNCHANGED <<thread, at, current, victim, phase>>,
         \A b \in Agents : (probing'[b] # 0 => probing'[b] = probing[b] /\ probing[b] # w)
                           /\ (ready'[b] => ready[b] /\ (b = a => w # current[a]))
  PROVE  Hosting'
<1> USE DEF TurnsIInv, TypesHold
<1>0. 0 \notin Workers BY TurnsAssumption DEF Workers
<1>t. /\ current \in [Agents -> Workers \cup {0}] /\ victim \in [Agents -> Workers \cup {0}]
      /\ proc \in [Workers -> {"none", "starting", "up", "stopping", "dead"}]
      /\ at \in [Turns -> Workers \cup {0}] /\ ctx \subseteq Turns
      /\ start \in [Turns -> {"none", "leasing", "spawning", "opening"}]
  BY DEF TypeOK
<1>u. thread' = thread /\ at' = at /\ current' = current /\ victim' = victim /\ phase' = phase OBVIOUS
<1>1. proc' = [proc EXCEPT ![w] = "dead"] BY DEF WorkerExit
<1>2. WorkersApart' BY <1>0, <1>t, <1>u, <1>1 DEF Hosting, WorkersApart
<1>3. \A b \in Agents : w \in {current[b], victim[b]} => b = a
  BY <1>0, <1>t DEF Hosting, WorkersApart
<1>4. \A t \in Turns : start[t] # "none" \/ t \in ctx => Agent(t) \in Agents
  BY AgentIsKnown
<1>5. ctx' \subseteq ctx /\ \A t \in ctx' : w = current[a] => Agent(t) # a
  BY <1>t DEF WorkerExit, Settle, TurnsOf, Ownership, Owned, UnusedIsBlank, Used
<1>6. \A t \in Turns : start'[t] \in {"spawning", "opening"} =>
                          start[t] \in {"spawning", "opening"} /\ at[t] # w
  BY <1>t DEF WorkerExit, Settle, On
<1>7. ASSUME NEW t \in ctx'
      PROVE  /\ at[t] \in Workers
             /\ Alive(at[t])' \/ (phase[Agent(t)] = "stopping" /\ at[t] = victim[Agent(t)])
             /\ at[t] = IF proc'[at[t]] \in {"starting", "up"} THEN current[Agent(t)] ELSE victim[Agent(t)]
  <2>1. t \in ctx /\ t \in Turns /\ Agent(t) \in Agents BY <1>t, <1>4, <1>5
  <2>2. /\ at[t] \in Workers
        /\ Alive(at[t]) \/ (phase[Agent(t)] = "stopping" /\ at[t] = victim[Agent(t)])
        /\ at[t] = IF proc[at[t]] \in {"starting", "up"} THEN current[Agent(t)] ELSE victim[Agent(t)]
    BY <2>1 DEF Hosting, ContextPlaced, ContextHasWorker
  <2>3. CASE at[t] # w
    BY <1>t, <1>u, <1>1, <2>2, <2>3 DEF Alive
  <2>4. CASE at[t] = w
    <3>1. Agent(t) = a BY <1>3, <2>1, <2>2, <2>4
    <3>2. w # current[a] BY <1>5, <3>1
    <3>3. w = victim[a] /\ phase[a] = "stopping" BY <1>0, <3>2 DEF Hosting, WorkersApart
    <3> QED BY <1>t, <1>1, <2>2, <2>4, <3>1, <3>3
  <2> QED BY <2>3, <2>4
<1>8. ContextPlaced' /\ ContextHasWorker'
  BY <1>u, <1>7 DEF ContextPlaced, ContextHasWorker, Agent
<1>9. ASSUME NEW t \in Turns, start'[t] \in {"spawning", "opening"}
      PROVE  /\ Alive(at[t])'
             /\ at[t] = IF proc'[at[t]] \in {"starting", "up"} THEN current[Agent(t)] ELSE victim[Agent(t)]
  <2>1. Alive(at[t]) /\ at[t] # w
        /\ at[t] = IF proc[at[t]] \in {"starting", "up"} THEN current[Agent(t)] ELSE victim[Agent(t)]
    BY <1>6, <1>9 DEF Hosting, StartHasWorker, HostedBy
  <2> QED BY <1>t, <1>u, <1>1, <2>1 DEF Alive
<1>10. StartHasWorker' BY <1>u, <1>9 DEF StartHasWorker, HostedBy, Agent
<1>11. ProbesLive'
  <2>1. ASSUME NEW b \in Agents, probing'[b] # 0
        PROVE  Alive(probing[b])' /\ probing'[b] \in {current[b], victim[b]}
    <3>1. probing'[b] = probing[b] /\ probing[b] # w BY <2>1
    <3>2. Alive(probing[b]) /\ probing[b] \in {current[b], victim[b]}
      BY <2>1, <3>1 DEF Hosting, ProbesLive
    <3>3. probing[b] \in Workers BY <3>2 DEF Alive, TypeOK
    <3> QED BY <1>t, <1>1, <3>1, <3>2, <3>3 DEF Alive
  <2> QED BY <1>u, <2>1 DEF ProbesLive, Alive
<1>12. ReadyHasWorker'
  <2>1. ASSUME NEW b \in Agents, ready'[b]
        PROVE  Alive(current[b])' \/ phase[b] = "stopping"
    <3>1. ready[b] /\ (b = a => w # current[a]) BY <2>1
    <3>2. Alive(current[b]) \/ phase[b] = "stopping" BY <3>1 DEF Hosting, ReadyHasWorker
    <3>3. Alive(current[b]) => current[b] \in Workers /\ current[b] # w
      BY <1>t, <1>3, <3>1 DEF Alive
    <3> QED BY <1>t, <1>u, <1>1, <3>2, <3>3 DEF Alive
  <2> QED BY <1>u, <2>1 DEF ReadyHasWorker, Alive
<1> QED BY <1>2, <1>8, <1>10, <1>11, <1>12 DEF Hosting

\* The steps of a Turn's service leave contexts and starts with their workers.
LEMMA ServiceHosts ==
  ASSUME TurnsIInv, NEW t \in Turns, ServiceStep(t) PROVE Hosting'
<1> USE DEF TurnsIInv, rows, service, timeouts, registry, worker
<1>0. /\ 0 \notin Workers /\ Hosting /\ ctx \subseteq Turns
      /\ \A u \in Turns : start[u] # "none" \/ u \in ctx => Agent(u) \in Agents
      /\ start \in [Turns -> {"none", "leasing", "spawning", "opening"}]
      /\ at \in [Turns -> Workers \cup {0}]
  BY TurnsAssumption, AgentIsKnown DEF Workers, TypesHold, TypeOK
<1>Send. ASSUME NEW th \in Threads, NEW k \in Kinds, Send(t, th, k) PROVE Hosting'
  <2>1. /\ status[t] = "none" /\ thread' = [thread EXCEPT ![t] = th]
        /\ start' = [start EXCEPT ![t] = "leasing"]
        /\ UNCHANGED <<proc, current, victim, phase, ctx, at, probing, ready>>
    BY <1>Send DEF Send
  <2>2. start[t] = "none" /\ t \notin ctx BY <2>1 DEF Ownership, Owned
  <2>3. \A u \in Turns : u # t => thread'[u] = thread[u] BY <2>1 DEF TypesHold, TypeOK
  <2> QED BY <1>0, <2>1, <2>2, <2>3, HostingFrame
<1>LeasePlugins. CASE LeasePlugins(t)
  <2>1. /\ start[t] = "leasing" /\ start' = [start EXCEPT ![t] = "spawning"]
        /\ UNCHANGED <<victim, phase, thread, ctx, ready, probing>>
    BY <1>LeasePlugins DEF LeasePlugins
  <2>2. PICK w \in Workers : AgentWorker(Agent(t), w) /\ at' = [at EXCEPT ![t] = w]
    BY <1>LeasePlugins DEF LeasePlugins
  <2>3. Agent(t) \in Agents /\ t \notin ctx BY <1>0, <2>1 DEF Ownership, StartsApart
  <2>4. \A u \in Turns : start'[u] = (IF u = t THEN "spawning" ELSE start[u])
                         /\ at'[u] = (IF u = t THEN w ELSE at[u])
    BY <1>0, <2>1, <2>2
  <2> QED BY <1>0, <2>1, <2>2, <2>3, <2>4, AgentWorkerKeeps
<1>SessionOpened. CASE SessionOpened(t)
  <2>1. /\ start[t] = "opening" /\ start' = [start EXCEPT ![t] = "none"] /\ ctx' = ctx \cup {t}
        /\ UNCHANGED <<proc, current, victim, phase, thread, at, probing, ready>>
    BY <1>SessionOpened DEF SessionOpened
  <2>2. Alive(at[t]) /\ HostedBy(at[t], Agent(t)) BY <2>1 DEF Hosting, StartHasWorker
  <2>3. at[t] \in Workers BY <1>0, <2>2 DEF Alive
  <2>4. ContextPlaced' BY <2>1, <2>3 DEF Hosting, ContextPlaced
  <2>5. ContextHasWorker'
    BY <2>1, <2>2 DEF Hosting, ContextHasWorker, HostedBy, Alive, Agent
  <2>6. StartHasWorker' BY <1>0, <2>1 DEF Hosting, StartHasWorker, HostedBy, Alive, Agent
  <2>7. WorkersApart' /\ ProbesLive' /\ ReadyHasWorker'
    BY <2>1 DEF Hosting, WorkersApart, ProbesLive, ReadyHasWorker, Alive
  <2> QED BY <2>4, <2>5, <2>6, <2>7 DEF Hosting
<1>Settles. CASE \/ OpenSession(t) \/ StartFails(t) \/ OpenRefused(t) \/ SendAccepted(t) \/ SendFails(t)
                 \/ \E e \in {"completed", "cancelled", "error"} : EventReceived(t, e)
                 \/ Delivered(t) \/ ReplyIgnored(t) \/ AbortAnswered(t) \/ TurnExpires(t)
  <2>1. /\ UNCHANGED <<proc, current, victim, phase, thread, at, probing, ready>>
        /\ ctx' \subseteq ctx
        /\ \A u \in Turns : start'[u] \in {"spawning", "opening"} => start[u] \in {"spawning", "opening"}
    BY <1>0, <1>Settles DEF OpenSession, StartFails, OpenRefused, SendAccepted, SendFails,
                            EventReceived, Delivered, ReplyIgnored, AbortAnswered, TurnExpires, Settle
  <2> QED BY <1>0, <2>1, HostingFrame
<1>Aborts. CASE AbortTurn(t) \/ AbortResumes(t)
  <2>1. UNCHANGED <<victim, phase, thread, ctx, at, start, ready, probing>>
    BY <1>Aborts DEF AbortTurn, AbortResumes
  <2>2. UNCHANGED <<current, proc>> \/ \E w \in Workers : AgentWorker(Agent(t), w)
    BY <1>Aborts DEF AbortTurn, AbortResumes
  <2>3. CASE UNCHANGED <<current, proc>> BY <1>0, <2>1, <2>3, HostingFrame
  <2>4. ASSUME NEW w \in Workers, AgentWorker(Agent(t), w) PROVE Hosting'
    <3>1. Agent(t) \in Agents
      BY <1>Aborts, TurnsAssumption DEF AbortTurn, AbortResumes, AbortsPlaced, Ownership, UnusedIsBlank,
                                        Agent
    <3> QED BY <2>1, <2>4, <3>1, AgentWorkerKeeps
  <2> QED BY <2>2, <2>3, <2>4
<1> QED
  BY <1>Send, <1>LeasePlugins, <1>SessionOpened, <1>Settles, <1>Aborts DEF ServiceStep

\* The steps for an Agent leave what it hosts with its workers.
LEMMA AgentHosts ==
  ASSUME TurnsIInv, NEW a \in Agents, AgentStep(a) PROVE Hosting'
<1> USE DEF TurnsIInv, rows, service, timeouts, registry, worker
<1>0. /\ 0 \notin Workers /\ Hosting /\ ctx \subseteq Turns
      /\ \A u \in Turns : start[u] # "none" \/ u \in ctx => Agent(u) \in Agents
      /\ current \in [Agents -> Workers \cup {0}] /\ victim \in [Agents -> Workers \cup {0}]
      /\ proc \in [Workers -> {"none", "starting", "up", "stopping", "dead"}]
      /\ phase \in [Agents -> {"idle", "aborting", "confirming", "stopping"}]
      /\ ready \in [Agents -> BOOLEAN] /\ probing \in [Agents -> Workers \cup {0}]
  BY TurnsAssumption, AgentIsKnown DEF Workers, TypesHold, TypeOK
<1>Stops. CASE phase[a] # "stopping" /\ StopAgentWorker(a)
               /\ UNCHANGED <<thread, ctx, at, start, ready, probing>>
  BY <1>Stops, StopAgentWorkerKeeps
<1>TimeoutTurn. CASE TimeoutTurn(a)
  <2>1. phase[a] = "idle" /\ UNCHANGED <<thread, ctx, at, start, ready, probing>>
    BY <1>TimeoutTurn DEF TimeoutTurn
  <2>2. CASE Done(a) /\ UNCHANGED <<victim, current, proc>>
    <3>1. \A b \in Agents : phase'[b] = "stopping" <=> phase[b] = "stopping"
      BY <1>0, <2>1, <2>2 DEF Done
    <3> QED BY <1>0, <2>1, <2>2, <3>1, HostingFrame
  <2>3. ASSUME NEW w \in Workers, AgentWorker(a, w), phase' = [phase EXCEPT ![a] = "aborting"],
               UNCHANGED victim
        PROVE  Hosting'
    <3>1. \A b \in Agents : phase'[b] = "stopping" <=> phase[b] = "stopping"
      BY <1>0, <2>1, <2>3
    <3> QED BY <2>1, <2>3, <3>1, AgentWorkerKeeps
  <2>4. CASE StopAgentWorker(a) BY <1>Stops, <2>1, <2>4
  <2> QED BY <1>TimeoutTurn, <2>2, <2>3, <2>4 DEF TimeoutTurn
<1>QuarantineWorker. CASE QuarantineWorker(a)
  BY <1>QuarantineWorker, <1>Stops DEF QuarantineWorker
<1>Idles. CASE TimeoutAborted(a) \/ TimeoutConfirmed(a) \/ ProbeFails(a) \/ RestartTimesOut(a)
  <2>1. /\ UNCHANGED <<proc, current, victim, thread, at>>
        /\ ctx' \subseteq ctx /\ \A u \in Turns : start'[u] = start[u]
    BY <1>0, <1>Idles DEF TimeoutAborted, TimeoutConfirmed, ProbeFails, RestartTimesOut, Settle
  <2>2. \A b \in Agents : phase'[b] = "stopping" <=> phase[b] = "stopping"
    BY <1>0, <1>Idles DEF TimeoutAborted, TimeoutConfirmed, ProbeFails, RestartTimesOut, Done
  <2>3. \A b \in Agents : (probing'[b] # 0 => probing'[b] = probing[b]) /\ (ready'[b] => ready[b])
    BY <1>0, <1>Idles DEF TimeoutAborted, TimeoutConfirmed, ProbeFails, RestartTimesOut, MarkOffline
  <2> QED BY <1>0, <2>1, <2>2, <2>3, HostingFrame
<1>WorkerStopped. CASE WorkerStopped(a)
  <2>1. /\ phase[a] = "stopping" /\ ~Alive(victim[a])
        /\ victim' = [victim EXCEPT ![a] = 0] /\ phase' = [phase EXCEPT ![a] = "idle"]
        /\ ready' = [ready EXCEPT ![a] = FALSE] /\ probing' = [probing EXCEPT ![a] = 0]
        /\ ctx' = ctx \ TurnsOf(a) /\ \A u \in Turns : start'[u] = start[u]
        /\ UNCHANGED <<proc, current, thread, at>>
    BY <1>0, <1>WorkerStopped DEF WorkerStopped, Done, MarkOffline, Settle
  <2>2. victim' = [victim EXCEPT ![a] = 0] /\ \A b \in Agents : b # a => phase'[b] = phase[b] /\ victim'[b] = victim[b]
    BY <1>0, <2>1
  <2>3. WorkersApart' BY <1>0, <2>1, <2>2 DEF Hosting, WorkersApart
  <2>4. \A u \in ctx' : Agent(u) # a /\ u \in ctx /\ Agent(u) \in Agents
    BY <1>0, <2>1 DEF TurnsOf, Used, Ownership, Owned
  <2>5. ContextPlaced' BY <2>1, <2>4 DEF Hosting, ContextPlaced
  <2>6. ContextHasWorker'
    BY <2>1, <2>2, <2>4 DEF Hosting, ContextHasWorker, Alive, Agent
  <2>7. ASSUME NEW u \in Turns, start[u] \in {"spawning", "opening"}
        PROVE  /\ Alive(at[u])
               /\ at[u] = IF proc[at[u]] \in {"starting", "up"} THEN current[Agent(u)] ELSE victim'[Agent(u)]
    <3>1. Alive(at[u]) /\ HostedBy(at[u], Agent(u)) /\ Agent(u) \in Agents
      BY <1>0, <2>7 DEF Hosting, StartHasWorker
    <3> QED BY <2>1, <2>2, <3>1 DEF HostedBy
  <2>8. StartHasWorker' BY <2>1, <2>7 DEF StartHasWorker, HostedBy, Alive, Agent
  <2>9. ProbesLive' BY <1>0, <2>1 DEF Hosting, ProbesLive, Alive
  <2>10. ReadyHasWorker' BY <1>0, <2>1 DEF Hosting, ReadyHasWorker, Alive
  <2> QED BY <2>3, <2>5, <2>6, <2>8, <2>9, <2>10 DEF Hosting
<1>WorkerCrash. CASE WorkerCrash(a)
  <2>1. /\ current[a] \in Workers /\ WorkerExit(current[a], TurnsOf(a)) /\ Alive(current[a])
        /\ TurnsOf(a) \in SUBSET Turns
        /\ UNCHANGED <<thread, at, current, victim, phase>>
    BY <1>0, <1>WorkerCrash DEF WorkerCrash, TurnsOf, Used, Alive
  <2>2. ready' = [ready EXCEPT ![a] = FALSE] /\ probing' = [probing EXCEPT ![a] = 0]
    BY <1>WorkerCrash DEF WorkerCrash, MarkOffline
  <2>3. \A b \in Agents : b # a /\ probing[b] # 0 => probing[b] # current[a]
    BY <1>0, <2>1 DEF Hosting, WorkersApart, ProbesLive
  <2>4. \A b \in Agents : (probing'[b] # 0 => probing'[b] = probing[b] /\ probing[b] # current[a])
                          /\ (ready'[b] => ready[b] /\ b # a)
    BY <1>0, <2>2, <2>3
  <2> QED BY <2>1, <2>4, WorkerExitHosts
<1>WorkerKilled. CASE WorkerKilled(a)
  <2>0. PICK done \in SUBSET Turns : WorkerExit(victim[a], done)
    BY <1>WorkerKilled DEF WorkerKilled, TurnsOf, Used
  <2>1. /\ victim[a] \in Workers /\ Alive(victim[a])
        /\ UNCHANGED <<thread, at, current, victim, phase>>
    BY <1>0, <1>WorkerKilled DEF WorkerKilled, Alive
  <2>2. victim[a] # current[a] BY <1>0, <2>1 DEF Hosting, WorkersApart
  <2>3. \A b \in Agents : b # a /\ probing[b] # 0 => probing[b] # victim[a]
    BY <1>0, <2>1 DEF Hosting, WorkersApart, ProbesLive
  <2>4. \A b \in Agents : probing'[b] # 0 => probing'[b] = probing[b] /\ probing[b] # victim[a]
    BY <1>0, <1>WorkerKilled, <2>3 DEF WorkerKilled
  <2>5. \A b \in Agents : ready'[b] => ready[b]
    BY <1>0, <1>WorkerKilled DEF WorkerKilled
  <2> QED BY <2>0, <2>1, <2>2, <2>4, <2>5, WorkerExitHosts
<1>Obtains. CASE RestartWorker(a) \/ Recheck(a)
  <2>1. UNCHANGED <<victim, phase, thread, ctx, at, start, ready>>
    BY <1>Obtains DEF RestartWorker, Recheck
  <2>2. PICK w \in Workers : AgentWorker(a, w)
                             /\ (probing' = probing \/ probing' = [probing EXCEPT ![a] = w])
    BY <1>Obtains DEF RestartWorker, Recheck
  <2>3. \A b \in Agents : probing'[b] = probing[b] \/ (b = a /\ probing'[b] = w)
    BY <1>0, <2>2
  <2> QED BY <2>1, <2>2, <2>3, AgentWorkerKeeps
<1>ProbePasses. CASE ProbePasses(a)
  <2>1. /\ probing[a] # 0 /\ proc[probing[a]] \in {"up", "stopping"}
        /\ ready' = [ready EXCEPT ![a] = TRUE] /\ probing' = [probing EXCEPT ![a] = 0]
        /\ UNCHANGED <<proc, current, victim, phase, thread, at, ctx, start>>
    BY <1>ProbePasses DEF ProbePasses
  <2>2. Alive(current[a]) \/ phase[a] = "stopping"
    BY <1>0, <2>1 DEF Hosting, ProbesLive, WorkersApart, Alive
  <2>3. ReadyHasWorker' BY <1>0, <2>1, <2>2 DEF Hosting, ReadyHasWorker, Alive
  <2>4. ProbesLive' BY <1>0, <2>1 DEF Hosting, ProbesLive, Alive
  <2>5. WorkersApart' /\ ContextPlaced' BY <2>1 DEF Hosting, WorkersApart, ContextPlaced
  <2>6. ContextHasWorker' BY <2>1 DEF Hosting, ContextHasWorker, Alive, Agent
  <2>7. StartHasWorker' BY <2>1 DEF Hosting, StartHasWorker, HostedBy, Alive, Agent
  <2> QED BY <2>3, <2>4, <2>5, <2>6, <2>7 DEF Hosting
<1> QED
  BY <1>TimeoutTurn, <1>QuarantineWorker, <1>Idles, <1>WorkerStopped, <1>WorkerCrash, <1>WorkerKilled,
     <1>Obtains, <1>ProbePasses DEF AgentStep

\* The worker's own steps, its hello and a daemon restart.
LEMMA OtherHosts ==
  ASSUME TurnsIInv,
         (\E t \in Turns : WorkerStep(t)) \/ (\E w \in Workers : Hello(w)) \/ Restart
  PROVE  Hosting'
<1> USE DEF TurnsIInv, rows, service, timeouts, registry, worker
<1>0. /\ 0 \notin Workers /\ Hosting /\ ctx \subseteq Turns
      /\ \A u \in Turns : start[u] # "none" \/ u \in ctx => Agent(u) \in Agents
      /\ current \in [Agents -> Workers \cup {0}] /\ victim \in [Agents -> Workers \cup {0}]
      /\ proc \in [Workers -> {"none", "starting", "up", "stopping", "dead"}]
  BY TurnsAssumption, AgentIsKnown DEF Workers, TypesHold, TypeOK
<1>1. CASE \E t \in Turns : WorkerStep(t)
  <2>1. UNCHANGED <<proc, current, victim, phase, thread, at, ctx, start, probing, ready>>
    BY <1>1 DEF WorkerStep, WorkerOpens, WorkerReads, WorkerSettles, HiddenSettles, PromptFails,
         WorkerAborts
  <2> QED BY <1>0, <2>1, HostingFrame
<1>2. ASSUME NEW w \in Workers, Hello(w) PROVE Hosting'
  <2>1. /\ proc[w] = "starting" /\ proc' = [proc EXCEPT ![w] = "up"]
        /\ UNCHANGED <<current, victim, phase, thread, at, ctx, start, probing, ready>>
    BY <1>2 DEF Hello
  <2>2. WorkersApart' BY <1>0, <2>1 DEF Hosting, WorkersApart
  <2>3. \A v \in Workers, b \in Agents :
           (HostedBy(v, b) => HostedBy(v, b)') /\ (Alive(v) => Alive(v)')
    BY <1>0, <2>1 DEF HostedBy, Alive
  <2>4. ContextPlaced' /\ ContextHasWorker' /\ StartHasWorker'
    BY <2>1, <2>3, HostingFollows
  <2>5. ProbesLive' BY <1>0, <2>1 DEF Hosting, ProbesLive, Alive
  <2>6. ReadyHasWorker' BY <1>0, <2>1 DEF Hosting, ReadyHasWorker, Alive
  <2> QED BY <2>2, <2>4, <2>5, <2>6 DEF Hosting
<1>3. CASE Restart
  BY <1>3 DEF Restart, Hosting, WorkersApart, ContextPlaced, ContextHasWorker, StartHasWorker,
              ProbesLive,
     ReadyHasWorker
<1> QED BY <1>1, <1>2, <1>3

-----------------------------------------------------------------------------
\* Replies and events are different messages, and replies to different requests too.
LEMMA MessagesDiffer ==
  /\ \A re, ok, e : Reply(re, ok) # Event(e)
  /\ \A re1, re2, ok1, ok2 : Reply(re1, ok1) = Reply(re2, ok2) => re1 = re2 /\ ok1 = ok2
  /\ \A d, e : Event(d) = Event(e) => d = e
<1>1. ASSUME NEW re, NEW ok, NEW e PROVE Reply(re, ok) # Event(e)
  <2>1. "ok" \in DOMAIN Reply(re, ok) /\ "ok" \notin DOMAIN Event(e) BY DEF Reply, Event
  <2> QED BY <2>1
<1>2. ASSUME NEW re1, NEW re2, NEW ok1, NEW ok2, Reply(re1, ok1) = Reply(re2, ok2)
      PROVE  re1 = re2 /\ ok1 = ok2
  BY <1>2 DEF Reply
<1>3. ASSUME NEW d, NEW e, Event(d) = Event(e) PROVE d = e
  BY <1>3 DEF Event
<1> QED BY <1>1, <1>2, <1>3

\* How reading and replying change what a session has written.
Grows(t) == \E re \in {"open", "send"} \cup Aborters, ok \in BOOLEAN : out'[t] = Append(out[t], Reply(re, ok))
Shrinks(t) == out[t] # <<>> /\ out'[t] = Tail(out[t])

\* Messages that are read, dropped or answered leave what is unread in agreement with the verdict.
LEMMA EventsFrame ==
  ASSUME TypeOK, EventsFit, UNCHANGED verdict,
         \A t \in Turns : out'[t] = out[t] \/ out'[t] = <<>> \/ Grows(t) \/ Shrinks(t)
  PROVE  EventsFit'
<1> SUFFICES ASSUME NEW t \in Turns, NEW i \in DOMAIN out'[t], NEW e \in Verdicts, out'[t][i] = Event(e)
             PROVE  verdict[t] # "none" /\ (e # "error" => verdict[t] = e)
  BY DEF EventsFit
<1>0. out[t] \in Seq(Message) BY DEF TypeOK
<1>1. \E j \in DOMAIN out[t] : out[t][j] = Event(e)
  <2>1. CASE out'[t] = out[t] BY <2>1
  <2>2. CASE out'[t] = <<>> BY <2>2
  <2>3. CASE Shrinks(t)
    <3>1. i + 1 \in DOMAIN out[t] /\ out'[t][i] = out[t][i + 1] BY <1>0, <2>3 DEF Shrinks
    <3> QED BY <3>1
  <2>4. CASE Grows(t)
    <3>1. PICK re, ok : out'[t] = Append(out[t], Reply(re, ok)) BY <2>4 DEF Grows
    <3> DEFINE m == Reply(re, ok)
    <3>2. m # Event(e) BY MessagesDiffer
    <3>3. out'[t] = Append(out[t], m) BY <3>1
    <3> HIDE DEF m
    <3>4. i = Len(out[t]) + 1 \/ (i \in DOMAIN out[t] /\ out'[t][i] = out[t][i]) BY <1>0, <3>3
    <3>5. i # Len(out[t]) + 1 BY <1>0, <3>2, <3>3
    <3> QED BY <3>4, <3>5
  <2> QED BY <2>1, <2>2, <2>3, <2>4
<1> QED BY <1>1 DEF EventsFit

\* A reply to message.send that was written stays before the events until it is read.
LEMMA AnsweredStays ==
  ASSUME TypeOK, NEW t \in Turns, Answered(t),
         \/ out'[t] = out[t]
         \/ \E s \in Seq(Message) : out'[t] = out[t] \o s
         \/ Grows(t)
         \/ Shrinks(t) /\ ~IsSendReply(Head(out[t]))
  PROVE  Answered(t)'
<1>0. out[t] \in Seq(Message) BY DEF TypeOK
<1>1. PICK j \in DOMAIN out[t] : IsSendReply(out[t][j]) /\ \A i \in 1..(j-1) : ~IsEvent(out[t][i])
  BY DEF Answered
<1>2. CASE \/ out'[t] = out[t] \/ Grows(t) \/ \E s \in Seq(Message) : out'[t] = out[t] \o s
  <2>1. \A i \in DOMAIN out[t] : i \in DOMAIN out'[t] /\ out'[t][i] = out[t][i]
    <3>1. CASE Grows(t)
      <4>1. PICK m : out'[t] = Append(out[t], m) BY <3>1 DEF Grows
      <4> QED BY <1>0, <4>1
    <3>2. CASE \E s \in Seq(Message) : out'[t] = out[t] \o s BY <1>0, <3>2
    <3> QED BY <1>2, <3>1, <3>2
  <2>2. \A i \in 1..(j-1) : i \in DOMAIN out[t] BY <1>0
  <2> QED BY <1>1, <2>1, <2>2 DEF Answered, IsSendReply, IsEvent
<1>3. CASE Shrinks(t) /\ ~IsSendReply(Head(out[t]))
  <2>1. j # 1 BY <1>0, <1>1, <1>3
  <2>2. \A i \in 1..(Len(out[t]) - 1) : i \in DOMAIN out'[t] /\ out'[t][i] = out[t][i + 1]
    BY <1>0, <1>3 DEF Shrinks
  <2>3. j - 1 \in 1..(Len(out[t]) - 1) /\ (j - 1) + 1 = j BY <1>0, <2>1
  <2>4. \A i \in 1..((j - 1) - 1) : i \in 1..(Len(out[t]) - 1) /\ i + 1 \in 1..(j - 1) BY <1>0, <2>3
  <2>5. IsSendReply(out'[t][j - 1]) /\ j - 1 \in DOMAIN out'[t] BY <1>1, <2>2, <2>3
  <2>6. \A i \in 1..((j - 1) - 1) : ~IsEvent(out'[t][i]) BY <1>1, <2>2, <2>4
  <2> QED BY <2>5, <2>6 DEF Answered, IsSendReply, IsEvent
<1> QED BY <1>2, <1>3

\* What leaves the pending messages and their replies as they are.
LEMMA AnswersFrame ==
  ASSUME TypeOK, AnswerDue, sending' \subseteq sending,
         \A t \in sending' : /\ status'[t] \in {"working", "failed"}
                             /\ session[t] \in {"reading", "stale"} => session'[t] \in {"reading", "stale"}
                             /\ \/ out'[t] = out[t]
                                \/ \E s \in Seq(Message) : out'[t] = out[t] \o s
                                \/ Grows(t)
                                \/ Shrinks(t) /\ ~IsSendReply(Head(out[t]))
  PROVE  AnswerDue'
<1> SUFFICES ASSUME NEW t \in sending'
             PROVE  status'[t] \in {"working", "failed"}
                    /\ (session'[t] \in {"reading", "stale"} \/ Answered(t)')
  BY DEF AnswerDue
<1>1. t \in Turns /\ t \in sending BY DEF TypeOK
<1>2. CASE session[t] \in {"reading", "stale"} BY <1>2
<1>3. CASE Answered(t) BY <1>1, <1>3, AnsweredStays
<1> QED BY <1>1, <1>2, <1>3 DEF AnswerDue

\* What leaves the sessions fit: none changes, and no context or worker goes.
LEMMA SessionsFrame ==
  ASSUME TypeOK, SessionsFit, UNCHANGED <<session, verdict, ctx>>,
         \A v \in Workers : Alive(v) => Alive(v)',
         \A t \in ctx : at'[t] = at[t]
  PROVE  SessionsFit'
<1>1. ASSUME NEW t \in ctx, Alive(at[t]) PROVE Alive(at[t])'
  <2>1. PICK v \in Workers : v = at[t] BY <1>1 DEF Alive, TypeOK
  <2>2. Alive(v)' /\ at'[t] = v BY <1>1, <2>1
  <2> QED BY <2>2 DEF Alive
<1> QED BY <1>1 DEF SessionsFit

\* What finishing Turns does to their sessions (#finishTurn and closeSession).
LEMMA CloseFits ==
  ASSUME TypeOK, SessionsFit, NEW done \in SUBSET Turns, NEW outcome \in Terminal, NEW rejected \in SUBSET Turns,
         Settle(done, outcome, rejected), CloseSessions(done), UNCHANGED <<verdict, proc, at>>
  PROVE  /\ SessionsFit'
         /\ \A t \in Turns : session[t] \in {"reading", "stale"} => session'[t] \in {"reading", "stale"}
BY DEF TypeOK, SessionsFit, Settle, CloseSessions, Closed, Alive

\* An event is read when no message of its Turn is pending.
LEMMA EventAfterAnswer ==
  ASSUME TurnsIInv, NEW t \in Turns, NEW e \in Verdicts, Says(t, Event(e))
  PROVE  t \notin sending
<1> SUFFICES ASSUME t \in sending PROVE FALSE OBVIOUS
<1>0. out[t] \in Seq(Message) BY DEF TurnsIInv, TypesHold, TypeOK
<1>1. 1 \in DOMAIN out[t] /\ out[t][1] = Event(e) BY <1>0 DEF Says
<1>2. verdict[t] # "none" BY <1>1 DEF TurnsIInv, Sessions, EventsFit
<1>3. Answered(t) BY <1>2 DEF TurnsIInv, Sessions, AnswerDue, SessionsFit
<1>4. PICK j \in DOMAIN out[t] : IsSendReply(out[t][j]) /\ \A i \in 1..(j-1) : ~IsEvent(out[t][i])
  BY <1>3 DEF Answered
<1>5. j # 1 BY <1>1, <1>4, MessagesDiffer DEF IsSendReply
<1>6. 1 \in 1..(j-1) BY <1>0, <1>5
<1> QED BY <1>1, <1>4, <1>6 DEF IsEvent

\* Reading one message.
LEMMA ReadShrinks ==
  ASSUME TypeOK, NEW t \in Turns, NEW m, Says(t, m), Read(t)
  PROVE  Shrinks(t) /\ Head(out[t]) = m /\ \A u \in Turns : u # t => out'[u] = out[u]
BY DEF TypeOK, Says, Read, Shrinks

\* Sending turn.abort.
LEMMA AbortGrows ==
  ASSUME TypeOK, NEW t \in Turns, NEW by \in Aborters, NEW w, SendAbort(t, by, w)
  PROVE  \A u \in Turns : out'[u] = out[u] \/ Grows(u)
<1> DEFINE ok == w = at[t] /\ session[t] \notin Forgotten
<1>1. ok \in BOOLEAN OBVIOUS
<1>2. out' = out \/ out' = [out EXCEPT ![t] = Append(@, Reply(by, ok))] BY DEF SendAbort
<1> HIDE DEF ok
<1>3. \A u \in Turns : out'[u] = out[u] \/ (u = t /\ out'[u] = Append(out[u], Reply(by, ok)))
  BY <1>2 DEF TypeOK
<1> QED BY <1>1, <1>3 DEF Grows

\* Obtaining a worker, quarantining one and its hello end no process.
LEMMA NoneEnds ==
  ASSUME TypeOK, NEW a,
         \/ \E w \in Workers : AgentWorker(a, w)
         \/ StopAgentWorker(a)
         \/ \E w \in Workers : Hello(w)
         \/ UNCHANGED proc
  PROVE  \A v \in Workers : Alive(v) => Alive(v)'
BY DEF TypeOK, AgentWorker, StopAgentWorker, Hello, Alive

\* The steps of a Turn's service keep sessions, events and replies in order.
LEMMA ServiceSessions ==
  ASSUME TurnsIInv, NEW t \in Turns, ServiceStep(t) PROVE Sessions'
<1> USE DEF rows, service, timeouts, registry, worker
<1>0. /\ TypeOK /\ SessionsFit /\ EventsFit /\ AnswerDue
      /\ \A u \in Turns : start[u] # "none" => u \notin ctx /\ u \notin sending /\ verdict[u] = "none"
      /\ \A u \in ctx : status[u] = "working"
      /\ sending \subseteq Turns /\ ctx \subseteq Turns
      /\ \A u \in sending : status[u] \in {"working", "failed"}
      /\ "failed" \in Terminal
  BY DEF TurnsIInv, TypesHold, TypeOK, Sessions, AnswerDue, Ownership, StartsApart, Owned, Terminal
<1>1. ASSUME UNCHANGED <<verdict, out, sending>>, \A u \in sending : status'[u] = status[u],
             \A u \in Turns : session[u] \in {"reading", "stale"} /\ u \in sending => session'[u] = session[u]
      PROVE  EventsFit' /\ AnswerDue'
  <2>1. \A u \in Turns : out'[u] = out[u] BY <1>1
  <2> QED BY <1>0, <1>1, <2>1, EventsFrame, AnswersFrame
<1>Send. ASSUME NEW th \in Threads, NEW k \in Kinds, Send(t, th, k) PROVE Sessions'
  <2>1. /\ UNCHANGED <<session, verdict, ctx, at, proc, out, sending>>
        /\ \A u \in Turns : u # t => status'[u] = status[u]
        /\ t \notin sending
    BY <1>0, <1>Send DEF Send, TypeOK, TurnsIInv, Ownership, UnusedIsBlank
  <2>2. SessionsFit' BY <1>0, <2>1, SessionsFrame, NoneEnds
  <2> QED BY <1>0, <1>1, <2>1, <2>2 DEF Sessions
<1>LeasePlugins. CASE LeasePlugins(t)
  <2>1. /\ UNCHANGED <<session, verdict, ctx, out, sending, status>>
        /\ start[t] = "leasing" /\ \E w \in Workers : at' = [at EXCEPT ![t] = w]
        /\ \E w \in Workers : AgentWorker(Agent(t), w)
    BY <1>LeasePlugins DEF LeasePlugins
  <2>2. \A u \in ctx : at'[u] = at[u] BY <1>0, <2>1 DEF TypeOK
  <2>3. SessionsFit' BY <1>0, <2>1, <2>2, SessionsFrame, NoneEnds
  <2> QED BY <1>1, <2>1, <2>3 DEF Sessions
<1>OpenSession. CASE OpenSession(t)
  <2>1. /\ UNCHANGED <<verdict, ctx, out, sending, status, at, proc>>
        /\ start[t] = "spawning" /\ session' = [session EXCEPT ![t] = "opening"]
    BY <1>OpenSession DEF OpenSession
  <2>2. SessionsFit' BY <1>0, <2>1 DEF SessionsFit, TypeOK, Alive
  <2>3. \A u \in Turns : u # t => session'[u] = session[u] BY <1>0, <2>1 DEF TypeOK
  <2> QED BY <1>0, <1>1, <2>1, <2>2, <2>3 DEF Sessions
<1>StartFails. CASE StartFails(t)
  <2>1. /\ UNCHANGED <<session, verdict, out, sending, at, proc>> /\ ctx' = ctx
        /\ start[t] # "none" /\ \A u \in Turns : u # t => status'[u] = status[u]
    BY <1>0, <1>StartFails DEF StartFails, Settle, SettledStatus
  <2>2. SessionsFit' BY <1>0, <2>1, SessionsFrame, NoneEnds
  <2> QED BY <1>0, <1>1, <2>1, <2>2 DEF Sessions
<1>OpenRefused. CASE OpenRefused(t)
  <2>1. /\ UNCHANGED <<session, verdict, sending, at, proc>> /\ ctx' = ctx
        /\ start[t] # "none" /\ \A u \in Turns : u # t => status'[u] = status[u]
    BY <1>0, <1>OpenRefused DEF OpenRefused, Settle, SettledStatus
  <2>2. Shrinks(t) /\ \A u \in Turns : u # t => out'[u] = out[u]
    BY <1>0, <1>OpenRefused, ReadShrinks DEF OpenRefused
  <2>3. SessionsFit' BY <1>0, <2>1, SessionsFrame, NoneEnds
  <2>4. EventsFit' BY <1>0, <2>1, <2>2, EventsFrame
  <2>5. AnswerDue' BY <1>0, <2>1, <2>2, AnswersFrame
  <2> QED BY <2>3, <2>4, <2>5 DEF Sessions
<1>SessionOpened. CASE SessionOpened(t)
  <2>1. /\ UNCHANGED <<verdict, status, at, proc>> /\ ctx' = ctx \cup {t} /\ sending' = sending \cup {t}
        /\ start[t] = "opening" /\ session' = [session EXCEPT ![t] = "reading"]
    BY <1>SessionOpened DEF SessionOpened
  <2>2. Shrinks(t) /\ \A u \in Turns : u # t => out'[u] = out[u]
    BY <1>0, <1>SessionOpened, ReadShrinks DEF SessionOpened
  <2>3. Alive(at[t]) /\ status[t] = "working"
    BY <2>1 DEF TurnsIInv, Hosting, StartHasWorker, Ownership, Owned
  <2>4. SessionsFit' BY <1>0, <2>1, <2>3 DEF SessionsFit, TypeOK, Alive
  <2>5. EventsFit' BY <1>0, <2>1, <2>2, EventsFrame
  <2>6. AnswerDue'
    <3>1. ASSUME NEW u \in sending', u # t
          PROVE  status'[u] \in {"working", "failed"} /\ (session'[u] \in {"reading", "stale"} \/ Answered(u)')
      <4>1. u \in sending /\ session'[u] = session[u] /\ out'[u] = out[u]
        BY <1>0, <2>1, <2>2, <3>1 DEF TypeOK
      <4>2. Answered(u) => Answered(u)' BY <1>0, <4>1, AnsweredStays
      <4> QED BY <1>0, <2>1, <4>1, <4>2 DEF AnswerDue
    <3>2. status'[t] \in {"working", "failed"} /\ session'[t] \in {"reading", "stale"}
      BY <1>0, <2>1, <2>3 DEF TypeOK
    <3> QED BY <3>1, <3>2 DEF AnswerDue
  <2> QED BY <2>4, <2>5, <2>6 DEF Sessions
<1>SendAccepted. CASE SendAccepted(t)
  <2>1. UNCHANGED <<session, verdict, status, ctx, at, proc>> /\ sending' = sending \ {t}
    BY <1>SendAccepted DEF SendAccepted
  <2>2. Shrinks(t) /\ \A u \in Turns : u # t => out'[u] = out[u]
    BY <1>0, <1>SendAccepted, ReadShrinks DEF SendAccepted
  <2>3. SessionsFit' BY <1>0, <2>1, SessionsFrame, NoneEnds
  <2>4. EventsFit' BY <1>0, <2>1, <2>2, EventsFrame
  <2>5. AnswerDue' BY <1>0, <2>1, <2>2, AnswersFrame
  <2> QED BY <2>3, <2>4, <2>5 DEF Sessions
<1>SendFails. CASE SendFails(t)
  <2>1. /\ UNCHANGED <<verdict, at, proc>> /\ sending' = sending \ {t} /\ t \in sending
        /\ Settle({t}, "failed", {t} \cap peer) /\ CloseSessions({t})
    BY <1>SendFails DEF SendFails
  <2>2. \A u \in Turns : u # t => status'[u] = status[u] BY <2>1 DEF Settle, SettledStatus
  <2>3. /\ out'[t] = out[t] \/ Shrinks(t)
        /\ \A u \in Turns : u # t => out'[u] = out[u]
    <3>1. CASE UNCHANGED out BY <3>1
    <3>2. CASE Says(t, Reply("send", FALSE)) /\ Read(t) BY <1>0, <3>2, ReadShrinks
    <3> QED BY <1>SendFails, <3>1, <3>2 DEF SendFails
  <2>4. SessionsFit' /\ \A u \in Turns : session[u] \in {"reading", "stale"} => session'[u] \in {"reading", "stale"}
    BY <1>0, <2>1, CloseFits
  <2>5. EventsFit' BY <1>0, <2>1, <2>3, EventsFrame
  <2>6. AnswerDue' BY <1>0, <2>1, <2>2, <2>3, <2>4, AnswersFrame
  <2> QED BY <2>4, <2>5, <2>6 DEF Sessions
<1>EventReceived. ASSUME NEW e \in {"completed", "cancelled", "error"}, EventReceived(t, e)
                  PROVE  Sessions'
  <2> DEFINE done == IF ready[Agent(t)] THEN {t} ELSE {}
  <2>1. /\ UNCHANGED <<verdict, at, proc, sending>>
        /\ Settle(done, Outcome(t, e), {}) /\ CloseSessions(done) /\ Says(t, Event(e)) /\ Read(t)
    BY <1>EventReceived DEF EventReceived
  <2>2. Outcome(t, e) \in Terminal /\ done \subseteq {t} BY DEF Outcome, Terminal
  <2> HIDE DEF done
  <2>3. t \notin sending BY <2>1, EventAfterAnswer DEF Verdicts
  <2>4. Shrinks(t) /\ \A u \in Turns : u # t => out'[u] = out[u]
    BY <1>0, <2>1, ReadShrinks
  <2>5. \A u \in Turns : u # t => status'[u] = status[u] BY <2>1, <2>2 DEF Settle, SettledStatus
  <2>6. SessionsFit' /\ \A u \in Turns : session[u] \in {"reading", "stale"} => session'[u] \in {"reading", "stale"}
    BY <1>0, <2>1, <2>2, CloseFits
  <2>7. EventsFit' BY <1>0, <2>1, <2>4, EventsFrame
  <2>8. AnswerDue' BY <1>0, <2>1, <2>3, <2>4, <2>5, <2>6, AnswersFrame
  <2> QED BY <2>6, <2>7, <2>8 DEF Sessions
<1>ReplyIgnored. CASE ReplyIgnored(t)
  <2>1. UNCHANGED <<session, verdict, status, ctx, at, proc, sending>>
    BY <1>ReplyIgnored DEF ReplyIgnored
  <2>2. PICK m \in [re : {"open", "send"} \cup Aborters, ok : BOOLEAN] : Says(t, m) /\ ~Expected(t, m)
    BY <1>ReplyIgnored DEF ReplyIgnored
  <2>3. Shrinks(t) /\ Head(out[t]) = m /\ \A u \in Turns : u # t => out'[u] = out[u]
    BY <1>0, <1>ReplyIgnored, <2>2, ReadShrinks DEF ReplyIgnored
  <2>4. t \in sending => ~IsSendReply(Head(out[t]))
    <3>1. IsSendReply(m) => m.re = "send" BY DEF IsSendReply, Reply
    <3>2. t \in sending => m.re # "send" BY <2>2 DEF Expected
    <3> QED BY <2>3, <3>1, <3>2
  <2>5. SessionsFit' BY <1>0, <2>1, SessionsFrame, NoneEnds
  <2>6. EventsFit' BY <1>0, <2>1, <2>3, EventsFrame
  <2>7. AnswerDue' BY <1>0, <2>1, <2>3, <2>4, AnswersFrame
  <2> QED BY <2>5, <2>6, <2>7 DEF Sessions
<1>Aborts. CASE AbortTurn(t) \/ AbortResumes(t)
  <2>1. UNCHANGED <<session, verdict, status, ctx, at, sending>>
    BY <1>Aborts DEF AbortTurn, AbortResumes
  <2>2. \/ UNCHANGED <<proc, out>>
        \/ \E w \in Workers : AgentWorker(Agent(t), w) /\ SendAbort(t, "delete", w)
    BY <1>Aborts DEF AbortTurn, AbortResumes
  <2>3. \A u \in Turns : out'[u] = out[u] \/ Grows(u)
    BY <1>0, <2>2, AbortGrows DEF Aborters
  <2>4. SessionsFit' BY <1>0, <2>1, <2>2, SessionsFrame, NoneEnds
  <2>5. EventsFit' BY <1>0, <2>1, <2>3, EventsFrame
  <2>6. AnswerDue' BY <1>0, <2>1, <2>3, AnswersFrame
  <2> QED BY <2>4, <2>5, <2>6 DEF Sessions
<1>AbortAnswered. CASE AbortAnswered(t)
  <2>1. UNCHANGED <<session, verdict, status, ctx, at, proc, sending>>
    BY <1>AbortAnswered DEF AbortAnswered
  <2>2. /\ out'[t] = out[t] \/ (Shrinks(t) /\ ~IsSendReply(Head(out[t])))
        /\ \A u \in Turns : u # t => out'[u] = out[u]
    <3>1. CASE UNCHANGED out BY <3>1
    <3>2. ASSUME NEW ok \in BOOLEAN, Says(t, Reply("delete", ok)), Read(t)
          PROVE  Shrinks(t) /\ ~IsSendReply(Head(out[t])) /\ \A u \in Turns : u # t => out'[u] = out[u]
      BY <1>0, <3>2, ReadShrinks, MessagesDiffer DEF IsSendReply
    <3> QED BY <1>AbortAnswered, <3>1, <3>2 DEF AbortAnswered
  <2>3. SessionsFit' BY <1>0, <2>1, SessionsFrame, NoneEnds
  <2>4. EventsFit' BY <1>0, <2>1, <2>2, EventsFrame
  <2>5. AnswerDue' BY <1>0, <2>1, <2>2, AnswersFrame
  <2> QED BY <2>3, <2>4, <2>5 DEF Sessions
<1>TurnExpires. CASE TurnExpires(t)
  <2>1. UNCHANGED <<session, verdict, status, ctx, at, proc, sending, out>>
    BY <1>TurnExpires DEF TurnExpires
  <2>2. SessionsFit' BY <1>0, <2>1, SessionsFrame, NoneEnds
  <2> QED BY <1>1, <2>1, <2>2 DEF Sessions
<1>Delivered. CASE Delivered(t)
  <2>1. UNCHANGED <<session, verdict, status, ctx, at, proc, sending, out>>
    BY <1>Delivered DEF Delivered
  <2>2. SessionsFit' BY <1>0, <2>1, SessionsFrame, NoneEnds
  <2> QED BY <1>1, <2>1, <2>2 DEF Sessions
<1> QED
  BY <1>Send, <1>LeasePlugins, <1>OpenSession, <1>StartFails, <1>OpenRefused, <1>SessionOpened,
     <1>SendAccepted,
     <1>SendFails, <1>EventReceived, <1>ReplyIgnored, <1>Aborts, <1>AbortAnswered, <1>TurnExpires,
     <1>Delivered DEF ServiceStep

\* The exit of a worker closes its sessions and drops what they wrote.
LEMMA WorkerExitSessions ==
  ASSUME TurnsIInv, NEW w \in Workers, NEW done \in SUBSET Turns, WorkerExit(w, done),
         UNCHANGED <<verdict, at>>
  PROVE  Sessions'
<1> USE DEF TurnsIInv, TypesHold, Sessions
<1> DEFINE unsent == On(w) \cap sending
           rejected == {t \in On(w) : start[t] \in {"spawning", "opening"}} \cup (unsent \cap peer)
<1>0. /\ session \in [Turns -> {"none", "opening", "idle", "reading", "running", "settled",
                                "ended", "stale", "hidden", "closed"}]
      /\ proc \in [Workers -> {"none", "starting", "up", "stopping", "dead"}]
      /\ at \in [Turns -> Workers \cup {0}] /\ sending \subseteq Turns /\ ctx \subseteq Turns
      /\ status \in [Turns -> {"none", "working"} \cup Terminal]
  BY DEF TypeOK
<1>1. /\ Settle(done \cup unsent, "failed", rejected)
      /\ proc' = [proc EXCEPT ![w] = "dead"] /\ sending' = sending \ unsent
      /\ session' = [t \in Turns |-> IF t \in On(w) THEN "closed"
                                     ELSE IF t \in done \cap ctx /\ Alive(at[t]) THEN Closed(session[t])
                                     ELSE session[t]]
      /\ out' = [t \in Turns |-> IF t \in On(w) THEN <<>> ELSE out[t]]
  BY DEF WorkerExit
<1>2. ctx' = ctx \ (done \cup unsent) BY <1>1 DEF Settle
<1>3. SessionsFit'
  <2> SUFFICES ASSUME NEW t \in Turns
               PROVE  /\ session'[t] \in {"opening", "idle", "reading", "running", "stale"} => verdict[t] = "none"
                      /\ session'[t] = "settled" => verdict[t] # "none"
                      /\ session'[t] \in {"reading", "running"} => t \in ctx' /\ Alive(at[t])'
                      /\ session'[t] \in {"stale", "hidden"} => t \notin ctx'
    BY DEF SessionsFit
  <2>1. CASE t \in On(w) BY <1>1, <2>1
  <2>2. CASE t \notin On(w) /\ t \in done \cap ctx /\ Alive(at[t])
    BY <1>1, <1>2, <2>2 DEF Closed, SessionsFit
  <2>3. CASE t \notin On(w) /\ ~(t \in done \cap ctx /\ Alive(at[t]))
    <3>1. session'[t] = session[t] /\ at[t] # w BY <1>1, <2>3 DEF On
    <3>2. session[t] \in {"reading", "running"} => t \in ctx /\ Alive(at[t]) /\ t \notin done \cup unsent
      BY <2>3 DEF SessionsFit
    <3>3. Alive(at[t]) => Alive(at[t])' BY <1>0, <1>1, <3>1 DEF Alive
    <3> QED BY <1>2, <3>1, <3>2, <3>3 DEF SessionsFit
  <2> QED BY <2>1, <2>2, <2>3
<1>4. EventsFit' BY <1>1, EventsFrame
<1>5. AnswerDue'
  <2> SUFFICES ASSUME NEW t \in sending'
               PROVE  /\ status'[t] \in {"working", "failed"} /\ t \in sending
                      /\ session[t] \in {"reading", "stale"} => session'[t] \in {"reading", "stale"}
                      /\ out'[t] = out[t]
    BY <1>1, AnswersFrame
  <2>1. t \in Turns /\ t \in sending /\ t \notin On(w) BY <1>0, <1>1
  <2>2. status[t] \in {"working", "failed"} BY <2>1 DEF AnswerDue
  <2>3. status'[t] \in {"working", "failed"}
    BY <1>0, <1>1, <2>1, <2>2 DEF Settle, SettledStatus, SetTurnStatus, On
  <2>4. out'[t] = out[t] /\ session'[t] \in {session[t], Closed(session[t])} BY <1>1, <2>1
  <2>5. session[t] = "reading" => t \in ctx /\ Alive(at[t]) BY <2>1 DEF SessionsFit
  <2>6. session[t] = "stale" => session'[t] = "stale" BY <1>1, <2>1 DEF SessionsFit
  <2> QED BY <2>1, <2>3, <2>4, <2>5, <2>6 DEF Closed
<1> QED BY <1>3, <1>4, <1>5

\* The steps for an Agent keep sessions, events and replies in order.
LEMMA AgentSessions ==
  ASSUME TurnsIInv, NEW a \in Agents, AgentStep(a) PROVE Sessions'
<1> USE DEF rows, service, timeouts, registry, worker
<1>0. /\ TypeOK /\ SessionsFit /\ EventsFit /\ AnswerDue
      /\ phase[a] # "idle" => Head(queue[a]) \in Turns
      /\ \A u \in sending : status[u] \in {"working", "failed"}
      /\ sending \subseteq Turns /\ "failed" \in Terminal
      /\ TurnsOf(a) \in SUBSET Turns
  <2>1. TypeOK /\ SessionsFit /\ EventsFit /\ AnswerDue BY DEF TurnsIInv, TypesHold, Sessions
  <2>2. \A u \in sending : status[u] \in {"working", "failed"} BY <2>1 DEF AnswerDue
  <2>3. phase[a] # "idle" => queue[a] # <<>> BY DEF TurnsIInv, TypesHold, QueuesHold
  <2>5. queue[a] \in Seq(Turns) BY <2>1 DEF TypeOK
  <2>4. sending \subseteq Turns BY <2>1 DEF TypeOK
  <2> QED BY <2>1, <2>2, <2>3, <2>4, <2>5 DEF TurnsOf, Used, Terminal
<1>1. ASSUME UNCHANGED <<session, verdict, ctx, at, sending, status>>,
             \/ UNCHANGED proc \/ StopAgentWorker(a) \/ \E w \in Workers : AgentWorker(a, w),
             \A u \in Turns : out'[u] = out[u] \/ Grows(u) \/ (Shrinks(u) /\ ~IsSendReply(Head(out[u])))
      PROVE  Sessions'
  <2>1. SessionsFit' BY <1>0, <1>1, SessionsFrame, NoneEnds
  <2>2. EventsFit' BY <1>0, <1>1, EventsFrame
  <2>3. AnswerDue' BY <1>0, <1>1, AnswersFrame
  <2> QED BY <2>1, <2>2, <2>3 DEF Sessions
<1>2. ASSUME phase[a] # "idle", NEW ok, Says(Head(queue[a]), Reply("timeout", ok)), Read(Head(queue[a]))
      PROVE  \A u \in Turns : out'[u] = out[u] \/ (Shrinks(u) /\ ~IsSendReply(Head(out[u])))
  BY <1>0, <1>2, ReadShrinks, MessagesDiffer DEF IsSendReply
<1>TimeoutTurn. CASE TimeoutTurn(a)
  <2>1. UNCHANGED <<session, verdict, ctx, at, sending, status>> /\ queue[a] # <<>>
    BY <1>TimeoutTurn DEF TimeoutTurn
  <2>2. Head(queue[a]) \in Turns BY <1>0, <2>1 DEF TypeOK
  <2>3. \/ UNCHANGED <<proc, out>>
        \/ StopAgentWorker(a) /\ UNCHANGED out
        \/ \E w \in Workers : AgentWorker(a, w) /\ SendAbort(Head(queue[a]), "timeout", w)
    BY <1>TimeoutTurn DEF TimeoutTurn
  <2>4. \A u \in Turns : out'[u] = out[u] \/ Grows(u)
    BY <1>0, <2>2, <2>3, AbortGrows DEF Aborters
  <2> QED BY <1>1, <2>1, <2>3, <2>4
<1>TimeoutAborted. CASE TimeoutAborted(a)
  BY <1>1, <1>2, <1>TimeoutAborted DEF TimeoutAborted
<1>QuarantineWorker. CASE QuarantineWorker(a)
  <2>1. /\ phase[a] # "idle" /\ StopAgentWorker(a)
        /\ UNCHANGED <<session, verdict, ctx, at, sending, status>>
        /\ \/ Says(Head(queue[a]), Reply("timeout", FALSE)) /\ Read(Head(queue[a]))
           \/ UNCHANGED out
    BY <1>QuarantineWorker DEF QuarantineWorker
  <2> QED BY <1>1, <1>2, <2>1
<1>Unseen. CASE TimeoutConfirmed(a) \/ RestartWorker(a) \/ Recheck(a) \/ ProbePasses(a) \/ ProbeFails(a)
  <2>1. /\ UNCHANGED <<session, verdict, ctx, at, sending, status, out>>
        /\ UNCHANGED proc \/ \E w \in Workers : AgentWorker(a, w)
    BY <1>Unseen DEF TimeoutConfirmed, RestartWorker, Recheck, ProbePasses, ProbeFails
  <2> QED BY <1>1, <2>1
<1>Offline. CASE WorkerStopped(a) \/ RestartTimesOut(a)
  <2>1. /\ Settle(TurnsOf(a), "failed", {}) /\ CloseSessions(TurnsOf(a))
        /\ UNCHANGED <<verdict, proc, at, sending, out>>
    BY <1>Offline DEF WorkerStopped, RestartTimesOut
  <2>2. SessionsFit' /\ \A u \in Turns : session[u] \in {"reading", "stale"} => session'[u] \in {"reading", "stale"}
    BY <1>0, <2>1, CloseFits
  <2>3. \A u \in sending : status'[u] \in {"working", "failed"}
    BY <1>0, <2>1 DEF Settle, SettledStatus, SetTurnStatus
  <2>4. EventsFit' BY <1>0, <2>1, EventsFrame
  <2>5. AnswerDue' BY <1>0, <2>1, <2>2, <2>3, AnswersFrame
  <2> QED BY <2>2, <2>4, <2>5 DEF Sessions
<1>Exits. CASE WorkerCrash(a) \/ WorkerKilled(a)
  <2>1. /\ \E w \in Workers, done \in SUBSET Turns : WorkerExit(w, done)
        /\ UNCHANGED <<verdict, at>>
    BY <1>0, <1>Exits DEF WorkerCrash, WorkerKilled, TypeOK, Alive
  <2> QED BY <2>1, WorkerExitSessions
<1> QED
  BY <1>TimeoutTurn, <1>TimeoutAborted, <1>QuarantineWorker, <1>Unseen, <1>Offline, <1>Exits
    DEF AgentStep

\* Writing at the end of a session's output.
LEMMA WriteAppends ==
  ASSUME TypeOK, NEW t \in Turns, NEW s \in Seq(Message), Write(t, s)
  PROVE  /\ out'[t] = out[t] \o s
         /\ \A u \in Turns : u # t => out'[u] = out[u]
         /\ \A i \in DOMAIN out'[t] : \/ i \in DOMAIN out[t] /\ out'[t][i] = out[t][i]
                                     \/ \E k \in DOMAIN s : out'[t][i] = s[k]
<1>1. out[t] \in Seq(Message) /\ out'[t] = out[t] \o s /\ \A u \in Turns : u # t => out'[u] = out[u]
  BY DEF TypeOK, Write
<1>2. ASSUME NEW i \in DOMAIN out'[t], i \notin DOMAIN out[t]
      PROVE  \E k \in DOMAIN s : out'[t][i] = s[k]
  <2>1. i - Len(out[t]) \in DOMAIN s /\ out'[t][i] = s[i - Len(out[t])] BY <1>1, <1>2
  <2> QED BY <2>1
<1>3. ASSUME NEW i \in DOMAIN out[t] PROVE out'[t][i] = out[t][i]
  BY <1>1, <1>3
<1> QED BY <1>1, <1>2, <1>3

\* A verdict is given once, with the first event.
LEMMA WriteEvents ==
  ASSUME TypeOK, EventsFit, NEW t \in Turns, NEW s \in Seq(Message), Write(t, s),
         \A u \in Turns : verdict'[u] = verdict[u] \/ verdict[u] = "none",
         \A k \in DOMAIN s : \A e \in Verdicts :
            s[k] = Event(e) => verdict'[t] # "none" /\ (e # "error" => verdict'[t] = e)
  PROVE  EventsFit'
<1> SUFFICES ASSUME NEW u \in Turns, NEW i \in DOMAIN out'[u], NEW e \in Verdicts, out'[u][i] = Event(e)
             PROVE  verdict'[u] # "none" /\ (e # "error" => verdict'[u] = e)
  BY DEF EventsFit
<1>1. CASE i \in DOMAIN out[u] /\ out'[u][i] = out[u][i]
  <2>0. out[u][i] = Event(e) /\ i \in DOMAIN out[u] BY <1>1
  <2>1. verdict[u] # "none" /\ (e # "error" => verdict[u] = e)
    <3> QED BY <2>0 DEF EventsFit
  <2>2. verdict'[u] = verdict[u] BY <2>1
  <2> QED BY <2>1, <2>2
<1>2. CASE u = t /\ \E k \in DOMAIN s : out'[t][i] = s[k]
  BY <1>2
<1> QED BY <1>1, <1>2, WriteAppends

\* A reply is no event.
LEMMA WriteReply ==
  ASSUME TypeOK, EventsFit, NEW t \in Turns, NEW m \in Message, Write(t, <<m>>), UNCHANGED verdict,
         \A e : m # Event(e)
  PROVE  EventsFit'
<1> DEFINE s == <<m>>
<1>1. s \in Seq(Message) /\ Write(t, s) /\ \A k \in DOMAIN s : s[k] = m OBVIOUS
<1> HIDE DEF s
<1>2. \A k \in DOMAIN s : \A e \in Verdicts : s[k] # Event(e) BY <1>1
<1> QED BY <1>1, <1>2, WriteEvents

\* An event is the verdict, or an error that comes after it.
LEMMA WriteEvent ==
  ASSUME TypeOK, EventsFit, NEW t \in Turns, NEW d \in Verdicts, Write(t, <<Event(d)>>),
         \A u \in Turns : verdict'[u] = verdict[u] \/ verdict[u] = "none",
         verdict'[t] # "none", d # "error" => verdict'[t] = d
  PROVE  EventsFit'
<1> DEFINE s == <<Event(d)>>
<1>0. Event(d) \in Message BY DEF Event, Message, Verdicts
<1>1. s \in Seq(Message) /\ Write(t, s) /\ \A k \in DOMAIN s : s[k] = Event(d) BY <1>0
<1> HIDE DEF s
<1>2. \A k \in DOMAIN s : \A e \in Verdicts : s[k] = Event(e) => e = d BY <1>1, MessagesDiffer
<1> QED BY <1>1, <1>2, WriteEvents

\* What was answered stays answered.
LEMMA WriteAnswers ==
  ASSUME TypeOK, AnswerDue, NEW t \in Turns, NEW s \in Seq(Message), Write(t, s),
         UNCHANGED <<sending, status>>, \A u \in Turns : u # t => session'[u] = session[u],
         t \in sending => session'[t] \in {"reading", "stale"} \/ Answered(t) \/ Answered(t)'
  PROVE  AnswerDue'
<1> SUFFICES ASSUME NEW u \in sending
             PROVE  session'[u] \in {"reading", "stale"} \/ Answered(u)'
  BY DEF AnswerDue
<1>1. u \in Turns BY DEF TypeOK
<1>2. \E r \in Seq(Message) : out'[t] = out[t] \o r BY WriteAppends
<1>3. Answered(t) => Answered(t)' BY <1>2, AnsweredStays
<1>4. CASE u = t BY <1>3, <1>4
<1>5. CASE u # t
  <2>1. out'[u] = out[u] /\ session'[u] = session[u] BY <1>1, <1>5, WriteAppends
  <2>2. Answered(u) => Answered(u)' BY <1>1, <2>1, AnsweredStays
  <2> QED BY <2>1, <2>2 DEF AnswerDue
<1> QED BY <1>4, <1>5

\* What the worker writes: the reply to message.send first, one end of the prompt, then perhaps an error.
LEMMA WorkerSessions ==
  ASSUME TurnsIInv, NEW t \in Turns, WorkerStep(t) PROVE Sessions'
<1> USE DEF rows, service, timeouts, registry
<1>0. /\ TypeOK /\ SessionsFit /\ EventsFit /\ AnswerDue /\ sending \subseteq Turns
      /\ session \in [Turns -> {"none", "opening", "idle", "reading", "running", "settled",
                                "ended", "stale", "hidden", "closed"}]
      /\ verdict \in [Turns -> {"none", "completed", "cancelled", "error"}]
      /\ out[t] \in Seq(Message)
  BY DEF TurnsIInv, TypesHold, TypeOK, Sessions
<1>1. UNCHANGED <<status, sending, ctx, at, proc>>
  BY DEF WorkerStep, WorkerOpens, WorkerReads, WorkerSettles, HiddenSettles, PromptFails,
         WorkerAborts
<1>2. /\ \A re \in {"open", "send"} \cup Aborters, ok \in BOOLEAN :
           Reply(re, ok) \in Message /\ <<Reply(re, ok)>> \in Seq(Message)
      /\ \A e \in Verdicts : <<Event(e)>> \in Seq(Message)
      /\ \A by \in Aborters : <<Event("cancelled"), Reply(by, TRUE)>> \in Seq(Message)
  BY DEF Message, Reply, Event, Verdicts
<1>3. \A re, ok, e : Reply(re, ok) # Event(e) BY MessagesDiffer
<1>4. \A u \in sending : session[u] \notin {"reading", "stale"} => Answered(u)
  BY <1>0 DEF AnswerDue
<1>WorkerOpens. CASE WorkerOpens(t)
  <2>1. PICK ok \in BOOLEAN : /\ session' = [session EXCEPT ![t] = IF ok THEN "idle" ELSE "none"]
                              /\ Write(t, <<Reply("open", ok)>>)
    BY <1>WorkerOpens DEF WorkerOpens
  <2>2. session[t] = "opening" /\ UNCHANGED verdict BY <1>WorkerOpens DEF WorkerOpens
  <2>3. SessionsFit' BY <1>0, <1>1, <2>1, <2>2 DEF SessionsFit, Alive
  <2>4. EventsFit' BY <1>0, <1>2, <1>3, <2>1, <2>2, WriteReply
  <2>5. AnswerDue' BY <1>0, <1>1, <1>2, <1>4, <2>1, <2>2, WriteAnswers
  <2> QED BY <2>3, <2>4, <2>5 DEF Sessions
<1>WorkerReads. CASE WorkerReads(t)
  <2>1. PICK ok \in BOOLEAN :
          /\ session' = [session EXCEPT ![t] = IF @ = "stale" THEN IF ok THEN "hidden" ELSE "closed"
                                               ELSE IF ok THEN "running" ELSE "idle"]
          /\ Write(t, <<Reply("send", ok)>>)
    BY <1>WorkerReads DEF WorkerReads
  <2>2. session[t] \in {"reading", "stale"} /\ UNCHANGED verdict BY <1>WorkerReads DEF WorkerReads
  <2>3. verdict[t] = "none" BY <1>0, <2>2 DEF SessionsFit
  <2>4. SessionsFit' BY <1>0, <1>1, <2>1, <2>2 DEF SessionsFit, Alive
  <2>5. EventsFit' BY <1>0, <1>2, <1>3, <2>1, <2>2, WriteReply
  <2>6. Answered(t)'
    <3> DEFINE j == Len(out[t]) + 1
    <3>1. out'[t] = out[t] \o <<Reply("send", ok)>> BY <1>0, <1>2, <2>1, WriteAppends
    <3>2. j \in DOMAIN out'[t] /\ out'[t][j] = Reply("send", ok) BY <1>0, <3>1
    <3>3. \A i \in 1..(j-1) : i \in DOMAIN out[t] /\ out'[t][i] = out[t][i] BY <1>0, <3>1
    <3>4. \A i \in DOMAIN out[t] : ~IsEvent(out[t][i]) BY <1>0, <2>3 DEF EventsFit, IsEvent
    <3> HIDE DEF j
    <3>5. IsSendReply(out'[t][j]) /\ \A i \in 1..(j-1) : ~IsEvent(out'[t][i])
      BY <3>2, <3>3, <3>4 DEF IsSendReply
    <3> QED BY <3>2, <3>5 DEF Answered, IsSendReply, IsEvent
  <2>7. AnswerDue' BY <1>0, <1>1, <1>2, <2>1, <2>6, WriteAnswers
  <2> QED BY <2>4, <2>5, <2>7 DEF Sessions
<1>WorkerSettles. CASE WorkerSettles(t)
  <2> DEFINE e == IF aborting[t] = {} THEN "completed" ELSE "cancelled"
  <2>1. /\ session[t] = "running" /\ session' = [session EXCEPT ![t] = "settled"]
        /\ Write(t, <<Event(e)>>) /\ Witness(t, e)
    BY <1>WorkerSettles DEF WorkerSettles
  <2>2. e \in Verdicts BY DEF Verdicts
  <2> HIDE DEF e
  <2>3. verdict[t] = "none" BY <1>0, <2>1 DEF SessionsFit
  <2>4. verdict' = [verdict EXCEPT ![t] = e] BY <2>1, <2>3 DEF Witness
  <2>5. SessionsFit' BY <1>0, <1>1, <2>1, <2>2, <2>4 DEF SessionsFit, Alive, Verdicts
  <2>6. EventsFit' BY <1>0, <2>3, <2>4, <2>2, <2>1, WriteEvent DEF Verdicts
  <2>7. AnswerDue' BY <1>0, <1>1, <1>2, <1>4, <2>1, <2>2, WriteAnswers
  <2> QED BY <2>5, <2>6, <2>7 DEF Sessions
<1>HiddenSettles. CASE HiddenSettles(t)
  <2>1. /\ session[t] = "hidden" /\ session' = [session EXCEPT ![t] = "closed"]
        /\ UNCHANGED <<out, verdict>>
    BY <1>HiddenSettles DEF HiddenSettles
  <2>2. SessionsFit' BY <1>0, <1>1, <2>1 DEF SessionsFit, Alive
  <2> QED BY <1>0, <1>1, <2>1, <2>2 DEF Sessions, EventsFit, AnswerDue, Answered
<1>PromptFails. CASE PromptFails(t)
  <2>1. /\ session[t] \in {"running", "settled", "hidden"}
        /\ session' = [session EXCEPT ![t] = IF @ = "hidden" THEN "closed" ELSE "ended"]
        /\ Write(t, <<Event("error")>>) /\ Witness(t, "error")
    BY <1>PromptFails DEF PromptFails
  <2>2. "error" \in Verdicts BY DEF Verdicts
  <2>3. verdict' = [verdict EXCEPT ![t] = IF @ = "none" THEN "error" ELSE @] BY <2>1 DEF Witness
  <2>4. SessionsFit' BY <1>0, <1>1, <2>1, <2>3 DEF SessionsFit, Alive
  <2>5. EventsFit' BY <1>0, <2>3, <2>1, <2>2, WriteEvent
  <2>6. AnswerDue' BY <1>0, <1>1, <1>2, <1>4, <2>1, <2>2, WriteAnswers
  <2> QED BY <2>4, <2>5, <2>6 DEF Sessions
<1>WorkerAborts. ASSUME NEW by \in Aborters, WorkerAborts(t, by) PROVE Sessions'
  <2>1. CASE session[t] = "running"
    <3>1. /\ session' = [session EXCEPT ![t] = "settled"]
          /\ Write(t, <<Event("cancelled"), Reply(by, TRUE)>>) /\ Witness(t, "cancelled")
      BY <1>WorkerAborts, <2>1 DEF WorkerAborts
    <3>2. verdict[t] = "none" BY <1>0, <2>1 DEF SessionsFit
    <3>3. verdict' = [verdict EXCEPT ![t] = "cancelled"] BY <3>1, <3>2 DEF Witness
    <3>4. SessionsFit' BY <1>0, <1>1, <2>1, <3>1, <3>3 DEF SessionsFit, Alive
    <3>5. EventsFit'
      <4>1. \A u \in Turns : verdict'[u] = verdict[u] \/ verdict[u] = "none" BY <1>0, <3>2, <3>3
      <4>2. \A d \in Verdicts : Event("cancelled") = Event(d) => d = "cancelled" BY MessagesDiffer
      <4>3. verdict'[t] = "cancelled" BY <1>0, <3>3
      <4> DEFINE s == <<Event("cancelled"), Reply(by, TRUE)>>
      <4>4. \A k \in DOMAIN s : s[k] \in {Event("cancelled"), Reply(by, TRUE)}
        <5>1. DOMAIN s = {1, 2} /\ s[1] = Event("cancelled") /\ s[2] = Reply(by, TRUE) OBVIOUS
        <5> QED BY <5>1
      <4>5. s \in Seq(Message) /\ Write(t, s) BY <1>2, <3>1
      <4> HIDE DEF s
      <4> QED BY <1>0, <1>3, <4>1, <4>2, <4>3, <4>4, <4>5, WriteEvents
    <3>6. AnswerDue' BY <1>0, <1>1, <1>2, <1>4, <2>1, <3>1, WriteAnswers
    <3> QED BY <3>4, <3>5, <3>6 DEF Sessions
  <2>2. CASE session[t] # "running"
    <3>1. UNCHANGED <<session, verdict>> /\ Write(t, <<Reply(by, TRUE)>>)
      BY <1>WorkerAborts, <2>2 DEF WorkerAborts
    <3>2. SessionsFit' BY <1>0, <1>1, <3>1 DEF SessionsFit, Alive
    <3>3. EventsFit' BY <1>0, <1>2, <1>3, <3>1, WriteReply
    <3>4. AnswerDue' BY <1>0, <1>1, <1>2, <1>4, <3>1, WriteAnswers
    <3> QED BY <3>2, <3>3, <3>4 DEF Sessions
  <2> QED BY <2>1, <2>2
<1> QED
  BY <1>WorkerOpens, <1>WorkerReads, <1>WorkerSettles, <1>HiddenSettles, <1>PromptFails,
     <1>WorkerAborts DEF WorkerStep

\* Hello and a daemon restart.
LEMMA OtherSessions ==
  ASSUME TurnsIInv, Restart \/ \E w \in Workers : Hello(w) PROVE Sessions'
<1>0. TypeOK /\ SessionsFit /\ EventsFit /\ AnswerDue
  BY DEF TurnsIInv, TypesHold, Sessions
<1>1. CASE Restart
  BY <1>1 DEF Restart, Sessions, SessionsFit, EventsFit, AnswerDue
<1>2. ASSUME NEW w \in Workers, Hello(w) PROVE Sessions'
  <2>1. UNCHANGED <<session, verdict, ctx, at, sending, status, out>>
    BY <1>2 DEF Hello, rows, service, worker
  <2>2. SessionsFit' BY <1>0, <1>2, <2>1, SessionsFrame, NoneEnds
  <2> QED BY <2>1, <2>2, <1>0 DEF Sessions, EventsFit, AnswerDue, Answered
<1> QED BY <1>1, <1>2


-----------------------------------------------------------------------------
\* The invariant holds at first.
LEMMA InvariantInit == Init => TurnsIInv
<1> SUFFICES ASSUME Init PROVE TurnsIInv OBVIOUS
<1>1. TypesHold
  BY TurnsAssumption DEF Init, TypesHold, TypeOK, QueuesHold, StartsPlaced, Terminal
<1>2. AbortsPlaced /\ ForgottenApart /\ Ownership
  BY DEF Init, AbortsPlaced, ForgottenApart, Ownership, Owned, LeasesBalance, HonestOutcome,
         StartsApart, UnusedIsBlank,
         NotesFit
<1>3. Hosting
  BY DEF Init, Hosting, WorkersApart, ContextPlaced, ContextHasWorker, StartHasWorker, ProbesLive,
         ReadyHasWorker
<1>4. Sessions BY DEF Init, Sessions, SessionsFit, EventsFit, AnswerDue
<1> QED BY <1>1, <1>2, <1>3, <1>4 DEF TurnsIInv


\* Every step keeps it: each part by the lemma for its kind of step.
LEMMA InvariantNext == TurnsIInv /\ [Next]_vars => TurnsIInv'
<1> SUFFICES ASSUME TurnsIInv, [Next]_vars PROVE TurnsIInv' OBVIOUS
<1>0. TypesHold BY DEF TurnsIInv
<1>1. ASSUME NEW t \in Turns, ServiceStep(t) PROVE TypesHold' /\ Ownership' /\ Hosting' /\ Sessions'
  BY <1>0, <1>1, ServiceTypes, ServiceOwns, ServiceHosts, ServiceSessions
<1>2. ASSUME NEW a \in Agents, AgentStep(a) PROVE TypesHold' /\ Ownership' /\ Hosting' /\ Sessions'
  BY <1>0, <1>2, AgentTypes, AgentOwns, AgentHosts, AgentSessions
<1>3. ASSUME NEW t \in Turns, WorkerStep(t) PROVE TypesHold' /\ Ownership' /\ Hosting' /\ Sessions'
  BY <1>0, <1>3, WorkerTypes, WorkerOwns, OtherHosts, WorkerSessions
<1>4. ASSUME NEW w \in Workers, Hello(w) PROVE TypesHold' /\ Ownership' /\ Hosting' /\ Sessions'
  <2>1. UNCHANGED <<status, thread, notes, start, ctx, lease, sending, timedOut, verdict, session, at>>
    BY <1>4 DEF Hello, rows, service, worker
  <2>2. Ownership' BY <2>1, OwnershipFrame DEF TurnsIInv
  <2> QED BY <1>0, <1>4, <2>2, OtherTypes, OtherHosts, OtherSessions
<1>5. CASE Restart
  BY <1>0, <1>5, OtherTypes, RestartOwns, OtherHosts, OtherSessions, AbortsStep, ForgottenStep
    DEF TurnsIInv, Next
<1>6. CASE Next
  <2>1. AbortsPlaced' /\ ForgottenApart' BY <1>6, AbortsStep, ForgottenStep
  <2> QED BY <1>1, <1>2, <1>3, <1>4, <1>5, <1>6, <2>1 DEF TurnsIInv, Next
<1>7. CASE UNCHANGED vars
  <2> USE <1>7 DEF vars, rows, service, timeouts, registry, worker
  <2>1. TypesHold' BY <1>0 DEF TypesHold, TypeOK, QueuesHold, StartsPlaced, Agent
  <2>2. AbortsPlaced' /\ ForgottenApart' /\ Ownership'
    BY OwnershipFrame DEF TurnsIInv, AbortsPlaced, ForgottenApart
  <2>3. Hosting'
    BY DEF TurnsIInv, Hosting, WorkersApart, ContextPlaced, ContextHasWorker, StartHasWorker,
           ProbesLive,
           ReadyHasWorker, HostedBy, Alive, Agent
  <2>4. Sessions'
    BY DEF TurnsIInv, Sessions, SessionsFit, EventsFit, AnswerDue, Answered, Alive
  <2> QED BY <2>1, <2>2, <2>3, <2>4 DEF TurnsIInv
<1> QED BY <1>6, <1>7

\* So it holds in every behaviour.
THEOREM InvariantHolds == Spec => []TurnsIInv
<1> QED BY InvariantInit, InvariantNext, PTL DEF Spec

\* Rows, contexts, queues, workers and sessions keep their types.
THEOREM TypeCorrect == Spec => []TypeOK
<1>1. TurnsIInv => TypeOK BY DEF TurnsIInv, TypesHold
<1> QED BY <1>1, InvariantHolds, PTL

\* A working Turn is in the hands of its start or of its context, a context has
\* its worker, and a plugin lease is held by exactly the Turns that use it.
THEOREM HeldTurns == Spec => []TurnsAreHeld
<1>1. TurnsIInv => TurnsAreHeld
  BY DEF TurnsIInv, TypesHold, Ownership, Owned, Hosting, TurnsAreHeld, WorkingIsOwned
<1> QED BY <1>1, InvariantHolds, PTL

\* A prompt that the worker's sessions know belongs to a context, one of a forgotten
\* session to a Turn that ended, and a ready Agent has a live worker or is being quarantined.
THEOREM HeldWorkers == Spec => []WorkersAreHeld
<1>1. TurnsIInv => WorkersAreHeld
  BY DEF TurnsIInv, TypesHold, TypeOK, Ownership, Owned, UnusedIsBlank, ForgottenApart, Hosting,
         Sessions, SessionsFit, WorkersAreHeld, RunningIsOwned
<1> QED BY <1>1, InvariantHolds, PTL

\* A Turn ends completed or cancelled only as its worker said; a Turn that timed
\* out is not cancelled, and a completed one has no note of a cancellation.
THEOREM OutcomesAreHonest == Spec => []HonestOutcome
<1>1. TurnsIInv => HonestOutcome BY DEF TurnsIInv, Ownership
<1> QED BY <1>1, InvariantHolds, PTL

-----------------------------------------------------------------------------
\* Finishing Turns and rejecting starts is one end of the lifecycle.
LEMMA SettleEnds ==
  ASSUME TypeOK, NEW done \in SUBSET Turns, NEW outcome \in Terminal, NEW rejected \in SUBSET Turns,
         Settle(done, outcome, rejected), UNCHANGED <<thread, peer, verdict>>,
         \A t \in done \cap ctx : outcome \in {"failed", verdict[t]}
  PROVE  Lifecycle!End
<1> DEFINE T == {t \in Turns : status[t] = "working" /\ status'[t] # "working"}
           ends == [t \in T |-> status'[t]]
<1>0. status \in [Turns -> {"none", "working"} \cup Terminal] BY DEF TypeOK
<1>1. status' = [t \in Turns |-> SettledStatus(t, done \cap ctx, outcome, rejected)] BY DEF Settle
<1>2. \A t \in Turns : status[t] # "working" => status'[t] = status[t]
  BY <1>1 DEF SettledStatus, SetTurnStatus
<1>3. \A t \in T : status'[t] \in {"completed", "cancelled", "failed"} /\ status'[t] \in {"failed", verdict[t]}
  BY <1>0, <1>1 DEF SettledStatus, SetTurnStatus, Terminal
<1>4. status' = [t \in Turns |-> IF t \in T THEN ends[t] ELSE status[t]]
  BY <1>0, <1>1, <1>2
<1>5. T \in SUBSET {t \in Turns : status[t] = "working"} OBVIOUS
<1>6. ends \in [T -> {"completed", "cancelled", "failed"}] /\ \A t \in T : ends[t] \in {"failed", verdict[t]}
  BY <1>3
<1> HIDE DEF T, ends
<1> QED BY <1>4, <1>5, <1>6 DEF Lifecycle!End

\* The steps of the lifecycle while the daemon runs.
InService ==
  \/ \E t \in Turns, th \in Threads : Lifecycle!Begin(t, th)
  \/ \E t \in Turns, e \in {"completed", "cancelled", "error"} : Lifecycle!Report(t, e)
  \/ Lifecycle!End
  \/ UNCHANGED <<status, thread, peer, verdict>>

\* Every other step of the daemon and its workers is a step of the lifecycle or none.
LEMMA StepImplements ==
  ASSUME TurnsIInv, Next PROVE InService \/ Restart
<1> USE DEF rows, service, timeouts, registry, worker
<1>0. TypeOK /\ EventsFit /\ "failed" \in Terminal
  BY DEF TurnsIInv, TypesHold, Sessions, Terminal
<1>1. ASSUME Lifecycle!End PROVE InService BY <1>1 DEF InService
<1>2. ASSUME NEW t \in Turns, ServiceStep(t)
      PROVE  InService
  <2>Send. ASSUME NEW th \in Threads, NEW k \in Kinds, Send(t, th, k) PROVE InService
    <3>1. Lifecycle!Begin(t, th) BY <2>Send DEF Send, Busy, Lifecycle!Begin
    <3> QED BY <3>1 DEF InService
  <2>Rejected. CASE StartFails(t) \/ OpenRefused(t)
    <3>1. Settle({}, "failed", {t}) /\ UNCHANGED <<thread, peer, verdict>>
      BY <2>Rejected DEF StartFails, OpenRefused
    <3> QED BY <1>0, <1>1, <3>1, SettleEnds
  <2>SendFails. CASE SendFails(t)
    <3>1. Settle({t}, "failed", {t} \cap peer) /\ UNCHANGED <<thread, peer, verdict>>
      BY <2>SendFails DEF SendFails
    <3> QED BY <1>0, <1>1, <3>1, SettleEnds
  <2>Event. ASSUME NEW e \in {"completed", "cancelled", "error"}, EventReceived(t, e) PROVE InService
    <3>1. PICK done \in SUBSET {t} : Settle(done, Outcome(t, e), {})
      BY <2>Event DEF EventReceived
    <3>2. UNCHANGED <<thread, peer, verdict>> /\ Says(t, Event(e)) BY <2>Event DEF EventReceived
    <3>3. 1 \in DOMAIN out[t] /\ out[t][1] = Event(e) BY <1>0, <3>2 DEF Says, TypeOK
    <3>4. e # "error" => verdict[t] = e BY <1>0, <3>3 DEF EventsFit, Verdicts
    <3>5. Outcome(t, e) \in Terminal /\ Outcome(t, e) \in {"failed", verdict[t]}
      BY <3>4 DEF Outcome, Terminal
    <3> QED BY <1>0, <1>1, <3>1, <3>2, <3>5, SettleEnds
  <2>Others. CASE \/ LeasePlugins(t) \/ OpenSession(t) \/ SessionOpened(t) \/ SendAccepted(t) \/ Delivered(t)
                  \/ ReplyIgnored(t) \/ AbortTurn(t) \/ AbortResumes(t) \/ AbortAnswered(t) \/ TurnExpires(t)
    BY <2>Others DEF InService, LeasePlugins, OpenSession, SessionOpened, SendAccepted, Delivered,
                     ReplyIgnored, AbortTurn,
                     AbortResumes, AbortAnswered, TurnExpires
  <2> QED BY <1>2, <2>Send, <2>Rejected, <2>SendFails, <2>Event, <2>Others DEF ServiceStep
<1>3. ASSUME NEW a \in Agents, AgentStep(a)
      PROVE  InService
  <2>Offline. CASE WorkerStopped(a) \/ RestartTimesOut(a)
    <3>1. Settle(TurnsOf(a), "failed", {}) /\ UNCHANGED <<thread, peer, verdict>> /\ TurnsOf(a) \in SUBSET Turns
      BY <2>Offline DEF WorkerStopped, RestartTimesOut, TurnsOf, Used
    <3> QED BY <1>0, <1>1, <3>1, SettleEnds
  <2>Exits. CASE WorkerCrash(a) \/ WorkerKilled(a)
    <3>1. \E done \in SUBSET Turns, rejected \in SUBSET Turns : Settle(done, "failed", rejected)
      <4>1. PICK w, done : WorkerExit(w, done) /\ done \in SUBSET Turns
        BY <2>Exits DEF WorkerCrash, WorkerKilled, TurnsOf, Used
      <4> DEFINE rejected == {t \in On(w) : start[t] \in {"spawning", "opening"}} \cup (On(w) \cap sending \cap peer)
      <4>2. Settle(done \cup (On(w) \cap sending), "failed", rejected) BY <4>1 DEF WorkerExit
      <4>3. rejected \in SUBSET Turns /\ done \cup (On(w) \cap sending) \in SUBSET Turns BY <4>1 DEF On
      <4> QED BY <4>2, <4>3
    <3>2. UNCHANGED <<thread, peer, verdict>> BY <2>Exits DEF WorkerCrash, WorkerKilled
    <3> QED BY <1>0, <1>1, <3>1, <3>2, SettleEnds
  <2>Others. CASE \/ TimeoutTurn(a) \/ TimeoutAborted(a) \/ TimeoutConfirmed(a) \/ QuarantineWorker(a)
                  \/ RestartWorker(a) \/ Recheck(a) \/ ProbePasses(a) \/ ProbeFails(a)
    BY <2>Others DEF InService, TimeoutTurn, TimeoutAborted, TimeoutConfirmed, QuarantineWorker,
                     RestartWorker,
                     Recheck,
                     ProbePasses, ProbeFails
  <2> QED BY <1>3, <2>Offline, <2>Exits, <2>Others DEF AgentStep
<1>4. ASSUME NEW t \in Turns, WorkerStep(t)
      PROVE  InService
  <2>1. UNCHANGED <<status, thread, peer>>
    BY <1>4 DEF WorkerStep, WorkerOpens, WorkerReads, WorkerSettles, HiddenSettles, PromptFails,
         WorkerAborts
  <2>2. UNCHANGED verdict \/ \E e \in {"completed", "cancelled", "error"} : Witness(t, e)
    BY <1>4 DEF WorkerStep, WorkerOpens, WorkerReads, WorkerSettles, HiddenSettles, PromptFails,
         WorkerAborts
  <2>3. ASSUME NEW e \in {"completed", "cancelled", "error"}, Witness(t, e), verdict[t] = "none"
        PROVE  InService
    <3>1. Lifecycle!Report(t, e) BY <2>1, <2>3 DEF Witness, Lifecycle!Report
    <3> QED BY <3>1 DEF InService
  <2>4. ASSUME NEW e, Witness(t, e), verdict[t] # "none" PROVE verdict' = verdict
    BY <1>0, <2>4 DEF Witness, TypeOK
  <2> QED BY <2>1, <2>2, <2>3, <2>4 DEF InService
<1>5. CASE \E w \in Workers : Hello(w)
  BY <1>5 DEF InService, Hello
<1> QED BY <1>2, <1>3, <1>4, <1>5 DEF Next

\* A start of the daemon is a recovery.
LEMMA RestartRecovers ==
  ASSUME TurnsIInv, Restart PROVE Lifecycle!Recover
<1> DEFINE unsure == {t \in Turns : Dispatching(t)}
<1>1. unsure \in SUBSET {t \in peer : status[t] # "none"}
  BY DEF TurnsIInv, TypesHold, TypeOK, AbortsPlaced, Dispatching
<1>2. status' = [t \in Turns |-> IF status[t] = "working" \/ t \in unsure THEN "failed" ELSE status[t]]
  BY DEF Restart, Recovered
<1>3. UNCHANGED <<thread, peer, verdict>> BY DEF Restart
<1> HIDE DEF unsure
<1> QED BY <1>1, <1>2, <1>3 DEF Lifecycle!Recover

\* In service the lifecycle never changes a terminal status.
LEMMA EndsOnce ==
  ASSUME InService, TypeOK, NEW t \in Turns, status[t] \in Terminal
  PROVE  status'[t] = status[t]
BY DEF InService, Lifecycle!Begin, Lifecycle!Report, Lifecycle!End, TypeOK, Terminal

\* A terminal status is final, whatever worker, timer, abort or crash comes late; only a
\* start of the daemon turns it into a failure, for mail whose row does not say accepted.
THEOREM EndedOnce == Spec => TerminalOnce
<1> DEFINE Kept == \A t \in Turns : status[t] \in Terminal =>
                     \/ status'[t] = status[t]
                     \/ status'[t] = "failed" /\ Dispatching(t) /\ starts' # starts
<1>1. TurnsIInv /\ [Next]_vars => [Kept]_vars
  <2>1. ASSUME TurnsIInv, Next PROVE Kept
    <3>1. CASE InService BY <2>1, <3>1, EndsOnce DEF TurnsIInv, TypesHold
    <3>2. CASE Restart
      <4>1. starts \in Nat /\ starts' = starts + 1
        BY <2>1, <3>2, TurnsAssumption DEF Restart, TurnsIInv, TypesHold, TypeOK
      <4>2. starts' # starts BY <4>1
      <4> QED BY <3>2, <4>2 DEF Restart, Recovered, Terminal
    <3> QED BY <2>1, <3>1, <3>2, StepImplements
  <2> QED BY <2>1
<1> QED BY <1>1, InvariantHolds, PTL DEF Spec, TerminalOnce

\* The Turn service implements the lifecycle the domain promises: a user's Turn begins
\* where none is active, mail once in its Thread, and each ends as its worker reported
\* or failed.
THEOREM ImplementsLifecycle == Spec => RefinesLifecycle
<1>1. Init => Lifecycle!Init BY DEF Init, Lifecycle!Init
<1>2. TurnsIInv /\ [Next]_vars => [Lifecycle!Next]_<<status, thread, peer, verdict>>
  <2>1. ASSUME TurnsIInv, Next PROVE [Lifecycle!Next]_<<status, thread, peer, verdict>>
    BY <2>1, StepImplements, RestartRecovers DEF InService, Lifecycle!Next
  <2>2. ASSUME UNCHANGED vars PROVE UNCHANGED <<status, thread, peer, verdict>>
    BY <2>2 DEF vars, rows, service, worker
  <2> QED BY <2>1, <2>2
<1> QED BY <1>1, <1>2, InvariantHolds, PTL
  DEF Spec, RefinesLifecycle, Lifecycle!Spec, Lifecycle!lifecycle
=============================================================================
