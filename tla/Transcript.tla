----------------------------- MODULE Transcript -----------------------------
(* The transcript of one Thread: what the agent's session reports natively,  *)
(* as normalized events, in order over the worker's pipe, becomes message    *)
(* rows; the calls of tools that the worker asks of the daemon are matched   *)
(* with the rows that were seen to start.                                    *)
(*                                                                           *)
(* The texts of blocks are counted in chunks. When a Turn starts and why it  *)
(* ends is the subject of Turns; here a Turn may end at any moment.          *)
EXTENDS Naturals, Sequences

CONSTANTS Calls,          \* identities of tool calls, which providers may repeat in a later Turn
          MaxTurns,       \* bound: Turns of the Thread, one after the other
          MaxBlocks,      \* bound: blocks of one Turn
          MaxChunks,      \* bound: chunks of a block
          MaxEvents,      \* bound: what the sessions report in all
          MaxWire,        \* bound: what is under way from the worker
          MaxLapses       \* bound: times the Agent becomes not ready

ASSUME TranscriptAssumption == {MaxTurns, MaxBlocks, MaxChunks, MaxEvents, MaxWire, MaxLapses} \subseteq Nat

VARIABLES rows,      \* the messages of the Thread, each with its place in it
          turn,      \* the latest Turn, and whether it works
          ctx,       \* what TurnService keeps of the working Turn
          ready,     \* the Agent has a capability inventory
          sess,      \* the worker's session of each Turn
          wire,      \* the pipe from the worker
          serving,   \* requests of tools the daemon is working on
          native     \* ghost: the texts of the blocks that ended, the Turns that lost events, counts

transcriptVars == <<rows, turn, ctx, ready, sess, wire, serving, native>>

TurnIds == 1..MaxTurns
Kinds == {"response", "thinking"}
NoTurn == 0

Fresh == [phase |-> "running", block |-> [k \in Kinds |-> NoTurn], text |-> [k \in Kinds |-> 0],
          blocks |-> 0, tool |-> [c \in Calls |-> "none"], closing |-> FALSE]
ClosedSession == [Fresh EXCEPT !.phase = "closed"]
NoContext == [turn |-> NoTurn, started |-> {}, dispatched |-> {}]

TranscriptInit ==
  /\ rows = {} /\ wire = <<>> /\ serving = {}
  /\ turn = [latest |-> 0, working |-> FALSE]
  /\ ctx = NoContext
  /\ ready = TRUE
  /\ sess = [t \in TurnIds |-> ClosedSession]
  /\ native = [texts |-> {}, lossy |-> {}, events |-> 0, lapses |-> 0]

Event(type, t, key, n) == [type |-> type, turn |-> t, key |-> key, n |-> n]
Report(events, texts) ==
  /\ native.events + Len(events) <= MaxEvents /\ Len(wire) + Len(events) <= MaxWire
  /\ wire' = wire \o events
  /\ native' = [native EXCEPT !.events = @ + Len(events), !.texts = @ \cup texts]
Emit(events) == Report(events, {})

-----------------------------------------------------------------------------
(* The worker: normalizeSessionEvent with its tracker, and the tools. Its    *)
(* subscription drops what a closed session still reports.                   *)

Opened(t) == sess[t].phase # "closed"
Worker(t, s) == /\ sess' = [sess EXCEPT ![t] = s]
                /\ UNCHANGED <<rows, turn, ctx, ready, serving>>

\* An assistant message starts or ends: no block of it is tracked any longer.
MessageEdge(t) ==
  /\ Opened(t)
  /\ Worker(t, [sess[t] EXCEPT !.block = Fresh.block, !.text = Fresh.text])
  /\ UNCHANGED <<wire, native>>

\* A block starts; a thinking block may start with text, reported as its first delta.
BlockStarts(t, k, n) ==
  LET b == sess[t].blocks + 1 IN
  /\ Opened(t) /\ sess[t].block[k] = NoTurn /\ b <= MaxBlocks
  /\ n \in 0..(IF k = "thinking" THEN 1 ELSE 0)
  /\ Worker(t, [sess[t] EXCEPT !.block[k] = b, !.text[k] = n, !.blocks = b])
  /\ Emit(<<Event(k, t, b, 0)>> \o (IF n > 0 THEN <<Event("delta", t, b, n)>> ELSE <<>>))

BlockGrows(t, k) ==
  LET b == sess[t].block[k] IN
  /\ Opened(t) /\ b # NoTurn /\ sess[t].text[k] < MaxChunks
  /\ Worker(t, [sess[t] EXCEPT !.text[k] = @ + 1])
  /\ Emit(<<Event("delta", t, b, 1)>>)

\* What the end of a thinking block adds to the text that was streamed.
OfficialSuffix(k, streamed, official) == IF k = "thinking" THEN official - streamed ELSE 0

\* A block ends; the official text of a thinking block may be longer than what was streamed.
BlockEnds(t, k, official) ==
  LET b == sess[t].block[k]
      more == OfficialSuffix(k, sess[t].text[k], official)
  IN
  /\ Opened(t) /\ b # NoTurn
  /\ IF k = "thinking" THEN official >= sess[t].text[k] ELSE official = sess[t].text[k]
  /\ Worker(t, [sess[t] EXCEPT !.block[k] = NoTurn, !.text[k] = 0])
  /\ Report((IF more > 0 THEN <<Event("delta", t, b, more)>> ELSE <<>>) \o <<Event("end", t, b, 0)>>,
            {<<t, b, official>>})

ToolStarts(t, c) ==
  /\ Opened(t) /\ sess[t].tool[c] = "none"
  /\ Worker(t, [sess[t] EXCEPT !.tool[c] = "running"])
  /\ Emit(<<Event("tool.started", t, c, 0)>>)

ToolUpdates(t, c) ==
  /\ Opened(t) /\ sess[t].tool[c] = "running"
  /\ Worker(t, sess[t])
  /\ Emit(<<Event("tool.updated", t, c, 0)>>)

\* The computer, mail or plugin tool asks the daemon, if its Turn is still bound.
ToolAsks(t, c) ==
  /\ sess[t].phase = "running" /\ sess[t].tool[c] = "running"
  /\ Worker(t, [sess[t] EXCEPT !.tool[c] = "asking"])
  /\ Emit(<<Event("request", t, c, 0)>>)

\* The native call is aborted, or its session disposed, while it waits for the daemon.
ToolCancelled(t, c) ==
  /\ sess[t].tool[c] = "asking"
  /\ Worker(t, [sess[t] EXCEPT !.tool[c] = "answered"])
  /\ Emit(<<Event("cancel", t, c, 0)>>)

ToolEnds(t, c) ==
  /\ Opened(t) /\ sess[t].tool[c] \in {"running", "answered"}
  /\ Worker(t, [sess[t] EXCEPT !.tool[c] = "none"])
  /\ \E outcome \in {"tool.completed", "tool.failed"} : Emit(<<Event(outcome, t, c, 0)>>)

\* The session settles, or its prompt fails: the Turn's bindings go, and with them the plugin calls.
Settles(t) ==
  /\ sess[t].phase = "running"
  /\ Worker(t, [sess[t] EXCEPT !.phase = "finished"])
  /\ \E outcome \in {"turn.completed", "turn.cancelled", "error"} : Emit(<<Event(outcome, t, 0, 0)>>)

\* A native retry that fails is an error of the Turn; the session goes on until it settles.
RetryFails(t) ==
  /\ sess[t].phase = "running"
  /\ Worker(t, sess[t])
  /\ Emit(<<Event("error", t, 0, 0)>>)

\* session.close disposes the native session, which aborts its tools.
SessionCloses(t) ==
  /\ sess[t].closing
  /\ Worker(t, [ClosedSession EXCEPT !.tool = sess[t].tool])
  /\ UNCHANGED <<wire, native>>

-----------------------------------------------------------------------------
(* The rows. *)

Streaming(r) == r.kind \in Kinds /\ r.state = "streaming"
Running(r) == r.kind = "tool" /\ r.state = "running"

\* appendMessageQuiet: the place after the last row of the Thread.
NextSeq ==
  LET taken == {0} \cup {r.seq : r \in rows} IN 1 + (CHOOSE n \in taken : \A m \in taken : m <= n)
Row(t, kind, key, state) ==
  [turn |-> t, kind |-> kind, key |-> key, state |-> state, text |-> 0, seq |-> NextSeq]

IsBlock(r, t, b) == r.kind \in Kinds /\ r.turn = t /\ r.key = b
IsToolCall(r, c) == r.kind = "tool" /\ r.key = c
HasBlock(t, b) == \E r \in rows : IsBlock(r, t, b)
HasToolCall(c) == \E r \in rows : IsToolCall(r, c)

\* appendResponseDelta, completeResponse and their thinking twins: an UPDATE of the streaming
\* block of that Turn.
UpdateBlock(t, b, more, state) ==
  {IF IsBlock(r, t, b) /\ Streaming(r) THEN [r EXCEPT !.text = @ + more, !.state = state] ELSE r :
     r \in rows}

\* Whether the status of a call's row may become another.
CanAlwaysTransition(from) == from # "none"
CanTransition(from) == from = "running"

\* updateToolCall: the latest row of the Thread with that identity.
UpdateToolCall(c, state) ==
  LET of == {r \in rows : IsToolCall(r, c)} IN
  {IF r \in of /\ (\A q \in of : q.seq <= r.seq) /\ CanTransition(r.state)
     THEN [r EXCEPT !.state = state] ELSE r : r \in rows}

\* finalizeIncompleteToolCalls of one Turn.
FinalizedTools(t) ==
  {IF Running(r) /\ r.turn = t THEN [r EXCEPT !.state = "failed"] ELSE r : r \in rows}
\* removeIncompleteAgentBlocks, and then the calls.
Finalized(t) == {r \in FinalizedTools(t) : ~(Streaming(r) /\ r.turn = t)}

-----------------------------------------------------------------------------
(* The daemon. *)

BeginTurn ==
  LET t == turn.latest + 1 IN
  /\ ready /\ ~turn.working /\ t \in TurnIds
  /\ turn' = [latest |-> t, working |-> TRUE]
  /\ ctx' = [NoContext EXCEPT !.turn = t]
  /\ sess' = [sess EXCEPT ![t] = Fresh]
  /\ UNCHANGED <<rows, ready, wire, serving, native>>

\* #finishTurn: the context goes first, the session is asked to close.
ClosingSettled(s) == [s EXCEPT !.closing = s.phase = "running"]
Closing(s) == [s EXCEPT !.closing = s.phase # "closed"]

FinishTurn(t) ==
  /\ ctx' = NoContext
  /\ sess' = [sess EXCEPT ![t] = Closing(@)]
  /\ rows' = Finalized(t)
  /\ turn' = [turn EXCEPT !.working = FALSE]

\* A request is served if its call was seen to start in this Turn and was not served before.
MayServe(e) == ctx.turn = e.turn /\ e.key \in ctx.started /\ e.key \notin ctx.dispatched

\* The answer finds the call that waits for it; one that cancelled its request no longer does,
\* though it may have asked anew.
Cancelled(t, c) == \E i \in DOMAIN wire : wire[i] = Event("cancel", t, c, 0)
CallAnswered(t, c) ==
  sess' = [sess EXCEPT ![t].tool[c] = IF @ = "asking" /\ ~Cancelled(t, c) THEN "answered" ELSE @]

OnRequest(e) ==
  /\ e.type = "request"
  /\ IF MayServe(e)
     THEN /\ ctx' = [ctx EXCEPT !.dispatched = @ \cup {e.key}]
          /\ serving' = serving \cup {<<e.turn, e.key>>}
          /\ UNCHANGED sess
     ELSE CallAnswered(e.turn, e.key) /\ UNCHANGED <<ctx, serving>>
  /\ UNCHANGED <<rows, turn>>

OnCancel(e) ==
  /\ e.type = "cancel"
  /\ serving' = serving \ {<<e.turn, e.key>>}
  /\ UNCHANGED <<rows, turn, ctx, sess>>

Terminal(e) == e.type \in {"turn.completed", "turn.cancelled", "error"}
IsEvent(e) == e.type \notin {"request", "cancel"}

\* #routeTurnEvent.
Route(e) ==
  \/ /\ e.type \in Kinds
     /\ rows' = IF HasBlock(e.turn, e.key) THEN rows
                ELSE rows \cup {Row(e.turn, e.type, e.key, "streaming")}
     /\ UNCHANGED <<turn, ctx, sess>>
  \/ /\ e.type = "delta"
     /\ rows' = UpdateBlock(e.turn, e.key, e.n, "streaming")
     /\ UNCHANGED <<turn, ctx, sess>>
  \/ /\ e.type = "end"
     /\ rows' = UpdateBlock(e.turn, e.key, 0, "completed")
     /\ UNCHANGED <<turn, ctx, sess>>
  \/ /\ e.type = "tool.started"
     /\ IF HasToolCall(e.key) THEN UNCHANGED <<rows, ctx>>
        ELSE /\ rows' = rows \cup {Row(e.turn, "tool", e.key, "running")}
             /\ ctx' = [ctx EXCEPT !.started = @ \cup {e.key}]
     /\ UNCHANGED <<turn, sess>>
  \/ /\ e.type = "tool.updated"
     /\ rows' = UpdateToolCall(e.key, "running")
     /\ UNCHANGED <<turn, ctx, sess>>
  \/ /\ e.type \in {"tool.completed", "tool.failed"}
     /\ rows' = UpdateToolCall(e.key, IF e.type = "tool.completed" THEN "completed" ELSE "failed")
     /\ ctx' = [ctx EXCEPT !.started = @ \ {e.key}]
     /\ UNCHANGED <<turn, sess>>
  \/ Terminal(e) /\ FinishTurn(e.turn)

\* onAgentEvent: events of an Agent that is not ready, or of a Turn that is over, go nowhere.
OnReport(e) ==
  /\ IsEvent(e)
  /\ IF ready /\ ctx.turn = e.turn THEN Route(e) ELSE UNCHANGED <<rows, turn, ctx, sess>>
  /\ UNCHANGED serving

Receive ==
  /\ wire # <<>>
  /\ LET e == Head(wire) IN
     /\ OnRequest(e) \/ OnCancel(e) \/ OnReport(e)
     /\ native' = IF ~ready /\ IsEvent(e) THEN [native EXCEPT !.lossy = @ \cup {e.turn}] ELSE native
  /\ wire' = Tail(wire)
  /\ UNCHANGED ready

\* A request that is served is answered.
Served(r) ==
  /\ r \in serving
  /\ serving' = serving \ {r}
  /\ CallAnswered(r[1], r[2])
  /\ UNCHANGED <<rows, turn, ctx, ready, wire, native>>

\* The Turn times out, is aborted while its worker does not answer, or is closed by its deletion.
TurnFails ==
  /\ ctx.turn # NoTurn
  /\ FinishTurn(ctx.turn)
  /\ UNCHANGED <<ready, wire, serving, native>>

\* The worker's process exits: its requests are aborted and its Turns fail. What it wrote
\* before may still be read.
AgentWorkerExits ==
  /\ \E t \in TurnIds : Opened(t)
  /\ IF ctx.turn # NoTurn
     THEN ctx' = NoContext /\ rows' = Finalized(ctx.turn) /\ turn' = [turn EXCEPT !.working = FALSE]
     ELSE UNCHANGED <<ctx, rows, turn>>
  /\ sess' = [t \in TurnIds |-> ClosedSession]
  /\ serving' = {}
  /\ UNCHANGED <<ready, wire, native>>

\* A recheck of the Agent fails, or passes again.
ReadinessChanges ==
  /\ ready => native.lapses < MaxLapses
  /\ ready' = ~ready
  /\ native' = [native EXCEPT !.lapses = IF ready THEN @ + 1 ELSE @]
  /\ UNCHANGED <<rows, turn, ctx, sess, wire, serving>>

\* recoverOnStartup, in the order of its statements: the calls of Turns that still work, all
\* streaming blocks, then the Turns.
Recovered ==
  LET interrupted == IF turn.working THEN FinalizedTools(turn.latest) ELSE rows
  IN {r \in interrupted : ~Streaming(r)}

DaemonRestarts ==
  /\ rows' = Recovered
  /\ turn' = [turn EXCEPT !.working = FALSE]
  /\ ctx' = NoContext /\ ready' = TRUE /\ wire' = <<>> /\ serving' = {}
  /\ sess' = [t \in TurnIds |-> ClosedSession]
  /\ UNCHANGED native

TranscriptNext ==
  \/ \E t \in TurnIds :
       \/ MessageEdge(t) \/ Settles(t) \/ RetryFails(t) \/ SessionCloses(t)
       \/ \E k \in Kinds : \/ BlockGrows(t, k)
                           \/ \E n \in 0..MaxChunks : BlockStarts(t, k, n) \/ BlockEnds(t, k, n)
       \/ \E c \in Calls : \/ ToolStarts(t, c) \/ ToolUpdates(t, c) \/ ToolAsks(t, c)
                           \/ ToolCancelled(t, c) \/ ToolEnds(t, c)
  \/ BeginTurn \/ Receive \/ TurnFails \/ AgentWorkerExits \/ ReadinessChanges \/ DaemonRestarts
  \/ \E r \in serving : Served(r)

TranscriptSpec == TranscriptInit /\ [][TranscriptNext]_transcriptVars

-----------------------------------------------------------------------------
(* Properties. *)

TranscriptTypeOK ==
  /\ \A r \in rows : /\ r.turn \in TurnIds /\ r.kind \in Kinds \cup {"tool"}
                     /\ r.state \in {"streaming", "running", "completed", "failed"}
                     /\ r.seq \in Nat \ {0} /\ r.text \in Nat
  /\ ctx.turn \in {NoTurn} \cup TurnIds /\ ctx.started \cup ctx.dispatched \subseteq Calls
  /\ turn.working <=> ctx.turn # NoTurn
  /\ serving \subseteq TurnIds \X Calls

\* Only the Turn that works has blocks that stream and calls that run: nothing looks busy for ever.
OnlyWorkIsBusy ==
  \A r \in rows : Streaming(r) \/ Running(r) => turn.working /\ r.turn = turn.latest

\* A block is shown once, and a completed one whole: with the text the agent ended it with,
\* unless its Turn had events while the Agent was not ready. No two rows have the same place.
BlocksAreWhole ==
  \A r \in rows :
    /\ \A q \in rows : q.seq = r.seq => q = r
    /\ r.kind \in Kinds =>
         /\ \A q \in rows : IsBlock(q, r.turn, r.key) => q = r
         /\ r.state = "completed" /\ r.turn \notin native.lossy =>
              <<r.turn, r.key, r.text>> \in native.texts

\* A request that is served has a row of its own Turn, which still works, or its cancellation
\* is certain: the session was told to close or has closed, or its cancel is under way.
CallsAreOwned ==
  \A r \in serving :
    /\ \E q \in rows : IsToolCall(q, r[2]) /\ q.turn = r[1]
    /\ \/ ctx.turn = r[1] /\ r[2] \in ctx.dispatched
       \/ sess[r[1]].closing
       \/ sess[r[1]].phase = "closed" /\ sess[r[1]].tool[r[2]] = "asking"
       \/ Cancelled(r[1], r[2])

\* The transcript tells what happened, and nothing in it stays unfinished.
TranscriptSettles == TranscriptTypeOK /\ OnlyWorkIsBusy /\ BlocksAreWhole /\ CallsAreOwned

\* What was completed or failed once stays in the transcript as it is and in its place, and what
\* is new comes after all there was.
RowsAreFinal ==
  [][/\ \A r \in rows : Streaming(r) \/ Running(r) \/ r \in rows'
     /\ \A r \in rows' : \A q \in rows :
          r.seq <= q.seq => \E p \in rows : p.seq = r.seq]_transcriptVars
=============================================================================
