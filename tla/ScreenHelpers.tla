--------------------------- MODULE ScreenHelpers ---------------------------
(* The helper processes of one Bot Screen (botScreenWaylandHelpers.ts, the    *)
(* runtime of swayBotScreenRuntime.ts, supervisor.ts, the computer worker):   *)
(* the input helper with its chain of commands, the computer worker, the      *)
(* capture helpers, and the cleanup that ends them when the Screen fails or   *)
(* is stopped.                                                                *)
(*                                                                            *)
(* The application units are taken to be disabled, as they are without a      *)
(* systemd of the user: a helper ends by what the daemon does to it alone.    *)
(* What runs under the lease of the seat has it (InputSeat); the compositor,  *)
(* the desktop and expanded views are SwayComputer's.                         *)
EXTENDS Naturals, Sequences

CONSTANTS Views,       \* capture streams
          MaxEpoch     \* bound: authority given to humans, and to the Bot's actions

ASSUME HelpersAssumption == MaxEpoch \in Nat

VARIABLES screen,   \* "input", "worker": its helpers start; "ready"; and the steps of its end
          op,       \* the operation at the head of the manager's queue
          human,    \* epoch of the controller that has authority, or 0
          epochs,   \* epochs given by the broker, and lastInputEpoch
          helper,   \* the input helper: its process, and #terminalError and #stopped
          chain,    \* commands to the input helper, the head in exchange
          device,   \* what the input helper has: a line to read, its answer, and its authority
          worker,   \* the computer worker's process runs
          views     \* per capture stream

helperVars == <<screen, op, human, epochs, helper, chain, device, worker, views>>

NoOp == [kind |-> "none", epoch |-> 0]
NoLine == [cmd |-> "none", epoch |-> 0, by |-> "none"]

HelpersInit ==
  /\ screen = "input"
  /\ op = NoOp
  /\ human = 0
  /\ epochs = [given |-> 0, last |-> 0]
  /\ helper = [running |-> FALSE, terminal |-> FALSE, stopped |-> FALSE]
  /\ chain = <<>>
  /\ device = [line |-> NoLine, answer |-> "none", active |-> FALSE, epoch |-> 0, highest |-> 0,
               held |-> FALSE]
  /\ worker = FALSE
  /\ views = [v \in Views |-> "idle"]

\* stopped, the runtime's own flag.
Stopped == screen \in {"letgo", "ending", "exiting", "opens", "closes", "rest", "over"}

-----------------------------------------------------------------------------
(* Start.                                                                     *)

\* WaylandVirtualInput.start: READY; or it exits or is late, and the Screen does not start.
InputStarts(ready) ==
  /\ screen = "input"
  /\ helper' = [helper EXCEPT !.running = ready]
  /\ screen' = IF ready THEN "worker" ELSE "unstarted"
  /\ UNCHANGED <<op, human, epochs, chain, device, worker, views>>

\* startComputerWorker: its hello; or the input helper is stopped again.
WorkerStarts(hello) ==
  /\ screen = "worker"
  /\ worker' = hello
  /\ screen' = IF hello THEN "ready" ELSE "unstarted"
  /\ helper' = [helper EXCEPT !.running = @ /\ hello, !.stopped = ~hello]
  /\ UNCHANGED <<op, human, epochs, chain, device, views>>

\* #ensureHelpers, and the start of a Surface, which has the same order.
HelpersStart == \E r \in BOOLEAN : InputStarts(r) \/ WorkerStarts(r)

-----------------------------------------------------------------------------
(* Commands.                                                                  *)

\* Commands of the operation, and of the Screen's end.
ByOp(cmd, epoch) == [cmd |-> cmd, epoch |-> epoch, by |-> "op"]
LetAllGo == [cmd |-> "release", epoch |-> 0, by |-> "screen"]

Healthy == helper.running /\ ~helper.terminal /\ ~helper.stopped
InExchange == device.answer # "none"

\* #command: the head is written once those before it have ended.
Sent ==
  /\ chain # <<>> /\ ~InExchange /\ Healthy
  /\ device' = [device EXCEPT !.line = Head(chain), !.answer = "awaited"]
  /\ UNCHANGED <<screen, op, human, epochs, helper, chain, worker, views>>

\* What the helper does with a line: authority only for an epoch above all before it, events
\* only of the epoch that has it.
Obeyed(c) ==
  CASE c.cmd = "authority" -> c.epoch > device.highest
    [] c.cmd = "release" -> c.epoch = 0 \/ (device.active /\ c.epoch = device.epoch)
    [] OTHER -> device.active /\ c.epoch = device.epoch

Effect(c) ==
  CASE c.cmd = "authority" -> [device EXCEPT !.active = TRUE, !.epoch = c.epoch, !.highest = c.epoch, !.held = FALSE]
    [] c.cmd = "release" -> [device EXCEPT !.active = FALSE, !.held = FALSE]
    [] c.cmd = "press" -> [device EXCEPT !.held = TRUE]
    [] c.cmd = "lift" -> [device EXCEPT !.held = FALSE]

\* The helper reads its line, also one whose sender gave up waiting. An event may be refused
\* for what it says.
DeviceTakes(refused) ==
  LET c == device.line
      obeys == Obeyed(c) /\ ~(refused /\ c.cmd \in {"press", "lift"})
      after == IF obeys THEN Effect(c) ELSE device
  IN /\ helper.running /\ c # NoLine
     /\ device' = [after EXCEPT !.line = NoLine,
                                !.answer = IF @ # "awaited" THEN @ ELSE IF obeys THEN "ok" ELSE "rejected"]
     /\ UNCHANGED <<screen, op, human, epochs, helper, chain, worker, views>>

\* #failRuntime takes the entry, and its release goes behind the commands there are.
Failing(cs, fails) ==
  IF fails /\ screen = "ready" THEN screen' = "failing" /\ chain' = Append(cs, LetAllGo)
  ELSE screen' = screen /\ chain' = cs

\* sendAgentInput: release(epoch) is sent finally, whatever became of the events.
ReleasedAfter(out) == "release"

\* What an action of the Bot sends next: authority, events, release.
NextOfAct(cmd, out) ==
  CASE cmd = "authority" -> IF out = "ok" THEN "press" ELSE "over"
    [] cmd = "press" -> IF out = "ok" THEN "lift" ELSE ReleasedAfter(out)
    [] cmd = "lift" -> ReleasedAfter(out)
    [] cmd = "release" -> "over"

\* The head ends, for an operation: an action of the Bot goes on; a human gets authority; an
\* operation of a human that was not merely rejected fails the runtime (#invoke).
OpGoesOn(c, out) ==
  LET next == IF op.kind = "act" THEN NextOfAct(c.cmd, out) ELSE "over"
      invoked == op.kind \in {"claim", "input"}
  IN /\ op' = IF next = "over" THEN NoOp ELSE op
     /\ human' = IF op.kind = "claim" /\ out = "ok" /\ screen = "ready" THEN c.epoch
                 ELSE IF invoked /\ out = "failed" THEN 0 ELSE human
     /\ Failing(IF next = "over" THEN Tail(chain) ELSE Append(Tail(chain), ByOp(next, op.epoch)),
                invoked /\ out = "failed")

\* The head ends, for the Screen's end: #failRuntime stops the runtime, cleanup stops the
\* helper, which asks it to let go once more unless it is beyond that.
ScreenGoesOn(terminal) ==
  LET asks == screen = "letgo" /\ ~terminal
  IN /\ screen' = CASE screen = "failing" -> "stopping"
                    [] screen = "letgo" -> IF asks THEN "ending" ELSE "exiting"
                    [] screen = "ending" -> "exiting"
     /\ chain' = IF asks THEN Append(Tail(chain), LetAllGo) ELSE Tail(chain)
     /\ UNCHANGED <<op, human>>

\* The exchange of the head ends: an answer; or no answer in time, or the pipe broke, which is
\* terminal. A helper that is not there any more fails the head at once.
HeadEnds(out) ==
  /\ chain # <<>>
  /\ \/ out = device.answer /\ out \in {"ok", "rejected"}
     \/ out = "failed" /\ (device.answer = "awaited" \/ (~InExchange /\ ~Healthy))
  /\ LET terminal == helper.terminal \/ (out = "failed" /\ InExchange)
         c == Head(chain)
     IN /\ IF c.by = "op" THEN OpGoesOn(c, out) ELSE ScreenGoesOn(terminal)
        /\ helper' = [helper EXCEPT !.terminal = terminal, !.stopped = @ \/ screen' = "exiting"]
  /\ device' = [device EXCEPT !.answer = "none"]
  /\ UNCHANGED <<epochs, worker, views>>

\* The helper's process ends: by itself, after SIGTERM, or at the end of its input. The
\* compositor lets go what its devices held.
HelperExits ==
  /\ helper.running
  /\ helper' = [helper EXCEPT !.running = FALSE]
  /\ device' = [device EXCEPT !.line = NoLine, !.active = FALSE, !.held = FALSE]
  /\ UNCHANGED <<screen, op, human, epochs, chain, worker, views>>

WorkerExits ==
  /\ worker
  /\ worker' = FALSE
  /\ UNCHANGED <<screen, op, human, epochs, helper, chain, device, views>>

-----------------------------------------------------------------------------
(* Operations of the manager's queue.                                         *)

Begin(kind, epoch, cmd) ==
  /\ screen = "ready" /\ op = NoOp
  /\ op' = [kind |-> kind, epoch |-> epoch]
  /\ chain' = IF cmd = "none" THEN chain ELSE Append(chain, ByOp(cmd, epoch))

\* act, with input events.
Act ==
  /\ epochs.last < MaxEpoch
  /\ Begin("act", epochs.last + 1, "authority")
  /\ epochs' = [epochs EXCEPT !.last = @ + 1]
  /\ UNCHANGED <<screen, human, helper, device, worker, views>>

\* act by the worker: it answers, refuses, exits or is late, which fails the action alone.
Notify ==
  /\ Begin("notify", 0, "none")
  /\ UNCHANGED <<screen, human, epochs, helper, device, worker, views>>
NotifyEnds ==
  /\ op.kind = "notify"
  /\ op' = NoOp
  /\ UNCHANGED <<screen, human, epochs, helper, chain, device, worker, views>>

\* capture, by grim: one that fails outside of an action of the Bot fails the runtime.
Look ==
  /\ Begin("look", 0, "none")
  /\ UNCHANGED <<screen, human, epochs, helper, device, worker, views>>
LookEnds(fails) ==
  /\ op.kind = "look"
  /\ op' = NoOp
  /\ Failing(chain, fails)
  /\ human' = IF fails THEN 0 ELSE human
  /\ UNCHANGED <<epochs, helper, device, worker, views>>

\* Mutant: the epoch is the broker's, whatever the Bot's actions used since.
EpochOfBroker(given, last) == given

EpochFor(given, last) == IF given > last THEN given ELSE last + 1

\* setInputAuthority, with the broker's next epoch.
Claim ==
  /\ human = 0 /\ epochs.given < MaxEpoch
  /\ LET epoch == EpochFor(epochs.given + 1, epochs.last) IN
     /\ Begin("claim", epoch, "authority")
     /\ epochs' = [given |-> epochs.given + 1, last |-> epoch]
  /\ UNCHANGED <<screen, human, helper, device, worker, views>>

\* input of the controller.
Input(cmd) ==
  /\ human # 0
  /\ Begin("input", human, cmd)
  /\ UNCHANGED <<screen, human, epochs, helper, device, worker, views>>

\* releaseInput of the controller.
LetGo ==
  /\ human # 0
  /\ Begin("letgo", human, "release")
  /\ human' = 0
  /\ UNCHANGED <<screen, epochs, helper, device, worker, views>>

-----------------------------------------------------------------------------
(* The Screen's end.                                                          *)

\* A helper's exit (outcome); or, behind the operation under way, a stop or a workspace that could
\* not be focused for a human.
ScreenEnds ==
  /\ screen = "ready"
  /\ ~helper.running \/ ~worker \/ op = NoOp
  /\ Failing(chain, TRUE)
  /\ human' = 0
  /\ UNCHANGED <<op, epochs, helper, device, worker, views>>

\* runtime.stop, after the lifecycles before it; cleanupSurface.
CleanupBegins ==
  /\ screen = "stopping"
  /\ screen' = "letgo"
  /\ chain' = Append(chain, LetAllGo)
  /\ UNCHANGED <<op, human, epochs, helper, device, worker, views>>

Beyond(step, next) == screen = step /\ screen' = next /\ UNCHANGED <<op, human, epochs, helper, chain, device, worker>>

\* virtualInput.stop waits for the exit, with SIGTERM and SIGKILL.
HelperGone == ~helper.running /\ Beyond("exiting", "opens") /\ UNCHANGED views

\* Mutant: cleanup closes the streams there are without waiting for those that start.
StartsIgnored == TRUE

\* captureStreamStarts: none is starting, or being closed because the Screen has stopped.
StartsAreOver == \A v \in Views : views[v] \notin {"starting", "refused"}

\* Every stream that is open then is closed, and awaited.
StreamsClose ==
  /\ StartsAreOver
  /\ Beyond("opens", "closes")
  /\ views' = [v \in Views |-> IF views[v] \in {"open", "asked"} THEN "cleaned" ELSE views[v]]

StreamsClosed == (\A v \in Views : views[v] # "cleaned") /\ Beyond("closes", "rest") /\ UNCHANGED views

\* stopComputerWorker, the desktop, the units.
RestStops ==
  /\ screen = "rest"
  /\ screen' = "over" /\ worker' = FALSE
  /\ UNCHANGED <<op, human, epochs, helper, chain, device, views>>

-----------------------------------------------------------------------------
(* Capture streams.                                                           *)

View(v, was, is) ==
  /\ views[v] = was /\ views' = [views EXCEPT ![v] = is]
  /\ UNCHANGED <<screen, op, human, epochs, helper, chain, device, worker>>

\* openCaptureStream of a Screen that is ready.
StreamOpens(v) == screen = "ready" /\ View(v, "idle", "starting")

\* WaylandCaptureStream.start: READY. A stopped runtime closes it before the start is over; the
\* manager closes that of an entry that is not current.
StreamReady(v) ==
  View(v, "starting", IF Stopped THEN "refused" ELSE IF screen = "ready" THEN "open" ELSE "closing")
StreamNotReady(v) == View(v, "starting", "closed")

\* next: a frame; or a late or wrong one, or a Screen that is not current any more, each of
\* which closes it.
StreamAsked(v) == screen = "ready" /\ View(v, "open", "asked")
StreamAnswers(v) == View(v, "asked", IF screen = "ready" THEN "open" ELSE "closing")
StreamLate(v) == View(v, "asked", "closing")

\* CaptureProtocolReader: its output ended, or is not a header, in the middle of a frame.
StreamBroken(v) == View(v, "asked", "closing")

\* close, by its user.
StreamLeft(v) == View(v, "open", "closing")

\* The process ends, by its input, SIGTERM or SIGKILL.
StreamExits(v) == \E was \in {"closing", "refused", "cleaned"} : View(v, was, "closed")

-----------------------------------------------------------------------------
Exchange == \/ Sent \/ \E out \in {"ok", "rejected", "failed"} : HeadEnds(out)
Ending == CleanupBegins \/ HelperGone \/ StreamsClose \/ StreamsClosed \/ RestStops
HelperEnds == (helper.terminal \/ helper.stopped) /\ HelperExits
StreamProgress(v) == StreamReady(v) \/ StreamNotReady(v) \/ StreamExits(v)

HelpersNext ==
  \/ HelpersStart
  \/ \E r \in BOOLEAN : DeviceTakes(r) \/ LookEnds(r)
  \/ Exchange \/ HelperExits \/ WorkerExits
  \/ Act \/ Look \/ Notify \/ NotifyEnds \/ Claim \/ Input("press") \/ Input("lift") \/ LetGo
  \/ ScreenEnds \/ Ending
  \/ \E v \in Views :
       \/ StreamOpens(v) \/ StreamProgress(v)
       \/ StreamAsked(v) \/ StreamAnswers(v) \/ StreamLate(v) \/ StreamBroken(v) \/ StreamLeft(v)

\* Every exchange, start and close of a helper has a timer behind it; the steps of the cleanup
\* are the daemon's own.
HelpersFairness ==
  /\ WF_helperVars(Exchange) /\ WF_helperVars(Ending) /\ WF_helperVars(HelperEnds)
  /\ \A v \in Views : WF_helperVars(StreamProgress(v))

HelpersSpec == HelpersInit /\ [][HelpersNext]_helperVars /\ HelpersFairness

-----------------------------------------------------------------------------
(* Properties. *)

\* The Bot's actions and a human share one input helper. Authority is never refused, whichever
\* of them had it last; and nothing stays pressed that neither the controller nor an operation
\* under way nor the end of the helper will let go.
InputIsFenced ==
  /\ device.answer = "rejected" => Head(chain).cmd # "authority"
  /\ device.held => \/ human = device.epoch
                    \/ op.epoch = device.epoch
                    \/ helper.terminal
                    \/ screen \in {"failing", "stopping", "letgo", "ending", "exiting"}
  /\ ~helper.running => ~device.held

\* A Screen that fails or is stopped comes to its end, and by then none of its helpers runs,
\* except a capture helper whose user closed it on its own.
NothingOutlivesTheScreen ==
  /\ (screen = "failing") ~> (screen = "over")
  /\ [](screen = "over" => /\ ~helper.running /\ ~worker
                           /\ \A v \in Views : views[v] \in {"idle", "closing", "closed"})
=============================================================================
