# Omarchy Bot: TLA+ models and proofs

These modules model the parts of Omarchy Bot that are hard to test: durable queues,
supervised worker processes, Screens that a Bot and a human share, connections that are
lost, and the races between timers, crashes, deletions and restarts. TLC checks small
instances of every module; TLAPS proves theorems for all values of the constants.

The reference is always the source. Each definition names the lines it translates in
`PROJECT.json` ("map"); a comment above each action says which function it is.

## The system

Omarchy Bot is one Bun daemon (`apps/daemon`), a web client (`apps/web`), one worker
process per Agent (`workers/pi`), one worker per Computer Surface (`workers/computer`), one
nested Sway compositor with a desktop per Bot Screen, and a desktop plugin (`plugin/`) that
builds and runs the daemon. SQLite is the durable state. JavaScript is single-threaded: what
runs between two `await`s is atomic, and every `await` is a place where anything else may
happen.

| Component | State | Operations | Interacts with | Hard because | Correct when | Module |
|---|---|---|---|---|---|---|
| Mailbox (`modules/mailbox`) | delivery rows; pending queue, active and rerun sets, pool counter | enqueue, drain, dispatch, accept, readiness event, start-up reconciliation | Turns, registry, deletion | crash between claim and acceptance; re-entrant drains | one Turn per delivery at most, no lost wake-up, bounded pool | `Mailbox` |
| Turns, Supervisor, WorkerClient, Agents registry, worker sessions | Turn rows; contexts, start promises, timeout queues; worker entries and processes; readiness | send, start, events, timeout, abort, crash, quarantine, recheck | Plugins, Threads, Mailbox, deletion | five ways to end a Turn race each other | one active Turn of the user per Thread, each ends once and honestly | `Turns`, `TurnLifecycle` |
| Threads, transcript, Agent tools | message rows, tool calls, tool requests | event normalization, streaming blocks, tool request and cancellation, recovery | Turns, Broker | provider identities repeat, events and requests cross | rows settle, say what happened, and stay | `Transcript` |
| Bot Screens (`botScreenManager.ts`) | runtime entries, lifecycle rows, generations, operation queues | open, use, destroy, recover, shutdown | Sway adapter, deletion | failed stops, stale exits, capacity | no runtime forgotten or beyond the capacity | `BotScreens` |
| Computer broker, control part of the projection | authority and epoch, pending calls, controllers, input queues | act, take over, I'm done, cancel, claim, input, release | Screens, viewers | a human and an Agent want the same Screen | one hand on the Screen | `ComputerControl`, `OneHand` |
| Input seat (`swayBotScreenRuntime.ts`) | the lease all Screens share | acquire, release, action, failure | operation queues | failures while a lease is held or awaited | owned while used, reached in the end | `InputSeat` |
| Screen projection, WayVNC | sessions, sockets, modes, captures, shared WayVNC | connect, view, capture, expand, close | Screens | everything ends in any order | views shared exactly, every session ends | `ScreenViews` |
| Bot Computer (Sway adapter) | sessions, state files, units, outputs | start, reconcile, stop, destroy, restart | processes, files | the daemon ends between two steps | a successor finds what runs | `SwayComputer` |
| Screen helpers, computer worker | helper processes, command chain, input epochs | authority, commands, capture, cleanup | Screens, seat | two epoch counters, cleanup while starting | input fenced, nothing outlives the Screen | `ScreenHelpers` |
| Event log, web replay | event log, cursors, page cache | append, replay, stream, invalidate, refetch | every service | losses between replay and stream | nothing missed, page catches up | `EventReplay` |
| Web Control in the browser | connection, modes, control, window | expand, blur, input, reconnect | projection | handlers outlive connections | page and daemon agree | `WebControl` |
| Composer, drafts, attachments | page, sessionStorage, uploads, files | edit, attach, send, dictate, restore | Turns, deletion, dictation | continuations after the user moved on | drafts stay in their conversation | `Composer` |
| Plugins, skills, OAuth | pooled connections, leases, skills, grants | acquire, check, install, authorize, refresh | Turns | shared connections, late results | connections held while used | `Plugins` |
| Dictation | state, active recording | start, stop, cancel, shutdown | voxtype | requests are not serialized | the state tells the truth | `Dictation` |
| Avatars | row, file, recipe sessions | upload, generate, remove, delete | workers, deletion | row and file are no transaction | row and file agree | `Avatars` |
| Unread attention | counts, read boundary | output, acknowledge | event log | the page is always late | what is read was reached | `Attention` |
| Desktop plugin | lock, stages, apps, processes | build, sweep, supervise, kill | daemon | the shell kills at any moment | one daemon | `Launcher` |

## How the modules correspond to the code

One action is one synchronous section of the code: a handler up to its first `await`, or the
continuation after one. Sections that follow an `await` without anything else able to run in
between are merged with their predecessor. External parts (voxtype, Sway's processes, the
shell, providers) may answer at any time and with any result the daemon distinguishes.

**`Mailbox`.** A delivery is an index in insertion order, and its target Thread has the same
index. `mail`, `turn`, `bot`, `unread` and `unreadMail` are SQLite; everything else is memory
and is lost by `Down`. `Enqueue` is the `enqueue` transaction and the scheduling after it,
`DrainDispatches` the synchronous part of `#drainDispatches` with the head of each
`#dispatch`, `FinishDispatch` the `finally`. `RecoverOnStartup` and `ReconcileStartup` are
separate because a second crash can fall between them. Target Turns are reduced to their
status, deletion to claim, barrier, commit and failure.

**`Turns`.** A Turn is an index in insertion order; its session has the same name. `start` is
the await at which `#startTurn` stands, `ctx` the domain of `#turns`, `queue`/`phase` the
timeout queue and the stage of `#timeoutTurn`, `current`/`victim`/`proc` the supervisor's
entry, the worker being killed and the processes. Commands act on a live worker at once,
whereas everything the worker writes waits in `out[t]` and is read at any later time, or
never before the request times out; a command handled later is one sent before and answered
late. `Settle` is `#finishTurn` for a set of contexts with the `catch` of rejected starts.
The Thread of mail exists from its enqueue, so that a user may send into it while the delivery waits,
and the claim then starts a second Turn there. A session closed while `message.send` reads its
attachments is prompted all the same (`worker.ts:424` does not look again): such a prompt is
`hidden`, known neither to the daemon nor to `turn.abort`. `accepted` is mail whose delivery row does
not say so yet: `Restart`, which is `recoverOnStartup` and `reconcileStartup`, fails it even if it
ended. `TurnLifecycle` says what this is for: a user's Turn begins in a Thread where none works, mail
once in its Thread; each ends once, as `completed` or `cancelled` only if its worker said so; and only
start-up replaces an outcome, by `failed`, for mail. `RefinesLifecycle` checks that `Turns`
implements it.

**`Transcript`.** The worker's session reports natively, `normalize.ts` turns this into
events, the pipe (`wire`) carries them in order, the daemon writes rows: a set of records, each
with its place (`seq`), which the code takes after the last one there is. Text is counted in
chunks. The requests of all Agent tools have one form: asked over the pipe, matched with the
row seen to start, served, and answered or cancelled. Requests have identities of their own in the
code, so an answer reaches only the call that still waits for it; here the cancel under way says
that the answered request is not the one waiting now (`Cancelled`). `DaemonRestarts` is
`recoverOnStartup`. The Turns of a Thread follow one another here; mail that is claimed beside a
working Turn is in `Turns` only.

**`BotScreens`.** A runtime is a Surface and a generation; `live` says which runtimes'
processes exist, which the manager cannot see. `entry`/`installed`, `cleanup`, `stops` and
`ops` are the manager's four maps, `boot` the start promise of an entry, `stale` and `failing`
the runtimes whose `stop()` a superseded start or `#failRuntime` awaits. `capture` stands for
every operation whose error fails the runtime, `act` for those whose error does not. The
adapter is external here: each call settles at any later time, and `stop` rejects at most
`MaxStopErrors` times. What it does inside is `SwayComputer`.

**`ComputerControl`.** The broker (`desk`), the projection's controllers (`web`), the viewers'
modes (`view`) and the Surface's operation queue (`ops`) composed. External events are taken
only when no continuation is ready (`Quiet`). One runtime of the Screen is followed: that an action of a
Bot opens a failed Screen again (`#readyRuntime`), as a new generation, is `BotScreens`. `HandsOff` is a refinement: `OneHand` says that
one hand at a time is on the Screen and is let go before the other comes; the mapping derives
the hands from the running operation and from the keys that are down.

**`InputSeat`.** The lease as a FIFO line, the queue of each Surface and what runs under the
lease. A runtime that fails gives its lease up at once; an action of it that still runs is
`stale`.

**`ScreenViews`, `SwayComputer`.** The sessions with their modes, timers and captures, and the
WayVNC they share, with every await of an acquire and a release as a step of its own. The
lifecycle operations of the adapter, serialized as in `#serializeLifecycle`, step by step
against state files, units, outputs and exits; the daemon may end between any two steps, and
`recover()` of its successor reconciles. Here rows are reduced to what selects operations: state,
generation, and which changed last; the row of a Screen whose destroy was asked is `deleting`. A
place is the output a desktop is put on, and the lowest free one is taken.

**`ScreenHelpers`.** The input helper's chain of commands and its authority by epoch, the
computer worker, capture helpers, and the cleanup in its order. The application units are taken
as disabled: with them systemd ends what the daemon forgets.

**`EventReplay`.** An event stands for one change of what queries read, its cursor for the
version a query answers with. Not every event is routed: `route()` (`events.ts:155`) has no case for
`bot.avatar_generated`, `bot.avatar_recipe_updated`, `bot.avatar_uploaded`, `thread.updated` and
`agent.event_rejected`, and the cursor moves past them. What only those tell reaches another page with
its next poll or routed event; the properties are about changes whose event is routed. The socket replays after a cursor and then streams; the pump
invalidates, notifies, retries and forgets its cursor after some retries; deletions remove
events from the middle of the log.

**`WebControl`.** The component with its window, its present connection, the daemon's session
of that connection, and the messages under way in both directions. The handlers of the window
act on the connection they were installed with (`bound`). A page that gave control up waits until
the daemon has taken it back.

**`Composer`.** The page's state, sessionStorage, the requests whose continuation has not run,
and the daemon's rows and files of attachments. A text is the set of words in it, each entered
once.

**`Plugins`.** A source is an MCP connection or an account's service; its generation stands for
the object that is replaced when it is saved again, which is what the code's identity tests
compare. Connections are numbered; the pool, leases and checks hold them. There is one Skill; the pass of
`updateSkills` has it in its copy of the list (`listed`) while it is at others, then installs it, there
or not, and waits.

**`Dictation`.** A recording is named by its start request; `request[q]` is a stop or cancel with
the recording it captured. `eager` is an input: whether requests may arrive while the start of
the active recording still runs. The command that stops a recording only waits: voxtype, once asked,
writes the transcript at any time (`voice`), also after the command was killed and its files removed.

**`Avatars`, `Attention`, `Launcher`.** A Bot's avatar with its uploads, recipe sessions and
deletion, every request a sequence of awaits, none serialized. What the daemon counts as unread
and the page that learns rows and counts by two queries and acknowledges. Launches that hold,
wait for or inherit the lock, build in a stage, sweep, supervise, and are killed.

## Runs

| Run | Instance | Shows |
|---|---|---|
| `mailbox` | 2 Bots on 1 Agent, 2 deliveries, pool of 1, 1 restart, either Bot deletable | nothing dispatched twice, lost or left behind; the pool's counter; queued mail settles |
| `turns_safety` | 2 Turns, 2 Threads (symmetric), 1 Agent, 2 workers | ownership, leases, contexts and workers; refinement of `TurnLifecycle` |
| `turns_aborts` | 1 Turn, 3 workers, 1 abort, 1 restart, rechecks of a ready Agent | honest and final outcomes, no unowned prompt at work, every Turn ends |
| `screens` | 2 Surfaces, capacity 1, 3 generations, 1 rejected stop; deletion or 1 restart | no runtime forgotten, doubled or beyond capacity; recovery shows what is real; starts settle |
| `hands` | 2 viewers, 1 call, 2 claims, 1 queued input; 2 Surfaces at the seat, 1 failure | one hand on the Screen (refinement of `OneHand`), shown control is real, cancelled calls end, the seat is owned and reached |
| `media` | 2 viewers, 2 WayVNC; 2 Surfaces, 3 generations, 2 compositors, 1 restart of the daemon | views shared, sessions end; a daemon can be replaced at any step, no Screen loses its compositor to another's operation |
| `services` | ten services, one at a time (below) | one or two properties of each |
| `mailbox_terminal_once`, `screens_gone`, `hands_atomic`, `web_blur`, `composer_escape` | as above or less | violations, see Divergences |

`MCHands`, `MCMedia` and `MCServices` extend modules that do not act on one another. Their
variable `part`, chosen once, says which of them runs; the others stay in one initial state, so
that an instance checks each as if it were alone. `services` runs the transcript in two
halves (blocks, tool calls) and the plugins in two (sources, skills), and
`screens` its deletions apart from its restarts, by conditions on the next state that are
written in the MC modules.

Why the bounds are enough.

- Mailbox: one delivery being dispatched while another waits needs two and a pool of one (the
  proof of PoolIsBounded covers the other sizes); one restart interrupts a claim.
- Turns: one Turn suffices for every race about its own end; the second is the bystander of a
  quarantine or crash, and the second in the timeout queue; two workers are the one being
  stopped and its successor.
- Screens: with two Surfaces and a capacity of one every admission is contended; two generations
  are a runtime and its successor, a third leaves recovery its start.
- Control: two viewers and two claims give a claim answered after its owner changed.
- Sway: two Surfaces are a Screen and its sibling; two compositors one and its replacement.
- Transcript: two Turns let a provider's identity repeat; a wire of two lets an event be under
  way when a request is answered. Replay: three changes, the first or two of them before the page is opened, two losses, one
  retry before the cursor is forgotten. Web Control: two connections, three epochs (one page's,
  one lost, one again). Composer: two Bots, one file, two words, four moves of the user. Plugins:
  one MCP server and one account, two leases, two connections, three edits. Avatars: two requests
  and a deletion that may fail and be tried again. Attention: two Threads, two rows, two
  acknowledgements. Launcher: three launches, so that a third meets what two killed ones left;
  two revisions. Dictation: two recordings and two requests in the run, any number in the proof.

Deadlock is checked for the mailbox only: elsewhere the bounds stop the model, for
instance when every Turn has ended and no worker process is left.

## Fairness

- `Mailbox`: the drain microtask, a dispatch's `finally`, and the settlement of an acceptance,
  which request timeouts bound (30 s open, 60 s send).
- `Turns`: the daemon's timers and continuations. A worker may stay silent for ever.
- `BotScreens`: the adapter's calls, which timers in the Sway adapter bound, and the callbacks
  after them. What runs on a Screen may take for ever.
- `ComputerControl`: continuations, the end of a running operation, and the confirmation of the
  recorded result. `InputSeat`: the progress of each Surface; SeatIsReached assumes of humans
  that those on other Surfaces give the seat up again and again, as nothing in the code ends their control.
- `ScreenViews`: each await of a view and of a WayVNC, all of which have deadlines.
  `SwayComputer`: the steps of a running operation and of recovery; strong fairness of a
  queued start, since other operations enable and disable it in turn and the queue is served in order.
- `EventReplay`: the socket, its messages and the refetch of a stale query. Drops are bounded:
  PageCatchesUp is about a network that works again. `ScreenHelpers`: the exchange of a command and
  the steps of the cleanup, each with a time limit in the code, and the death of a killed process.
- Nothing is assumed of users, readiness, deletion, crashes or kills.

## Proofs

Every theorem holds for all values of its module's constants, from the module's named assumption
alone. None of the invariants is inductive as the runs check it: each proof states the
strengthening it needs, checked by TLC before, shows that `Init` implies it and every action
preserves it, with one lemma per action, and concludes. `Next...` lemmas put the actions together.

`MailboxProofs`, for any number of Bots, Agents, deliveries, dispatchers and restarts: `TypeCorrect`,
`NeverDispatchedTwice` (ClaimedOnce), `RowsAreTrue` (RowsTellTruth), `PoolIsBounded`
(PoolAccounting), `TurnsAreFinal` (TerminalOnceInService), `MailStaysKept` (MailIsKept).
`MailboxIInv` adds how a row's state, its `turn` column and the target's Turns determine each
other (`RowMatchesTurns`: a queued row has no Turn, a dispatching one exactly one, no row more
than one), that the pending queue has no duplicates and is disjoint from the active set
(`PoolInv`, which the cardinality argument needs), and the bound on starts. `DrainPool`,
`DrainRows`, `ScheduleDispatchPool` and `PrefixLemma` carry the sequence and cardinality
arguments. That no mail is forgotten needs `KeptInv`: a Bot that is down has no queue entry
(`DownForgets`), mail that could be claimed has a target that is pending, active or to rerun
(`ClaimableWaits`), a drain is scheduled while the pool has room (`QueueDrains`), and a retry
shows no attention of its own (`RetryInvisible`).

`TurnsProofs`: `TypeCorrect`, `HeldTurns` (TurnsAreHeld), `HeldWorkers` (WorkersAreHeld),
`OutcomesAreHonest` (HonestOutcome), the action property `EndedOnce` (TerminalOnce), and
`ImplementsLifecycle`: every step of `Turns` is a step of `TurnLifecycle` or a stutter.
`TurnsIInv` adds to the types that only inserted Turns are aborted (`AbortsPlaced`), that a start is
over before its Turn has a context or a verdict (`Ownership`), which worker hosts contexts, starts and
probes, in service or in quarantine (`Hosting`), and that what is still unread of a session agrees with
its verdict and follows the reply to `message.send` (`Sessions`), from which honesty follows. The
exceptions are part of the statements: `EndedOnce` lets a start of the daemon fail mail that is
`Dispatching`, `HeldWorkers` lets a forgotten session be prompted if its Turn has ended, and the
lifecycle lets mail begin beside a Turn of the user.

`BotScreensProofs`: `RuntimesStayCounted` (RuntimesAreCounted) and `RecoveredStaysReal`
(RecoveredIsReal). `BooksIInv` says of every Surface how entry, start promise, cleanup handle, stops
and processes go together (`Fits`), that the Surfaces counted against the capacity include
those whose runtime exists (`HoldersFit`), and what recovery has still to visit
(`RecoveryFits`). RuntimesAreCounted is proved for one life of the daemon, whatever fails, stops
badly or is deleted, and across any restarts when no stop rejects and no Bot is deleted
(`[](starts = 0) \/ []Calm`). This is no convenience of the proof: with both together the model has
the counterexamples listed below, which is why the `screens` run keeps them apart too.

`ControlProofs`: `ControlStaysShown` (ControlIsShown) and `OneHandAtATime` (HandsOff: every step of
`ComputerControl` is a step of `OneHand` or a stutter) for the control of one Screen, `SeatHasItsOwner`
(SeatIsOwned) for `InputSeat`. `ControlIInv` says that only the newest claim may be unrevoked (`Newest`), that what a controller waits
for covers every release owed before (`InOrder`), that the pending call is the one at work and heads the line
(`PendingWorks`), in which phases a call a human has or gives back may be (`CallsFit`), that a claim
made by `imDone` restores the pending call (`ForcedRestores`), that an active human is recorded
(`ActiveIsRecorded`), and that what is queued at the Surface is awaited by who queued it, once
(`OpsAreAwaited`). For the hands `HandsIInv` adds that a controller is announced from its activation to the
end of its release (`AnnouncedFit`); that its inputs stand before its release in the queue (`QueueFits`)
and every action of the Bot behind the release of all who are announced (`ActsFollow`); that a release
not yet queued is one that the broker still awaits (`OwedIsAwaited`), which is why an action
cannot overtake it; that no claim is open beside a call that revokes or acts (`BotIsAlone`); and
that what is held down is held under an announced controller (`HeldFits`). `SeatIInv` says that the owner leads the line and those behind it wait, once each,
that an operation that got the lease itself began while no human had its Screen, and that what works
for a runtime being stopped is stale.

`MediaProofs`: `ViewsStayShared` (ViewsAreShared), where `ViewsFit` relates each session, each
pending acquire and each WayVNC; `DaemonsAreReplaceable` (ReplaceableDaemon) and the action property
`SiblingsAreKept` (SiblingsKeepTheirComputer) of `SwayComputer`. `SwayIInv` says what the
operation under way has done so far (`StepsFit`), which files, processes and outputs a
row can have in each state, that no more than `Capacity` Surfaces hold a place (`PlacesFit`, so that one
is free when it is taken), what a recovery has still to reconcile, and with systemd's units that a
Surface runs one desktop at most (`UnitsFit`).

`ServicesProofs`: `AvatarsAreTrue` (AvatarsAgree), `InputStaysFenced` (InputIsFenced),
`PluginsStaySound` (PluginsAreSound), `OneDaemonRuns` (OneDaemon). `AvatarsIInv`: a file that a row names, or is about to name, is missing only after one of the mishaps the
property names, and what a deletion does not know of was uploaded while it ran. `HelpersIInv`: only the
head of the command chain is in exchange, an authority that is asked for is newer than all there was, and
what is pressed is pressed under a human's or an operation's epoch, or the helper ends.
`PluginsIInv`: of a source as it is configured there is one connection in the pool, which has those
that work, a held one is not closed and one that nobody holds does not outlive its configuration;
and a Skill that is there is as the user last made it, or was brought back by a pass of updates, which
`PluginsAreSound` names as its exception. `LauncherIInv`: the processes that hold the lock belong to one
launch, a daemon is started only after its launch's sweep, and a launch about to sweep has a
complete app.

`ThreadProofs` proves every checked property of `Dictation` for any sets of recordings and
requests, and of `Transcript` for any numbers of Turns, blocks, chunks and calls. Of `Dictation`: `TypeCorrect`, `TruthIsShown` (ShowsTheTruth), `CancelledIsSilent` (CancelWins) and
`OwnEnds` (EndedByItsOwn). `DictationIInv` adds that a transcript is handed out only once it is written, which happens once,
and is removed before the answer (`HandedOut`), that a cancel has marked its recording, and that with a patient
client the recording being started is the active one and every request is on a started one.
Of `Transcript`: `TranscriptIsSettled` (TranscriptSettles) and `TranscriptRowsAreFinal`
(RowsAreFinal). Most of `TranscriptIInv` relates the pipe to what it connects. Every block the
working Turn counted is shown or its start is on the pipe, before all else of it; its end on the pipe
comes after all else of it; and the text of its row grows over the deltas on the pipe to the text the
worker has, or has ended it with (`Grows`). This is `StreamsFit`, from which `TextsWhole` follows when
the end is read. It is claimed only while the
Turn lost no events to an Agent that was not ready. A request on the pipe is still waited for or
followed by its cancel, and between two requests of one call there is a cancel (`RequestsFit`); a
request that is served waits still or its cancel is under way, and its Turn works or its session closes
(`ServedFit`). The working Turn is the latest and its session open (`WorkIsLatest`), nothing belongs to
a later one (`NothingAhead`), and a started call has its row (`StartedHaveRows`), which is why it can be
served. That a place exists after the last row is proved from a bound on all places (`RowsFit`)
and well-founded induction on the numbers below it.

`PageProofs`: `DraftsStayKept` (DraftsAreKept) for `Composer`, `AttentionStaysHonest`
(AttentionIsHonest), `NothingIsMissed` (NothingMissed) for `EventReplay`, and `WebAgreesWithDaemon`
(WebControlAgrees) for `WebControl`.
`ComposerIInv` says of the store, the page, every message and every request
whose continuation has not run, whatever its kind, that its words and files are of the Bot it was
made for (`CallFits`), and that a file being uploaded is nowhere else and in no other upload
(`UploadsFit`). That words and files keep their Bot for good is the lemma `HomeStays`.
`AttentionIInv`: what the page knows or acknowledged was so (`KnownWasSo`), the last acknowledgement is of
rows of the Thread that is shown (`KeyIsShown`) and is under way or overtaken (`KeyIsSent`), and at the end
of an unread Thread the last row the page knows of was acknowledged (`EndIsAsked`).
`ReplayIInv`: every row has a cursor of its own and the last one given is in the table
(`LogIsNumbered`), nobody is ahead of the log (`Behind`), the socket carries events in order and after
the cursor of the page (`InOrder`), what a version that the page shows, or is about to, lacks is on
its way (`AnswersKnown`), and as long as no connection was lost nothing older than the page is notified
(`FirstReplayIsSilent`). A change is one whose event is routed, the version wanted that of the last such.
`WebIInv` is about two ends and two directions: the component and its connection want the same mode
(`PanelFits`), the daemon's session has control only while it is open and expanded
(`SessionFits`), epochs rise along the connection (`EpochsInOrder`), a control the page knows of is
granted still or its end is under way (`KnownAreBacked`), of one not yet granted nobody
knows (`GrantsAreNews`), the inputs under way carry the numbers the daemon expects
(`SequenceFits`), a button that the daemon holds, or will, is let go by something the page
still says (`ButtonsFit`), and a component that shows "connecting" has asked for its mode or is about
to (`WaitEnds`).

Every invariant and every action property that a passing run checks is proved, RuntimesAreCounted
under the condition above. Only model-checked is all liveness, QueuedMailSettles, EveryTurnEnds, EveryStartSettles, CancelledCallsEnd, SeatIsReached,
EverySessionEnds, EveryStartEnds, PageCatchesUp and NothingOutlivesTheScreen: fairness and ENABLED
are outside the prover's reach. The proofs of both refinements are of their safety part. What the
proofs of wires, logs and connections need is stated over positions (a message here, another
there behind it) and never over subsequences selected by a predicate, whose laws would need
induction with the predicate as a parameter.

## Divergences found

1. `mailbox_terminal_once`: `reconcileStartup` sets the target Turn of an interrupted
   delivery to `failed` without looking at its status, although a Turn is to reach a terminal
   state exactly once (`packages/domain/src/turn.ts:35`).
2. `screens_gone`: a view of a Screen while its Bot's deletion awaits `adapter.destroy` or the
   removal of files reopens it; the runtime outlives the rows.
3. `hands_atomic`: a runtime that fails gives up the seat while its own action is still at work,
   and the next Screen's action begins: actions are not atomic as ADR 0009 says.
4. `web_blur`: the handlers of the window keep the connection of the moment the view was
   expanded; after a reconnect a blur no longer releases what is held down.
5. `composer_escape`: a recording started while the auto-send of the last one is under way, or by a second click, loses its origin: neither Escape nor stop ends it.

Met while modelling, and described in the comments of the models or as notes of hazards, but not
runs of their own, for want of a sentence in the documentation precise enough to be contradicted, or
because a property states the case as its exception:

- Mailbox and Turns: mail is claimed into a Thread where a Turn of the user works. A message that still
  reads its attachments prompts a session that was closed meanwhile. Mail is still claimed after
  shutdown has begun. Aborting a Turn whose start
  then fails adds a "turn cancelled" message to a failed Turn (`daemon.test.ts:210` expects none).
- Screens: `recover` forgets a dropped runtime whose `stop()` rejects. A stop that rejects while a
  stale start stops the same runtime leaves a retained handle of nothing. A Screen reopened during
  the deletion of its Bot and met by a restart leaves processes no row names.
- Sway: a failed row whose output recovery gave to another Screen keeps its desktop running until it
  is opened or deleted (`reattachSurface`, `swayBotScreenRuntime.ts:641`, returns without
  discarding it); a deletion that ends between the change of the row and `adapter.destroy` leaves
  the desktop until it is tried again.
- Replay and Web Control: changes of avatars made elsewhere are shown only after a poll or another event.
  A socket lost during its first replay makes the next connection notify
  the rest of the history. A late view-state publishes an epoch that is being released; a key
  held from before control is refused when it is let go.
- Composer: the end of a restore, a refused removal and a successful send overwrite what was typed
  meanwhile; an upload that voids a restore leaves `restoringAttachments` set; a send
  whose answer was lost is sent again under a new tag and appears twice; uploads during a deletion
  leave files behind; drafts are written again for a deleted Bot.
- Dictation: the files of a recording are removed when the command that waits for the transcript has
  ended or was killed; voxtype may write the transcript afterwards, and it stays, although files are
  to be cleaned "after every outcome" (`docs/research/voxtype-composer-integration.md:125`).
- Plugins: a Skill the user removes while `updateSkills` is at an earlier one is installed again,
  enabled: the pass walks a copy of the list (`plugins.ts:374`), and the check for a removal during the
  installation (350) does not see one from before it. The removal of a Skill's directory may remove what a re-install of that revision just found
  there. Helpers: a helper that misses its start deadline is left; a failed MCP client is kept by
  the worker; the window of a slow application is taken for that of a later launch.
- Avatars: an upload that crosses the removal of an earlier one loses its file; one during the
  deletion leaves an orphan; a deletion that fails halfway leaves a row that names no file.
- Attention: a response that ends after its row was acknowledged stays unread; a clear may hit
  output of another Thread or newer than the page has seen.

## Not modelled

- Marketing site and research: no part of the running system.
- HTTP routing, DTO validation, rendering, layout, database migrations, message texts and titles:
  stateless or pure data. Routes appear as the actions of the services they call.
- Steering: it adds a message to a running session and changes no status.
- Application units (systemd): `SwayComputer` uses them through `UnitsEnabled` only; how a unit is
  started and named is text.
- The deletion of a Bot as one protocol: each module has the part it meets. What the whole
  of it does in order is `deleteBot`; its composition with `Turns`, `Mailbox` and `BotScreens` at once
  is beyond TLC's reach at bounds where anything happens.
- Steps of an interrupted file system operation: a removal stopped by a power loss may leave an app
  directory of the plugin with its marker.

## What could come next

Every safety property that is checked is proved; the components and what is left out of each are in
`PROJECT.json`. What is left is outside the tools (liveness in general) or a composition that does
not exist yet: the deletion of a Bot across `Turns`, `Mailbox` and `BotScreens`, which has no bounds
that TLC reaches but whose modules and inductive invariants are there for a proof to combine.
No module uses RECURSIVE operators.
