------------------------------ MODULE BotScreens ------------------------------
(***************************************************************************)
(* BotScreenManager (apps/daemon/src/modules/computer): the lifecycle of   *)
(* one Screen per Bot.  Opening a Screen starts a runtime (a process tree  *)
(* behind an adapter) under a new generation; use of a Screen is           *)
(* serialized per Surface; a runtime that fails is stopped in the          *)
(* background and kept until its stop succeeds; a capacity bounds the      *)
(* Screens that may hold a runtime; deletion of the Bot destroys the       *)
(* Screen; a restarted daemon adopts or replaces what is left.             *)
(*                                                                         *)
(* A runtime is named by its Surface and generation.  The adapter is       *)
(* external: its calls take any time and may fail; start() replaces        *)
(* whatever the Surface still runs (swayBotScreenRuntime.ts:447), and      *)
(* stop() of a runtime that is gone does nothing.                          *)
(***************************************************************************)
EXTENDS Naturals, Sequences, FiniteSets

CONSTANTS
  Surfaces,   \* one Surface per Bot
  Capacity,   \* options.capacity
  MaxGen,     \* bound: starts of one Surface
  MaxQueue,   \* bound: queued operations of one Surface
  MaxStarts,  \* bound: daemon restarts
  MaxStopErrors, \* bound: runtime.stop() calls that reject
  Deletes     \* input: may Bots be deleted?

ASSUME ScreensAssumption ==
  /\ IsFiniteSet(Surfaces)
  /\ Capacity \in Nat \ {0}
  /\ MaxGen \in Nat /\ MaxQueue \in Nat /\ MaxStarts \in Nat /\ MaxStopErrors \in Nat
  /\ Deletes \in BOOLEAN

Gens == 1..MaxGen
GenOrNone == 0..MaxGen

VARIABLES
  \* bot_surfaces ("gone": the row is deleted)
  life,       \* lifecycle_state
  gen,        \* runtime_generation
  \* BotScreenManager
  entry,      \* #entries: the generation of the entry (0: none)
  installed,  \* whether the entry holds its runtime and hears of its exit
  cleanup,    \* #cleanupRuntimes: a failed runtime (0: none)
  stops,      \* #stops
  ops,        \* #operations: the queue, its head running
  step,       \* where the running operation is
  target,     \* the runtime it works on (0: none)
  boot,       \* the entry.start promise that is pending (0: none)
  booting,    \* where it is: cleaning the failed runtime, or starting
  stale,      \* runtimes #start stops because their entry is gone
  failing,    \* runtimes #failRuntime stops
  deletion,   \* where the deletion of the Bot is
  recovering, \* Surfaces recover() still has to visit
  began,      \* it waits for the start of the first of them
  starts,     \* daemon restarts so far
  errors,     \* rejected stop() calls so far
  \* the adapter
  live        \* the runtimes whose processes run

rows == <<life, gen>>
queues == <<ops, step, target, stops>>
boots == <<boot, booting, stale>>
entries == <<entry, installed, cleanup>>
daemon == <<recovering, began, starts>>
vars == <<rows, entries, queues, boots, failing, deletion, daemon, errors, live>>

TypeOK ==
  /\ life \in [Surfaces -> {"stopped", "starting", "ready", "failed", "gone"}]
  /\ gen \in [Surfaces -> GenOrNone]
  /\ entry \in [Surfaces -> GenOrNone]
  /\ installed \in [Surfaces -> {"no", "yes", "deaf"}]
  /\ cleanup \in [Surfaces -> GenOrNone]
  /\ stops \subseteq Surfaces
  /\ ops \in [Surfaces -> Seq({"act", "capture", "stop"})]
  /\ step \in [Surfaces -> {"queued", "waiting", "using", "failing", "stopping"}]
  /\ target \in [Surfaces -> GenOrNone]
  /\ boot \in [Surfaces -> GenOrNone]
  /\ booting \in [Surfaces -> {"none", "cleaning", "starting"}]
  /\ stale \in [Surfaces -> SUBSET Gens]
  /\ failing \in [Surfaces -> SUBSET Gens]
  /\ deletion \in [Surfaces -> {"none", "stopping", "destroying", "cleaned"}]
  /\ recovering \in Seq(Surfaces)
  /\ began \in BOOLEAN
  /\ starts \in 0..MaxStarts
  /\ errors \in 0..MaxStopErrors
  /\ live \in [Surfaces -> SUBSET Gens]

Init ==
  /\ life = [s \in Surfaces |-> "stopped"]
  /\ gen = [s \in Surfaces |-> 0]
  /\ entry = [s \in Surfaces |-> 0]
  /\ installed = [s \in Surfaces |-> "no"]
  /\ cleanup = [s \in Surfaces |-> 0]
  /\ stops = {}
  /\ ops = [s \in Surfaces |-> <<>>]
  /\ step = [s \in Surfaces |-> "queued"]
  /\ target = [s \in Surfaces |-> 0]
  /\ boot = [s \in Surfaces |-> 0]
  /\ booting = [s \in Surfaces |-> "none"]
  /\ stale = [s \in Surfaces |-> {}]
  /\ failing = [s \in Surfaces |-> {}]
  /\ deletion = [s \in Surfaces |-> "none"]
  /\ recovering = <<>>
  /\ began = FALSE
  /\ starts = 0
  /\ errors = 0
  /\ live = [s \in Surfaces |-> {}]

Exists(s) == life[s] # "gone"
Serving == recovering = <<>>

\* #reservedCapacity
ReservedEntries == {s \in Surfaces : entry[s] # 0} \cup stops
Reserved == {s \in Surfaces : entry[s] # 0 \/ cleanup[s] # 0} \cup stops

\* runtime.stop(): the processes end, or the call rejects and they stay.
StopsRuntime(s, g) ==
  /\ live' = [live EXCEPT ![s] = @ \ {g}]
  /\ UNCHANGED errors
StopRejects(s, g) ==
  /\ g \in live[s]
  /\ errors < MaxStopErrors
  /\ errors' = errors + 1
  /\ UNCHANGED live

---------------------------------------------------------------------------
(* #start                                                                  *)

\* open() admits a Screen that is stopped or failed (a row that claims to
\* be active without an entry counts as stopped) while capacity is left;
\* its own failed runtime does not count against it.
Admits(s) ==
  /\ Exists(s)
  /\ s \notin stops
  /\ life[s] \in {"stopped", "failed"} \/ entry[s] = 0
  /\ Cardinality(Reserved \ (IF cleanup[s] # 0 THEN {s} ELSE {})) < Capacity

NextGen(s) == gen[s] + 1

\* A retained failed runtime is stopped before its successor starts.
FirstStep(s) == IF cleanup[s] # 0 THEN "cleaning" ELSE "starting"

\* The synchronous part of #start: a new generation, its entry, and the
\* promise that first stops the failed runtime it replaces.
Begin(s) ==
  /\ entry[s] = 0
  /\ gen[s] + MaxStarts - starts < MaxGen  \* bound: leaves recover() its starts
  /\ gen' = [gen EXCEPT ![s] = NextGen(s)]
  /\ life' = [life EXCEPT ![s] = "starting"]
  /\ entry' = [entry EXCEPT ![s] = NextGen(s)]
  /\ installed' = [installed EXCEPT ![s] = "no"]
  /\ boot' = [boot EXCEPT ![s] = NextGen(s)]
  /\ booting' = [booting EXCEPT ![s] = FirstStep(s)]
  /\ UNCHANGED <<cleanup, stale>>

\* A client looks at the Screen (computerRoutes: take-control,
\* return-to-bot, and every view of a Screen that is not ready).
Open(s) ==
  /\ Serving
  /\ Admits(s)
  /\ Begin(s)
  /\ UNCHANGED <<queues, failing, deletion, daemon, errors, live>>

\* The promise stops the failed runtime.
BootCleans(s) ==
  /\ booting[s] = "cleaning"
  /\ StopsRuntime(s, cleanup[s])
  /\ cleanup' = [cleanup EXCEPT ![s] = 0]
  /\ booting' = [booting EXCEPT ![s] = "starting"]
  /\ UNCHANGED <<rows, entry, installed, queues, boot, stale, failing, deletion, daemon>>

BootSettles(s) ==
  /\ boot' = [boot EXCEPT ![s] = 0]
  /\ booting' = [booting EXCEPT ![s] = "none"]

\* adapter.start resolves: the runtime is installed if its entry is still
\* the one that waits for it, otherwise #start stops it.  Installing on a
\* deleted Surface throws after the entry is set, before it listens to the
\* runtime's outcome.
Wanted(s) == entry[s] = boot[s]
BootSucceeds(s) ==
  /\ booting[s] = "starting"
  /\ BootSettles(s)
  /\ live' = [live EXCEPT ![s] = {boot[s]}]
  /\ IF Wanted(s)
     THEN /\ entry' = [entry EXCEPT ![s] = boot[s]]
          /\ installed' = [installed EXCEPT ![s] = IF Exists(s) THEN "yes" ELSE "deaf"]
          /\ life' = [life EXCEPT ![s] = IF Exists(s) THEN "ready" ELSE @]
          /\ UNCHANGED stale
     ELSE /\ stale' = [stale EXCEPT ![s] = @ \cup {boot[s]}]
          /\ UNCHANGED <<entry, installed, life>>
  /\ UNCHANGED <<gen, cleanup, queues, failing, deletion, daemon, errors>>

\* The stop of the failed runtime or adapter.start rejects.
BootFails(s) ==
  /\ boot[s] # 0
  /\ IF booting[s] = "cleaning" THEN StopRejects(s, cleanup[s])
     ELSE UNCHANGED <<errors, live>>
  /\ BootSettles(s)
  /\ IF Wanted(s)
     THEN /\ entry' = [entry EXCEPT ![s] = 0]
          /\ life' = [life EXCEPT ![s] = IF Exists(s) THEN "failed" ELSE @]
     ELSE UNCHANGED <<entry, life>>
  /\ UNCHANGED <<gen, installed, cleanup, stale, queues, failing, deletion, daemon>>

StaleStops(s) ==
  \E g \in stale[s] :
    /\ stale' = [stale EXCEPT ![s] = @ \ {g}]
    /\ StopsRuntime(s, g) \/ StopRejects(s, g)
    /\ UNCHANGED <<rows, entries, queues, boot, booting, failing, deletion, daemon>>

---------------------------------------------------------------------------
(* #failRuntime                                                            *)

\* The synchronous part: the entry goes, the runtime is kept for cleanup.
Fail(s) ==
  /\ entry' = [entry EXCEPT ![s] = 0]
  /\ life' = [life EXCEPT ![s] = IF Exists(s) THEN "failed" ELSE @]
  /\ cleanup' = [cleanup EXCEPT ![s] = entry[s]]
  /\ failing' = [failing EXCEPT ![s] = @ \cup {entry[s]}]
  /\ UNCHANGED <<gen, installed>>

\* A component of the installed runtime exits unexpectedly.
RuntimeExits(s) ==
  /\ entry[s] # 0 /\ installed[s] = "yes"
  /\ Fail(s)
  /\ UNCHANGED <<queues, boots, deletion, daemon, errors, live>>

\* The failed runtime's stop() ends; a rejection keeps the handle.
Forgotten(s, g) == IF cleanup[s] = g THEN 0 ELSE cleanup[s]
FailedStops(s) ==
  \E g \in failing[s] :
    /\ failing' = [failing EXCEPT ![s] = @ \ {g}]
    /\ \/ StopsRuntime(s, g) /\ cleanup' = [cleanup EXCEPT ![s] = Forgotten(s, g)]
       \/ StopRejects(s, g) /\ UNCHANGED cleanup
    /\ UNCHANGED <<rows, entry, installed, queues, boots, deletion, daemon>>

---------------------------------------------------------------------------
(* The serialized operations                                               *)

Kind(s) == IF ops[s] = <<>> THEN "none" ELSE Head(ops[s])
At(s, kinds, where) == Kind(s) \in kinds /\ step[s] = where
Uses == {"act", "capture"}

\* act, capture, projectionSource and the input calls join the queue.
Request(s, kind) ==
  /\ Serving
  /\ Exists(s)
  /\ Len(ops[s]) < MaxQueue
  /\ ops' = [ops EXCEPT ![s] = Append(@, kind)]
  /\ UNCHANGED <<rows, entries, step, target, stops, boots, failing, deletion, daemon, errors, live>>

OpEnds(s) ==
  /\ ops' = [ops EXCEPT ![s] = Tail(@)]
  /\ step' = [step EXCEPT ![s] = "queued"]
  /\ target' = [target EXCEPT ![s] = 0]

\* #readyRuntime opens the Screen when it can, and waits for the entry.
UseOpens(s) ==
  /\ At(s, Uses, "queued")
  /\ Admits(s) /\ Begin(s)
  /\ step' = [step EXCEPT ![s] = "waiting"]
  /\ UNCHANGED <<ops, target, stops, failing, deletion, daemon, errors, live>>

UseWaits(s) ==
  /\ At(s, Uses, "queued")
  /\ Exists(s) /\ s \notin stops
  /\ entry[s] # 0
  /\ life[s] \in {"starting", "ready"} \/ Admits(s)
  /\ step' = [step EXCEPT ![s] = "waiting"]
  /\ UNCHANGED <<rows, entries, ops, target, stops, boots, failing, deletion, daemon, errors, live>>

\* Stopping, failed without capacity, or no row: there is no Screen.
UseRefused(s) ==
  /\ At(s, Uses, "queued")
  /\ ~Admits(s)
  /\ ~Exists(s) \/ s \in stops \/ life[s] \in {"stopped", "failed"} \/ entry[s] = 0
  /\ OpEnds(s)
  /\ UNCHANGED <<rows, entries, stops, boots, failing, deletion, daemon, errors, live>>

\* The start has settled: the operation runs on the runtime of the entry
\* of that moment, or finds none.
UseRuns(s) ==
  /\ At(s, Uses, "waiting")
  /\ boot[s] = 0
  /\ IF entry[s] # 0 /\ installed[s] # "no" /\ (Exists(s) \/ Kind(s) = "capture")
     THEN /\ step' = [step EXCEPT ![s] = "using"]
          /\ target' = [target EXCEPT ![s] = entry[s]]
          /\ UNCHANGED ops
     ELSE OpEnds(s)
  /\ UNCHANGED <<rows, entries, stops, boots, failing, deletion, daemon, errors, live>>

UseEnds(s) ==
  /\ At(s, Uses, "using")
  /\ OpEnds(s)
  /\ UNCHANGED <<rows, entries, stops, boots, failing, deletion, daemon, errors, live>>

\* #invoke: an error of the runtime fails it, and the operation waits for
\* its stop.
UseFails(s) ==
  /\ At(s, {"capture"}, "using")
  /\ entry[s] = target[s]
  /\ Fail(s)
  /\ step' = [step EXCEPT ![s] = "failing"]
  /\ UNCHANGED <<ops, target, stops, boots, deletion, daemon, errors, live>>

UseFailed(s) ==
  /\ At(s, Uses, "failing")
  /\ target[s] \notin failing[s]
  /\ OpEnds(s)
  /\ UNCHANGED <<rows, entries, stops, boots, failing, deletion, daemon, errors, live>>

---------------------------------------------------------------------------
(* #stop and destroy                                                       *)

\* A stop that is under way is joined, otherwise one is queued.
QueueStop(S) ==
  /\ stops' = stops \cup S
  /\ ops' = [s \in Surfaces |-> IF s \in S \ stops THEN Append(ops[s], "stop") ELSE ops[s]]

\* #stopSurface drops the entry and waits for its start, if it is pending.
StopBegins(s) ==
  /\ At(s, {"stop"}, "queued")
  /\ entry' = [entry EXCEPT ![s] = 0]
  /\ step' = [step EXCEPT ![s] = "stopping"]
  /\ target' = [target EXCEPT ![s] = entry[s]]
  /\ UNCHANGED <<rows, installed, cleanup, ops, stops, boots, failing, deletion, daemon, errors, live>>

Targets(s) == ({target[s]} \cup {cleanup[s]}) \ {0}

\* Every runtime found is stopped, then the Screen is stopped.
StopSucceeds(s) ==
  /\ At(s, {"stop"}, "stopping")
  /\ target[s] = 0 \/ boot[s] # target[s]
  /\ live' = [live EXCEPT ![s] = @ \ Targets(s)]
  /\ cleanup' = [cleanup EXCEPT ![s] = 0]
  /\ life' = [life EXCEPT ![s] = IF Exists(s) THEN "stopped" ELSE @]
  /\ OpEnds(s)
  /\ stops' = stops \ {s}
  /\ deletion' = [deletion EXCEPT ![s] = IF @ = "stopping" THEN "destroying" ELSE @]
  /\ UNCHANGED <<gen, entry, installed, boots, failing, daemon, errors>>

\* A stop() rejects: the runtime is retained and the Screen has failed.
Retained(s) == IF cleanup[s] # 0 THEN cleanup[s] ELSE target[s]
StopFails(s) ==
  /\ At(s, {"stop"}, "stopping")
  /\ target[s] = 0 \/ boot[s] # target[s]
  /\ \E g \in Targets(s) : StopRejects(s, g)
  /\ cleanup' = [cleanup EXCEPT ![s] = Retained(s)]
  /\ life' = [life EXCEPT ![s] = IF Exists(s) THEN "failed" ELSE @]
  /\ OpEnds(s)
  /\ stops' = stops \ {s}
  /\ deletion' = [deletion EXCEPT ![s] = "none"]
  /\ UNCHANGED <<gen, entry, installed, boots, failing, daemon>>

\* BotDeletionService.delete reaches screens.destroy.
Delete(s) ==
  /\ Deletes /\ Serving
  /\ Exists(s) /\ deletion[s] = "none"
  /\ Len(ops[s]) < MaxQueue
  /\ deletion' = [deletion EXCEPT ![s] = "stopping"]
  /\ QueueStop({s})
  /\ UNCHANGED <<rows, entries, step, target, boots, failing, daemon, errors, live>>

\* adapter.destroy removes whatever the Surface still runs, or fails.
AdapterDestroys(s) ==
  /\ deletion[s] = "destroying"
  /\ \/ /\ live' = [live EXCEPT ![s] = {}]
        /\ deletion' = [deletion EXCEPT ![s] = "cleaned"]
        /\ UNCHANGED life
     \/ /\ deletion' = [deletion EXCEPT ![s] = "none"]
        /\ life' = [life EXCEPT ![s] = "failed"]
        /\ UNCHANGED live
  /\ UNCHANGED <<gen, entries, queues, boots, failing, daemon, errors>>

\* Files are removed and the rows are deleted in one transaction, or the
\* deletion failed and may be retried.
DeletionEnds(s) ==
  /\ deletion[s] = "cleaned"
  /\ \E left \in {"gone", life[s]} : life' = [life EXCEPT ![s] = left]
  /\ deletion' = [deletion EXCEPT ![s] = "none"]
  /\ UNCHANGED <<gen, entries, queues, boots, failing, daemon, errors, live>>

\* shutdown(): every Surface the manager knows of is stopped.
Known == {s \in Surfaces : entry[s] # 0 \/ cleanup[s] # 0 \/ s \in stops \/ ops[s] # <<>>}
StopAll ==
  /\ Serving
  /\ starts < MaxStarts
  /\ \A s \in Known : Len(ops[s]) < MaxQueue
  /\ Known # {}
  /\ QueueStop(Known)
  /\ UNCHANGED <<rows, entries, step, target, boots, failing, deletion, daemon, errors, live>>

---------------------------------------------------------------------------
(* Restart                                                                 *)

RecoverableReady == {s \in Surfaces : life[s] \in {"ready", "failed"}}
Recoverable == {s \in Surfaces : life[s] \in {"starting", "ready", "failed"}}

\* The daemon ends at any moment (after stop(), detach() or a crash) and a
\* new one begins: memory is gone, runtimes keep running.  A start that
\* was under way leaves processes behind or not.
Restart ==
  /\ starts < MaxStarts
  /\ starts' = starts + 1
  /\ \E order \in [1..Cardinality(Recoverable) -> Recoverable] :
       /\ \A i, j \in DOMAIN order : order[i] = order[j] => i = j
       /\ recovering' = order
  /\ began' = FALSE
  /\ \E left \in SUBSET {s \in Surfaces : booting[s] = "starting"} :
       live' = [s \in Surfaces |-> IF s \in left THEN {boot[s]} ELSE live[s]]
  /\ entry' = [s \in Surfaces |-> 0]
  /\ installed' = [s \in Surfaces |-> "no"]
  /\ cleanup' = [s \in Surfaces |-> 0]
  /\ stops' = {}
  /\ ops' = [s \in Surfaces |-> <<>>]
  /\ step' = [s \in Surfaces |-> "queued"]
  /\ target' = [s \in Surfaces |-> 0]
  /\ boot' = [s \in Surfaces |-> 0]
  /\ booting' = [s \in Surfaces |-> "none"]
  /\ stale' = [s \in Surfaces |-> {}]
  /\ failing' = [s \in Surfaces |-> {}]
  /\ deletion' = [s \in Surfaces |-> "none"]
  /\ UNCHANGED <<rows, errors>>

\* recover() visits a row: adapter.reconcile hands back the runtime of the
\* row's generation, or discards what it finds.
Visit(s) == recovering # <<>> /\ Head(recovering) = s /\ ~began
Full == Cardinality(Reserved) >= Capacity

RecoverAdopts(s) ==
  /\ Visit(s)
  /\ gen[s] \in live[s] /\ life[s] # "failed" /\ ~Full
  /\ entry' = [entry EXCEPT ![s] = gen[s]]
  /\ installed' = [installed EXCEPT ![s] = "yes"]
  /\ life' = [life EXCEPT ![s] = "ready"]
  /\ recovering' = Tail(recovering)
  /\ UNCHANGED <<gen, cleanup, queues, boots, failing, deletion, began, starts, errors, live>>

\* A failed row stays failed and a row beyond the capacity is stopped: the
\* runtime found is stopped, and an error of that stop is ignored.
RecoverDrops(s) ==
  /\ Visit(s)
  /\ life[s] = "failed" \/ Full
  /\ life' = [life EXCEPT ![s] = IF @ = "failed" THEN "failed" ELSE "stopped"]
  /\ \/ live' = [live EXCEPT ![s] = {}] /\ UNCHANGED errors
     \/ StopRejects(s, gen[s])
  /\ recovering' = Tail(recovering)
  /\ UNCHANGED <<gen, entries, queues, boots, failing, deletion, began, starts>>

\* Nothing to adopt: a fresh generation is started, and recover() waits
\* for it before the next row.
RecoverStarts(s) ==
  /\ Visit(s)
  /\ life[s] # "failed" /\ ~Full
  /\ Begin(s)
  /\ live' = [live EXCEPT ![s] = {}]
  /\ began' = TRUE
  /\ UNCHANGED <<queues, failing, deletion, recovering, starts, errors>>

RecoverContinues ==
  /\ began
  /\ boot[Head(recovering)] = 0
  /\ began' = FALSE
  /\ recovering' = Tail(recovering)
  /\ UNCHANGED <<rows, entries, queues, boots, failing, deletion, starts, errors, live>>

---------------------------------------------------------------------------

Boot(s) == BootCleans(s) \/ BootSucceeds(s) \/ BootFails(s)
Use(s) == UseOpens(s) \/ UseWaits(s) \/ UseRefused(s) \/ UseRuns(s) \/ UseEnds(s)
            \/ UseFails(s) \/ UseFailed(s)
Stop(s) == StopBegins(s) \/ StopSucceeds(s) \/ StopFails(s)
Recover(s) == RecoverAdopts(s) \/ RecoverDrops(s) \/ RecoverStarts(s)

Next ==
  \/ \E s \in Surfaces :
       \/ Open(s) \/ Boot(s) \/ StaleStops(s)
       \/ RuntimeExits(s) \/ FailedStops(s)
       \/ (\E kind \in Uses : Request(s, kind)) \/ Use(s)
       \/ Stop(s) \/ Delete(s) \/ AdapterDestroys(s) \/ DeletionEnds(s)
       \/ Recover(s)
  \/ StopAll \/ Restart \/ RecoverContinues

Spec == Init /\ [][Next]_vars

\* Every call of the adapter settles and the daemon's callbacks run; what
\* runs on a Screen may take for ever.
Fairness ==
  \A s \in Surfaces :
    /\ WF_vars(Boot(s)) /\ WF_vars(StaleStops(s)) /\ WF_vars(FailedStops(s))
    /\ WF_vars(StopSucceeds(s) \/ StopFails(s)) /\ WF_vars(Recover(s))
    /\ WF_vars(RecoverContinues)
FairSpec == Spec /\ Fairness

---------------------------------------------------------------------------
(* Properties                                                              *)

Unrecovered == {recovering[i] : i \in DOMAIN recovering}

\* "leave no orphan process": every runtime that runs is one the manager
\* still knows of and counts: its entry, a retained failed runtime, one
\* that is being stopped, or one that recover() has yet to visit.  The
\* manager asks for a runtime only when no earlier one of that Surface
\* runs: a retained failed runtime has been stopped before, and a stop has
\* waited for the start it overtook.
NoOrphans ==
  \A s \in Surfaces :
    /\ \A g \in live[s] :
         \/ entry[s] = g \/ cleanup[s] = g \/ s \in stops \/ boot[s] # 0
         \/ s \in Unrecovered
    /\ booting[s] = "starting" => live[s] = {}

\* "rejects admission ... when measured capacity is full": Screens that
\* hold or start a runtime never exceed the capacity.
CapacityHolds ==
  Cardinality({s \in Surfaces : live[s] # {} \/ booting[s] = "starting"}) <= Capacity

\* No runtime escapes the manager's books, nor the capacity they are kept for.
RuntimesAreCounted == NoOrphans /\ CapacityHolds

\* A Screen that the database shows ready has the running, installed
\* runtime of its generation, and one that is starting has a pending
\* start, unless it is being stopped or not yet recovered.  A retained
\* failed runtime runs: none that has stopped holds capacity.
ShownIsReal ==
  TypeOK /\
  \A s \in Surfaces :
    /\ s \notin stops \cup Unrecovered =>
         /\ life[s] = "ready" => /\ entry[s] = gen[s] /\ installed[s] = "yes"
                                 /\ gen[s] \in live[s]
         /\ life[s] = "starting" => entry[s] = gen[s] /\ boot[s] = gen[s]
    /\ cleanup[s] # 0 => cleanup[s] \in live[s]

\* Every start is settled, also when a deletion, a failure or a restart
\* overtakes it.
EveryStartSettles == \A s \in Surfaces : life[s] = "starting" ~> life[s] # "starting"

\* .scratch/bot-screens/spec.md:75: deletion tears down the Screen "so that
\* no compositor, worker, helper, socket ... remains".
DeletedHasNoScreen ==
  \A s \in Surfaces : life[s] = "gone" => live[s] = {}
=============================================================================
