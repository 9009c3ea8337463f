---------------------------- MODULE SwayComputer ----------------------------
(***************************************************************************)
(* The shared Bot Computer (swayBotScreenRuntime.ts): one Sway compositor, *)
(* with a desktop process on an output of its own for each Bot Screen. The *)
(* adapter's lifecycle operations run one at a time (#serializeLifecycle); *)
(* between two of their steps a process may exit and the daemon may end.   *)
(* What a daemon left running is found again through state files.          *)
(*                                                                         *)
(* The rows of bot_surfaces and recover() are botScreenManager.ts, as far  *)
(* as they decide which operations the adapter is asked for. A compositor  *)
(* is named by its generation; the compositor stands for Sway and its      *)
(* session bus. Input helpers and workers end with the daemon's pipes.     *)
(***************************************************************************)
EXTENDS Naturals, Sequences, FiniteSets

CONSTANTS Surfaces,
          Capacity,      \* outputs of the compositor, and Screens the manager admits
          MaxGeneration, \* runtime generations of a Surface
          MaxComputers,  \* compositors started
          MaxRestarts,   \* ends of the daemon
          UnitsEnabled   \* processes are systemd units, found again by name

ASSUME SwayAssumption ==
  /\ IsFiniteSet(Surfaces) /\ Surfaces # {} /\ UnitsEnabled \in BOOLEAN
  /\ {Capacity, MaxGeneration, MaxComputers, MaxRestarts} \subseteq Nat

Outputs == 1..Capacity
Generations == 1..MaxGeneration
Computers == 1..MaxComputers
Nothing == [gen |-> 0, comp |-> 0, out |-> 0]
Trees == [gen : 0..MaxGeneration, comp : 0..MaxComputers, out : 0..Capacity]

VARIABLES
  row,      \* bot_surfaces: lifecycle_state and runtime_generation, and who changed longest ago;
            \* a stopped row whose Bot's deletion asked the adapter to destroy it is "deleting"
  mem,      \* #sessions
  computer, \* #computer, and its surfaceIds
  files,    \* the state file of each Surface, and the directory and state file of the computer
  desktops, \* desktop processes that run
  sway,     \* compositors that run, and how many were started
  op,       \* the lifecycle operation under way
  daemon    \* up, recovering the rows listed, or down

swayVars == <<row, mem, computer, files, desktops, sway, op, daemon>>

Desktop(s, t) == [s |-> s, gen |-> t.gen, comp |-> t.comp, out |-> t.out]
Kinds == {"none", "start", "cleanup", "stop", "destroy", "reconcile"}
Steps == {"idle", "stopCurrent", "removeFiles", "stopComputer", "removeComputer", "stopUnits",
          "ensure", "spawnSway", "waitSway", "allocate", "waitDesktop", "reattach", "capture",
          "discard", "kill", "done"}

SwayTypeOK ==
  /\ row \in [Surfaces -> [state : {"stopped", "starting", "ready", "failed", "deleting"},
                           gen : 0..MaxGeneration, at : 0..Cardinality(Surfaces)]]
  /\ mem \in [Surfaces -> Trees]
  /\ computer \in [gen : 0..MaxComputers, surfaces : SUBSET Surfaces]
  /\ files \in [surface : [Surfaces -> Trees], dir : 0..MaxComputers, state : 0..MaxComputers]
  /\ desktops \subseteq [s : Surfaces, gen : Generations, comp : Computers, out : Outputs]
  /\ sway \in [alive : SUBSET Computers, last : 0..MaxComputers]
  /\ op \in [kind : Kinds, s : Surfaces, pc : Steps, tree : Trees, failed : BOOLEAN]
  /\ daemon \in [state : {"up", "recovering", "down"}, todo : Seq(Surfaces),
                 restarts : 0..MaxRestarts]

AnySurface == CHOOSE s \in Surfaces : TRUE
NoOp == [kind |-> "none", s |-> AnySurface, pc |-> "idle", tree |-> Nothing, failed |-> FALSE]

SwayInit ==
  /\ row = [s \in Surfaces |-> [state |-> "stopped", gen |-> 0, at |-> 0]]
  /\ mem = [s \in Surfaces |-> Nothing]
  /\ computer = [gen |-> 0, surfaces |-> {}]
  /\ files = [surface |-> [s \in Surfaces |-> Nothing], dir |-> 0, state |-> 0]
  /\ desktops = {}
  /\ sway = [alive |-> {}, last |-> 0]
  /\ op = NoOp
  /\ daemon = [state |-> "up", todo |-> <<>>, restarts |-> 0]

-----------------------------------------------------------------------------
(* Rows *)

\* #transition: s becomes the row that changed last.
Transition(rows, s, state) ==
  LET old == rows[s].at
      Moved(t) == IF old # 0 /\ rows[t].at > old THEN rows[t].at - 1 ELSE rows[t].at
      newest == Cardinality({t \in Surfaces \ {s} : rows[t].at # 0}) + 1
  IN [t \in Surfaces |-> IF t = s THEN [rows[s] EXCEPT !.state = state, !.at = newest]
                         ELSE [rows[t] EXCEPT !.at = Moved(t)]]

\* #start: the next generation is asked for.
Starting(rows, s) == Transition([rows EXCEPT ![s].gen = @ + 1], s, "starting")

\* #reservedCapacity, of the other Surfaces: a Surface keeps its place until its stop has ended,
\* and one that recover has still to reconcile has none.
BeingStopped(t) == op.s = t /\ op.kind \in {"stop", "cleanup"}
Unreconciled(t) == \E i \in DOMAIN daemon.todo : daemon.todo[i] = t
Reserved(s) ==
  Cardinality({t \in Surfaces \ {s} :
                 \/ mem[t] # Nothing \/ BeingStopped(t)
                 \/ row[t].state = "starting" /\ ~Unreconciled(t)})

ComputerRunning == computer.gen # 0 /\ computer.gen \in sway.alive
Claimed(out) == \E s \in Surfaces : mem[s].out = out
Begin(kind, s, pc) ==
  op' = [kind |-> kind, s |-> s, pc |-> pc, tree |-> mem[s], failed |-> FALSE]
Goto(pc) == op' = [op EXCEPT !.pc = pc]

\* Where an operation goes on once its session, and with it perhaps the computer, is stopped.
AfterStop == CASE op.failed -> "done"
               [] op.kind = "start" -> "stopUnits"
               [] op.kind = "reconcile" -> "reattach"
               [] OTHER -> "done"

-----------------------------------------------------------------------------
(* The manager asks for operations. *)

Idle == daemon.state = "up" /\ op = NoOp

\* open: a stopped or failed Screen is started if a place is left (what comes of one that is
\* opened while it is destroyed is BotScreens' subject).
Open(s) ==
  /\ daemon.state = "up" /\ row[s].state \in {"stopped", "failed", "deleting"}
  /\ Reserved(s) < Capacity /\ ~(op # NoOp /\ op.s = s)
  /\ row[s].gen + MaxRestarts < MaxGeneration + daemon.restarts  \* Bound: recovery starts one more.
  /\ row' = Starting(row, s)
  /\ UNCHANGED <<mem, computer, files, desktops, sway, op, daemon>>

\* adapter.start: what the Surface still runs is stopped first.
StartBegins(s) ==
  /\ Idle /\ row[s].state = "starting"
  /\ Begin("start", s, IF mem[s] # Nothing THEN "stopCurrent" ELSE "stopUnits")
  /\ UNCHANGED <<row, mem, computer, files, desktops, sway, daemon>>

\* The runtime's outcome, a process of it or a helper having exited: #failRuntime.
RuntimeFails(s) ==
  /\ daemon.state \in {"up", "recovering"} /\ row[s].state = "ready" /\ mem[s] # Nothing
  /\ ~(op # NoOp /\ op.s = s)
  /\ row' = Transition(row, s, "failed")
  /\ UNCHANGED <<mem, computer, files, desktops, sway, op, daemon>>

\* runtime.stop, of a failed runtime by #failRuntime, and of any by the manager's stop.
StopBegins(s) ==
  /\ op = NoOp /\ mem[s] # Nothing /\ row[s].state \in {"ready", "failed"}
  /\ \/ /\ daemon.state \in {"up", "recovering"} /\ row[s].state = "failed"
        /\ Begin("cleanup", s, "stopCurrent")
     \/ /\ daemon.state = "up"
        /\ Begin("stop", s, "stopCurrent")
  /\ UNCHANGED <<row, mem, computer, files, desktops, sway, daemon>>

\* destroy, of the deletion of a Bot: what was attached has been stopped before (StopBegins), and
\* any row says stopped before the adapter is asked. A deletion that the daemon's end interrupts
\* may be tried again.
DestroyBegins(s) ==
  /\ Idle /\ row[s].state # "starting" /\ mem[s] = Nothing
  /\ row' = Transition(row, s, "deleting")
  /\ Begin("destroy", s, "kill")
  /\ UNCHANGED <<mem, computer, files, desktops, sway, daemon>>

-----------------------------------------------------------------------------
(* #stopSession and #stopComputer *)

StopCurrent ==
  /\ op.pc = "stopCurrent"
  /\ mem' = [mem EXCEPT ![op.s] = Nothing]
  /\ desktops' = {d \in desktops : d # Desktop(op.s, op.tree)
                                   /\ ~(UnitsEnabled /\ d.s = op.s /\ d.gen = op.tree.gen)}
  /\ Goto("removeFiles")
  /\ UNCHANGED <<row, computer, files, sway, daemon>>

\* Mutant: the compositor is stopped with any of its Surfaces.
RemoveFilesStopping ==
  /\ op.pc = "removeFiles"
  /\ files' = [files EXCEPT !.surface[op.s] = Nothing]
  /\ IF op.tree.comp # computer.gen
       THEN Goto(AfterStop) /\ UNCHANGED computer
       ELSE computer' = [computer EXCEPT !.surfaces = @ \ {op.s}] /\ Goto("stopComputer")
  /\ UNCHANGED <<row, mem, desktops, sway, daemon>>

RemoveFiles ==
  /\ op.pc = "removeFiles"
  /\ files' = [files EXCEPT !.surface[op.s] = Nothing]
  /\ IF op.tree.comp # computer.gen
       THEN Goto(AfterStop) /\ UNCHANGED computer
       ELSE /\ computer' = [computer EXCEPT !.surfaces = @ \ {op.s}]
            /\ Goto(IF computer.surfaces \subseteq {op.s} THEN "stopComputer" ELSE AfterStop)
  /\ UNCHANGED <<row, mem, desktops, sway, daemon>>

\* Every process of the computer's runtime directory ends.
StopComputer ==
  /\ op.pc = "stopComputer"
  /\ sway' = [sway EXCEPT !.alive = @ \ {computer.gen}]
  /\ desktops' = {d \in desktops : d.comp # computer.gen}
  /\ computer' = [gen |-> 0, surfaces |-> {}]
  /\ Goto("removeComputer")
  /\ UNCHANGED <<row, mem, files, daemon>>

RemoveComputer ==
  /\ op.pc = "removeComputer"
  /\ files' = [files EXCEPT !.dir = 0, !.state = 0]
  /\ Goto(AfterStop)
  /\ UNCHANGED <<row, mem, computer, desktops, sway, daemon>>

\* units.stop, of every generation of the Surface.
StopUnits ==
  /\ op.pc = "stopUnits"
  /\ desktops' = {d \in desktops : ~(UnitsEnabled /\ d.s = op.s)}
  /\ Goto("ensure")
  /\ UNCHANGED <<row, mem, computer, files, sway, daemon>>

\* destroy
Kill ==
  /\ op.pc = "kill"
  /\ desktops' = {d \in desktops : ~(UnitsEnabled /\ d.s = op.s)}
  /\ files' = [files EXCEPT !.surface[op.s] = Nothing]
  /\ Goto("done")
  /\ UNCHANGED <<row, mem, computer, sway, daemon>>

-----------------------------------------------------------------------------
(* #ensureComputer and #startComputer *)

\* #reattachComputer finds what the state file says, or removes what is left of a computer.
Reattachable == files.state # 0 /\ files.state \in sway.alive
DiscardComputer ==
  /\ sway' = [sway EXCEPT !.alive = {}]
  /\ desktops' = {d \in desktops : d.comp # files.dir}
  /\ files' = [files EXCEPT !.dir = 0, !.state = 0]

EnsureComputer ==
  /\ op.pc = "ensure"
  /\ \/ /\ ComputerRunning
        /\ Goto("allocate") /\ UNCHANGED <<computer, files, desktops, sway>>
     \/ /\ computer.gen # 0 /\ ~ComputerRunning
        /\ Goto("stopComputer") /\ UNCHANGED <<computer, files, desktops, sway>>
     \/ /\ computer.gen = 0 /\ Reattachable
        /\ computer' = [gen |-> files.state, surfaces |-> {}]
        /\ Goto("allocate") /\ UNCHANGED <<files, desktops, sway>>
     \/ /\ computer.gen = 0 /\ ~Reattachable
        /\ DiscardComputer
        /\ Goto("spawnSway") /\ UNCHANGED computer
  /\ UNCHANGED <<row, mem, daemon>>

Fails == op' = [op EXCEPT !.failed = TRUE, !.pc = "done"]

SpawnSway ==
  /\ op.pc = "spawnSway"
  /\ IF sway.last < MaxComputers
       THEN /\ sway' = [alive |-> sway.alive \cup {sway.last + 1}, last |-> sway.last + 1]
            /\ files' = [files EXCEPT !.dir = sway.last + 1]
            /\ Goto("waitSway")
       ELSE Fails /\ UNCHANGED <<sway, files>>  \* Bound: no more compositors.
  /\ UNCHANGED <<row, mem, computer, desktops, daemon>>

SwayReady ==
  /\ op.pc = "waitSway"
  /\ \/ /\ sway.last \in sway.alive
        /\ computer' = [gen |-> sway.last, surfaces |-> {}]
        /\ files' = [files EXCEPT !.state = sway.last]
        /\ Goto("allocate") /\ UNCHANGED sway
     \/ /\ sway' = [sway EXCEPT !.alive = @ \ {sway.last}]
        /\ files' = [files EXCEPT !.dir = 0, !.state = 0]
        /\ Fails /\ UNCHANGED computer
  /\ UNCHANGED <<row, mem, desktops, daemon>>

-----------------------------------------------------------------------------
(* #startSurface *)

Free == {out \in Outputs : ~Claimed(out)}
Lowest == CHOOSE out \in Free : \A other \in Free : out <= other

\* #allocateOutput, and the desktop is spawned on it; the files of older generations go.
Allocate ==
  /\ op.pc = "allocate"
  /\ IF Free = {} THEN Fails /\ UNCHANGED <<files, desktops>>
     ELSE LET t == [gen |-> row[op.s].gen, comp |-> computer.gen, out |-> Lowest]
          IN /\ files' = [files EXCEPT !.surface[op.s] = Nothing]
             /\ desktops' = desktops \cup IF ComputerRunning THEN {Desktop(op.s, t)} ELSE {}
             /\ op' = [op EXCEPT !.pc = "waitDesktop", !.tree = t]
  /\ UNCHANGED <<row, mem, computer, sway, daemon>>

\* Mutant: a desktop that is not ready is waited for without a deadline.
DesktopReadyOnly ==
  /\ op.pc = "waitDesktop" /\ Desktop(op.s, op.tree) \in desktops
  /\ mem' = [mem EXCEPT ![op.s] = op.tree]
  /\ computer' = [computer EXCEPT !.surfaces = @ \cup {op.s}]
  /\ files' = [files EXCEPT !.surface[op.s] = op.tree]
  /\ Goto("done")
  /\ UNCHANGED <<row, desktops, sway, daemon>>

\* The desktop is ready and its session is written down; or what was started is stopped, and
\* with it a computer that has no Surface.
DesktopReady ==
  /\ op.pc = "waitDesktop"
  /\ LET d == Desktop(op.s, op.tree) IN
     \/ /\ d \in desktops
        /\ mem' = [mem EXCEPT ![op.s] = op.tree]
        /\ computer' = [computer EXCEPT !.surfaces = @ \cup {op.s}]
        /\ files' = [files EXCEPT !.surface[op.s] = op.tree]
        /\ Goto("done") /\ UNCHANGED desktops
     \/ /\ desktops' = desktops \ {d}
        /\ files' = [files EXCEPT !.surface[op.s] = Nothing]
        /\ op' = [op EXCEPT !.failed = TRUE,
                            !.pc = IF computer.surfaces = {} THEN "stopComputer" ELSE "done"]
        /\ UNCHANGED <<mem, computer>>
  /\ UNCHANGED <<row, sway, daemon>>

\* The operation is answered: a start by #install or the failure of #start, a stop by
\* #stopSurface, a destroy by the deletion, after which the row is that of a new Bot.
Done ==
  /\ op.pc = "done" /\ op.kind # "reconcile"
  /\ row' = CASE op.kind = "start" -> Transition(row, op.s, IF op.failed THEN "failed" ELSE "ready")
              [] op.kind = "cleanup" -> row
              [] OTHER -> Transition(row, op.s, "stopped")
  /\ op' = NoOp
  /\ UNCHANGED <<mem, computer, files, desktops, sway, daemon>>

-----------------------------------------------------------------------------
(* reconcile, in recover() *)

ReconcileBegins ==
  /\ daemon.state = "recovering" /\ op = NoOp /\ daemon.todo # <<>>
  /\ Begin("reconcile", Head(daemon.todo), "reattach")
  /\ daemon' = [daemon EXCEPT !.todo = Tail(@)]
  /\ UNCHANGED <<row, mem, computer, files, desktops, sway>>

\* The computer of the Surface, running or found again.
Reattach ==
  /\ op.pc = "reattach"
  /\ \/ /\ ComputerRunning
        /\ Goto("capture") /\ UNCHANGED <<computer, files, desktops, sway>>
     \/ /\ computer.gen # 0 /\ ~ComputerRunning
        /\ Goto("stopComputer") /\ UNCHANGED <<computer, files, desktops, sway>>
     \/ /\ computer.gen = 0 /\ Reattachable
        /\ computer' = [gen |-> files.state, surfaces |-> {}]
        /\ Goto("capture") /\ UNCHANGED <<files, desktops, sway>>
     \/ /\ computer.gen = 0 /\ ~Reattachable
        /\ DiscardComputer
        /\ Goto("discard") /\ UNCHANGED computer
  /\ UNCHANGED <<row, mem, daemon>>

\* Mutant: an output that another Surface was given meanwhile is trusted.
TrustedAlways(s) ==
  LET t == files.surface[s] IN
  /\ t # Nothing /\ t.gen = row[s].gen /\ t.comp = computer.gen
  /\ Desktop(s, t) \in desktops

\* #reattachSurface trusts a state file of this generation and computer whose desktop runs on
\* an output nobody claimed; a capture of it may still fail.
Trusted(s) ==
  LET t == files.surface[s] IN
  /\ t # Nothing /\ t.gen = row[s].gen /\ t.comp = computer.gen /\ ~Claimed(t.out)
  /\ Desktop(s, t) \in desktops

ReattachSurface ==
  /\ op.pc = "capture"
  /\ LET t == files.surface[op.s] IN
     \/ /\ Trusted(op.s)
        /\ mem' = [mem EXCEPT ![op.s] = t]
        /\ computer' = [computer EXCEPT !.surfaces = @ \cup {op.s}]
        /\ op' = [op EXCEPT !.pc = "done", !.tree = t]
     \/ /\ Trusted(op.s)
        /\ Goto("discard") /\ UNCHANGED <<mem, computer>>
     \/ /\ ~Trusted(op.s)
        /\ op' = [op EXCEPT !.pc = "done", !.tree = Nothing] /\ UNCHANGED <<mem, computer>>
  /\ UNCHANGED <<row, files, desktops, sway, daemon>>

\* #discardSurfaceFromDisk
DiscardSurface ==
  /\ op.pc = "discard"
  /\ desktops' = {d \in desktops : d # Desktop(op.s, files.surface[op.s])
                                   /\ ~(UnitsEnabled /\ d.s = op.s)}
  /\ files' = [files EXCEPT !.surface[op.s] = Nothing]
  /\ op' = [op EXCEPT !.pc = "done", !.tree = Nothing]
  /\ UNCHANGED <<row, mem, computer, sway, daemon>>

\* What recover does with the answer: a failed row, or one without a place, is stopped again;
\* a runtime that was found is installed; without one the Screen is started afresh.
Reconciled ==
  /\ op.kind = "reconcile" /\ op.pc = "done"
  /\ LET s == op.s
         found == op.tree # Nothing
         dropped == row[s].state = "failed" \/ Reserved(s) >= Capacity
         again(kind, pc) == op' = [op EXCEPT !.kind = kind, !.pc = pc, !.tree = mem[s]]
     IN \/ /\ dropped
           /\ IF found
                THEN /\ again(IF row[s].state = "failed" THEN "cleanup" ELSE "stop", "stopCurrent")
                     /\ UNCHANGED row
                ELSE /\ op' = NoOp
                     /\ row' = Transition(row, s, IF row[s].state = "failed" THEN "failed"
                                                  ELSE "stopped")
        \/ /\ ~dropped /\ found
           /\ row' = Transition(row, s, "ready")
           /\ op' = NoOp
        \/ /\ ~dropped /\ ~found
           /\ row' = Starting(row, s)
           /\ again("start", "stopUnits")
  /\ UNCHANGED <<mem, computer, files, desktops, sway, daemon>>

Recovered ==
  /\ daemon.state = "recovering" /\ op = NoOp /\ daemon.todo = <<>>
  /\ daemon' = [daemon EXCEPT !.state = "up"]
  /\ UNCHANGED <<row, mem, computer, files, desktops, sway, op>>

-----------------------------------------------------------------------------
(* Processes end. *)

DesktopExits ==
  /\ \E d \in desktops : desktops' = desktops \ {d}
  /\ UNCHANGED <<row, mem, computer, files, sway, op, daemon>>

\* The compositor ends, and its clients with it.
CompositorExits(c) ==
  /\ c \in sway.alive
  /\ sway' = [sway EXCEPT !.alive = @ \ {c}]
  /\ desktops' = {d \in desktops : d.comp # c}
  /\ UNCHANGED <<row, mem, computer, files, op, daemon>>

\* The daemon crashes, or ends with detach(): what it supervised goes on.
DaemonEnds ==
  /\ daemon.state # "down" /\ daemon.restarts < MaxRestarts
  /\ daemon' = [state |-> "down", todo |-> <<>>, restarts |-> daemon.restarts + 1]
  /\ mem' = [s \in Surfaces |-> Nothing]
  /\ computer' = [gen |-> 0, surfaces |-> {}]
  /\ op' = NoOp
  /\ UNCHANGED <<row, files, desktops, sway>>

\* recover lists the rows to reconcile, the one that changed longest ago first.
DaemonStarts ==
  /\ daemon.state = "down"
  /\ LET listed == {s \in Surfaces : row[s].state \notin {"stopped", "deleting"}}
         Before(s) == {t \in listed : row[t].at < row[s].at}
     IN daemon' = [daemon EXCEPT !.state = "recovering",
          !.todo = [i \in 1..Cardinality(listed) |->
                      CHOOSE s \in listed : Cardinality(Before(s)) = i - 1]]
  /\ UNCHANGED <<row, mem, computer, files, desktops, sway, op>>

-----------------------------------------------------------------------------
OpStep ==
  \/ StopCurrent \/ RemoveFiles \/ StopComputer \/ RemoveComputer \/ StopUnits \/ Kill
  \/ EnsureComputer \/ SpawnSway \/ SwayReady \/ Allocate \/ DesktopReady \/ Done
  \/ Reattach \/ ReattachSurface \/ DiscardSurface \/ Reconciled

SwayNext ==
  \/ \E s \in Surfaces : Open(s) \/ StartBegins(s) \/ RuntimeFails(s) \/ StopBegins(s)
                         \/ DestroyBegins(s)
  \/ OpStep \/ ReconcileBegins \/ Recovered
  \/ DesktopExits \/ (\E c \in Computers : CompositorExits(c)) \/ DaemonEnds \/ DaemonStarts

SwaySpec == SwayInit /\ [][SwayNext]_swayVars

\* The daemon's own steps are taken: every await in them has a deadline.
SwayFairness ==
  /\ WF_swayVars(OpStep) /\ WF_swayVars(ReconcileBegins \/ Recovered \/ DaemonStarts)
  /\ \A s \in Surfaces : SF_swayVars(StartBegins(s))

SwayFairSpec == SwaySpec /\ SwayFairness
-----------------------------------------------------------------------------
Attached(s) == mem[s] # Nothing /\ Desktop(s, mem[s]) \in desktops

\* Two Bot Screens that are attached never show the same output of a compositor, whatever was
\* found again on disk and whatever was started meanwhile.
OutputsExclusive ==
  \A s, t \in Surfaces : s # t /\ Attached(s) /\ Attached(t) => mem[s].out # mem[t].out

\* Nothing runs that could not be found again: a compositor is one memory or the directory of
\* the computer knows, at every moment the daemon could end.
ComputersAreKnown == sway.alive \subseteq {computer.gen, files.dir, files.state}

\* A Screen that runs can be found again by the next daemon: the state file of an attached
\* session describes it, and the computer's describes its compositor.
AttachedIsWritten ==
  \A s \in Surfaces : Attached(s) => /\ files.surface[s] = mem[s]
                                     /\ mem[s].comp \in sway.alive => files.state = mem[s].comp

\* One daemon never runs two compositors.
OneComputer == Cardinality(sway.alive) <= 1

\* While the daemon is up and has nothing to do, a Screen that is stopped runs no desktop.
StoppedRunsNothing ==
  Idle => \A s \in Surfaces : row[s].state = "stopped" => \A d \in desktops : d.s # s

\* A daemon that ends at any moment can be replaced: its successor finds what runs, uses each
\* output once, and after it has recovered nothing runs that nobody shows. The last part
\* needs UnitsEnabled: a desktop that is not a unit is found by its state file alone, which
\* is written only once it is ready.
ReplaceableDaemon ==
  /\ SwayTypeOK
  /\ OutputsExclusive /\ ComputersAreKnown /\ AttachedIsWritten /\ OneComputer
  /\ UnitsEnabled => StoppedRunsNothing

\* A lifecycle operation never takes the compositor from under another Screen that is
\* attached: only the compositor's own exit does.
SiblingsKeepTheirComputer ==
  [][op' # op => \A s \in Surfaces : Attached(s) /\ mem'[s] = mem[s] => Attached(s)']_swayVars

\* Every start is answered.
EveryStartEnds ==
  \A s \in Surfaces : row[s].state = "starting" ~> row[s].state # "starting"

=============================================================================
