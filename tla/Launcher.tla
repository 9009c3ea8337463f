------------------------------- MODULE Launcher -------------------------------
(* The desktop plugin: the shell starts launch.sh, which builds the plugin's    *)
(* revision of the app and becomes supervise.ts, which runs the daemon behind a *)
(* pipe.  The shell may kill a launch and start the next one at any moment.     *)
(* One lock, taken by launch.sh, is shared by all processes that inherit its    *)
(* descriptor, and is free when the last of them has ended.                     *)
EXTENDS Naturals, FiniteSets

CONSTANTS Launches,   \* bound: the launches the shell makes
          Commits     \* the revisions of the plugin

VARIABLES launch,    \* a launch: where its process is, the revision it runs
          builder,   \* the launches whose download or build still runs
          server,    \* the daemon of a launch
          apps,      \* the revisions whose directory is complete, as its marker says
          stages     \* the launches whose staging directory is there

launcherVars == <<launch, builder, server, apps, stages>>

Places == {"none", "locking", "checking", "building", "sweeping", "supervising", "stopping", "ended",
           "killed"}
Gone == {"ended", "killed"}

LauncherTypeOK ==
  /\ launch \in [Launches -> [at : Places, commit : Commits]]
  /\ builder \subseteq Launches /\ stages \subseteq Launches
  /\ server \in [Launches -> {"none", "starting", "running", "stopping", "ended"}]
  /\ apps \subseteq Commits

\* What an earlier life of the plugin left: complete apps, at most, and abandoned stages.
LauncherInit ==
  /\ launch \in {[l \in Launches |-> [at |-> "none", commit |-> c]] : c \in Commits}
  /\ builder = {}
  /\ server = [l \in Launches |-> "none"]
  /\ apps \in SUBSET Commits
  /\ stages = {}

Serves(l) == server[l] \in {"starting", "running", "stopping"}

\* Mutant: the daemon is started without the lock's descriptor.
HoldsWithoutDaemon(l) ==
  \/ launch[l].at \in {"checking", "building", "sweeping", "supervising", "stopping"}
  \/ l \in builder

\* The processes that inherited the lock's descriptor: the launch, what it builds with, the daemon.
Holds(l) ==
  \/ launch[l].at \in {"checking", "building", "sweeping", "supervising", "stopping"}
  \/ l \in builder
  \/ Serves(l)

To(l, at) == launch' = [launch EXCEPT ![l].at = at]

-----------------------------------------------------------------------------
(* launch.sh                                                                  *)

\* The shell runs launch.sh, which waits for the lock. One launch is run at a time: the one before
\* has ended, or was killed.
ShellStarts(l) ==
  /\ launch[l].at = "none"
  /\ \A k \in Launches : launch[k].at \in {"none"} \cup Gone
  /\ To(l, "locking")
  /\ UNCHANGED <<builder, server, apps, stages>>

Locks(l) ==
  /\ launch[l].at = "locking" /\ ~\E k \in Launches : Holds(k)
  /\ To(l, "checking")
  /\ UNCHANGED <<builder, server, apps, stages>>

\* The revision is read under the lock. A complete app is used; whatever else is in its place is
\* removed, and the app made in a stage. Without Bun the launch ends before.
Checks(l) ==
  /\ launch[l].at = "checking"
  /\ \/ \E c \in Commits :
          /\ launch' = [launch EXCEPT ![l] = [at |-> IF c \in apps THEN "sweeping" ELSE "building",
                                              commit |-> c]]
          /\ builder' = builder \cup {k \in {l} : c \notin apps}
          /\ stages' = stages \cup {k \in {l} : c \notin apps}
     \/ To(l, "ended") /\ UNCHANGED <<builder, stages>>
  /\ UNCHANGED <<server, apps>>

\* The app was downloaded or built: its marker is written and the stage renamed. Or it was not, and
\* the stage is removed on the way out.
Built(l) ==
  /\ launch[l].at = "building"
  /\ builder' = builder \ {l} /\ stages' = stages \ {l}
  /\ \/ apps' = apps \cup {launch[l].commit} /\ To(l, "sweeping")
     \/ apps' = apps /\ To(l, "ended")
  /\ UNCHANGED server

\* Every other directory is removed, and the process becomes the supervisor.
Sweeps(l) ==
  /\ launch[l].at = "sweeping"
  /\ apps' = apps \cap {launch[l].commit} /\ stages' = {}
  /\ To(l, "supervising")
  /\ server' = [server EXCEPT ![l] = "starting"]
  /\ UNCHANGED builder

-----------------------------------------------------------------------------
(* supervise.ts                                                               *)

\* A signal: the pipe of the daemon is closed, whose end the supervisor awaits.
SupervisorStops(l) ==
  /\ launch[l].at = "supervising"
  /\ To(l, "stopping")
  /\ UNCHANGED <<builder, server, apps, stages>>

SupervisorEnds(l) ==
  /\ launch[l].at \in {"supervising", "stopping"} /\ server[l] = "ended"
  /\ To(l, "ended")
  /\ UNCHANGED <<builder, server, apps, stages>>

\* The shell destroys its process by SIGKILL, at any moment. What the process had started goes on,
\* the download of Bun among it.
ShellKills(l) ==
  /\ launch[l].at \notin {"none"} \cup Gone
  /\ To(l, "killed")
  /\ builder' \in {builder, builder \cup {k \in {l} : launch[l].at = "checking"}}
  /\ UNCHANGED <<server, apps, stages>>

\* A download or build whose launch is gone ends, without effect on the app's place.
BuilderEnds(l) ==
  /\ l \in builder /\ launch[l].at = "killed"
  /\ builder' = builder \ {l}
  /\ UNCHANGED <<launch, server, apps, stages>>

-----------------------------------------------------------------------------
(* The daemon, and daemon-lifetime.ts in it.                                  *)

\* The daemon has started and installed its handlers.
DaemonReady(l) ==
  /\ server[l] = "starting"
  /\ server' = [server EXCEPT ![l] = "running"]
  /\ UNCHANGED <<launch, builder, apps, stages>>

\* The pipe has ended, by a stop or with its supervisor: the daemon gets a signal, which ends it at
\* once while nothing handles it, and makes it clean up later.
LifelineEnds(l) ==
  /\ launch[l].at \in {"stopping"} \cup Gone
  /\ server[l] \in {"starting", "running"}
  /\ server' = [server EXCEPT ![l] = IF @ = "starting" THEN "ended" ELSE "stopping"]
  /\ UNCHANGED <<launch, builder, apps, stages>>

\* The daemon ends: after its clean-up, or because it failed.
DaemonEnds(l) ==
  /\ Serves(l)
  /\ server' = [server EXCEPT ![l] = "ended"]
  /\ UNCHANGED <<launch, builder, apps, stages>>

LauncherNext ==
  \E l \in Launches :
    \/ ShellStarts(l) \/ Locks(l) \/ Checks(l) \/ Built(l) \/ Sweeps(l)
    \/ SupervisorStops(l) \/ SupervisorEnds(l) \/ ShellKills(l) \/ BuilderEnds(l)
    \/ DaemonReady(l) \/ LifelineEnds(l) \/ DaemonEnds(l)

LauncherSpec == LauncherInit /\ [][LauncherNext]_launcherVars

-----------------------------------------------------------------------------
(* Properties.                                                                *)

\* "The startup lock remains held until" the daemon has ended (README.md:51): whenever launches are
\* killed and started, there is one daemon, its app stays complete, and nobody works beside it.
OneDaemon ==
  /\ LauncherTypeOK
  /\ Cardinality({l \in Launches : Serves(l)}) <= 1
  /\ \A l \in Launches : Serves(l) =>
       /\ launch[l].commit \in apps
       /\ \A k \in Launches \ {l} : ~Holds(k)
=============================================================================
