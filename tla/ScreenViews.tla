---------------------------- MODULE ScreenViews ----------------------------
(***************************************************************************)
(* What the viewers of one Bot Screen see: the projection sessions with    *)
(* their control and RFB sockets, preview captures and expanded views      *)
(* (screenProjection.ts), and the WayVNC process which the expanded views  *)
(* of a Surface share (swayBotScreenRuntime.ts).                           *)
(*                                                                         *)
(* A WayVNC process is named by the order in which they are spawned. Its   *)
(* leaseCount is the number of sessions whose view it is; acquires which   *)
(* are not answered yet are pendingExpandedAcquires.                       *)
(***************************************************************************)
EXTENDS Naturals, FiniteSets

CONSTANTS Viewers,    \* projection sessions
          MaxWayvnc   \* WayVNC processes that can be spawned

ASSUME ViewsAssumption == IsFiniteSet(Viewers) /\ MaxWayvnc \in Nat \ {0}

Wayvncs == 1..MaxWayvnc
Modes == {"idle", "preview", "expanded"}

VARIABLES session, \* the projection's sessions
          acquire, \* where the acquireExpandedView of a session stands, and for which WayVNC
          vnc,     \* sharedWayvnc, sharedWayvncStart, sharedWayvncStop and the processes
          running  \* the Screen's runtime is not stopped

viewVars == <<session, acquire, vnc, running>>

Sessions == [state : {"none", "connecting", "open", "failed", "closed"}, mode : Modes,
             control : {"none", "reserved", "open"}, rfb : {"none", "reserved", "open"},
             start : {"no", "clearing", "acquiring", "closing"}, after : SUBSET Viewers,
             view : 0..MaxWayvnc, cleanup : 0..MaxWayvnc,
             timer : BOOLEAN, capture : BOOLEAN, task : BOOLEAN, ending : BOOLEAN]

ViewsTypeOK ==
  /\ session \in [Viewers -> Sessions]
  /\ acquire \in [Viewers -> [at : {"no", "asked", "starting", "connecting", "failing"},
                              wayvnc : 0..MaxWayvnc]]
  /\ vnc \in [shared : 0..MaxWayvnc, start : 0..MaxWayvnc, stop : 0..MaxWayvnc,
              last : 0..MaxWayvnc, alive : SUBSET Wayvncs, stopped : SUBSET Wayvncs]
  /\ running \in BOOLEAN

NewSession == [state |-> "none", mode |-> "idle", control |-> "none", rfb |-> "none",
               start |-> "no", after |-> {}, view |-> 0, cleanup |-> 0,
               timer |-> FALSE, capture |-> FALSE, task |-> FALSE, ending |-> FALSE]
NoAcquire == [at |-> "no", wayvnc |-> 0]

ViewsInit ==
  /\ session = [s \in Viewers |-> NewSession]
  /\ acquire = [s \in Viewers |-> NoAcquire]
  /\ vnc = [shared |-> 0, start |-> 0, stop |-> 0, last |-> 0, alive |-> {}, stopped |-> {}]
  /\ running = TRUE

Present(s) == session[s].state \in {"connecting", "open", "failed"}
Usable(s) == session[s].state \in {"connecting", "open"}
Pending == {s \in Viewers : acquire[s].at # "no"}
Holders(ss, w) == {s \in Viewers : ss[s].view = w}

\* stopSharedWayvnc: at once no new view uses w; the process is gone only later.
Stopping(v, w) ==
  IF w \in v.stopped THEN v
  ELSE [v EXCEPT !.shared = IF @ = w THEN 0 ELSE @, !.stop = w, !.stopped = @ \cup {w}]

\* The sessions become ss: each view that ss no longer holds is closed. The last one of a
\* WayVNC stops it, unless somebody is acquiring, and its session waits for that.
Become(ss) ==
  LET Unused(w) == w # 0 /\ Holders(session, w) # {} /\ Holders(ss, w) = {} /\ Pending = {}
      w0 == vnc.shared
  IN /\ vnc' = IF Unused(w0) THEN Stopping(vnc, w0) ELSE vnc
     /\ session' = [s \in Viewers |->
          LET w == session[s].view IN
          IF w # 0 /\ ss[s].view # w /\ Unused(w) /\ (w = w0 \/ w = vnc.stop)
          THEN [ss[s] EXCEPT !.cleanup = w] ELSE ss[s]]

Only(s, t) == Become([session EXCEPT ![s] = t])

-----------------------------------------------------------------------------
(* Sessions *)

\* #detachRfb with #stopExpandedView
Detached(t) == [t EXCEPT !.rfb = "none", !.view = 0]

\* #close: the captureTask, start and cleanups in flight belong to its termination.
Closed(t) == [Detached(t) EXCEPT !.state = "closed", !.mode = "idle", !.control = "none",
                                 !.timer = FALSE, !.ending = TRUE]

\* #fail: the client is told, and the session closes after a grace period.
Failed(t) == [Detached(t) EXCEPT !.state = "failed", !.mode = "idle", !.timer = FALSE]

\* createSession: needs a live runtime.
CreateSession(s) ==
  /\ session[s].state = "none" /\ running
  /\ Only(s, [NewSession EXCEPT !.state = "connecting"])
  /\ UNCHANGED <<acquire, running>>

\* reserveSocket: one control socket, and one RFB socket for an expanded session.
ReserveSocket(s) ==
  /\ Usable(s)
  /\ \/ /\ session[s].control = "none"
        /\ Only(s, [session[s] EXCEPT !.control = "reserved"])
     \/ /\ session[s].mode = "expanded" /\ session[s].control = "open"
        /\ session[s].rfb = "none"
        /\ Only(s, [session[s] EXCEPT !.rfb = "reserved"])
  /\ UNCHANGED <<acquire, running>>

\* cancelSocketReservation: the upgrade of the connection failed.
CancelReservation(s) ==
  /\ Present(s)
  /\ \/ /\ session[s].control = "reserved"
        /\ Only(s, [session[s] EXCEPT !.control = "none"])
     \/ /\ session[s].rfb = "reserved"
        /\ Only(s, [session[s] EXCEPT !.rfb = "none"])
  /\ UNCHANGED <<acquire, running>>

\* #startRfbView up to its first await: one start at a time.
RfbStarted(t) ==
  IF t.view # 0 \/ t.start # "no" THEN t
  ELSE [t EXCEPT !.start = "clearing", !.after = {o \in Viewers : session[o].ending}]

\* openSocket
OpenControl(s) ==
  /\ Usable(s) /\ session[s].control = "reserved"
  /\ Only(s, [session[s] EXCEPT !.control = "open", !.state = "open"])
  /\ UNCHANGED <<acquire, running>>

OpenRfb(s) ==
  /\ Usable(s) /\ session[s].rfb = "reserved"
  /\ session[s].control = "open" /\ session[s].mode = "expanded"
  /\ Only(s, RfbStarted([session[s] EXCEPT !.rfb = "open"]))
  /\ UNCHANGED <<acquire, running>>

\* socketClosed, close and the attachment timeout: a session ends with its control socket.
\* Without its RFB socket it only loses the expanded view.
ControlClosed(s) ==
  /\ Present(s)
  /\ Only(s, Closed(session[s]))
  /\ UNCHANGED <<acquire, running>>

RfbClosed(s) ==
  /\ Present(s) /\ session[s].rfb = "open"
  /\ Only(s, Detached(session[s]))
  /\ UNCHANGED <<acquire, running>>

\* #setMode: a mode message of the client, the present mode included. Leaving the expanded
\* view detaches it; the preview captures at once (#schedule).
SetViewMode(s, mode) ==
  /\ session[s].state = "open"
  /\ LET t == IF session[s].mode = "expanded" /\ mode # "expanded"
              THEN Detached(session[s]) ELSE session[s]
     IN Only(s, [t EXCEPT !.mode = mode, !.timer = mode = "preview"])
  /\ UNCHANGED <<acquire, running>>

\* The timer of #schedule: #projectFrame captures, waits for the next interval when the socket
\* has no room, or leaves it to the capture in flight, whose task it replaces.
TimerFires(s) ==
  /\ session[s].timer /\ session[s].state = "open"
  /\ LET t == [session[s] EXCEPT !.timer = FALSE, !.task = FALSE] IN
     IF session[s].capture THEN Only(s, t)
     ELSE Only(s, [t EXCEPT !.capture = TRUE, !.task = TRUE])
  /\ UNCHANGED <<acquire, running>>

\* A capture ends within its deadline: the frame is sent to a session still in the preview and
\* the next interval is scheduled, unless it is already; an error fails the session.
CaptureEnds(s) ==
  /\ session[s].capture
  /\ LET t == [session[s] EXCEPT !.capture = FALSE, !.task = FALSE]
     IN \/ Only(s, [t EXCEPT !.timer = @ \/ (t.state = "open" /\ t.mode = "preview")])
        \/ Usable(s) /\ Only(s, Failed(t))
  /\ UNCHANGED <<acquire, running>>

\* The grace period of #fail is over.
FailureDelivered(s) ==
  /\ session[s].state = "failed"
  /\ Only(s, Closed(session[s]))
  /\ UNCHANGED <<acquire, running>>

\* The termination of #close
Terminated(s) ==
  /\ session[s].ending
  /\ ~session[s].task /\ session[s].start = "no" /\ session[s].cleanup = 0
  /\ Only(s, [session[s] EXCEPT !.ending = FALSE])
  /\ UNCHANGED <<acquire, running>>

\* #readRfb ends with an error: WayVNC closed the connection, or the client is too slow.
ViewBreaks(s) ==
  /\ session[s].view # 0 /\ Usable(s)
  /\ Only(s, Failed(session[s]))
  /\ UNCHANGED <<acquire, running>>

-----------------------------------------------------------------------------
(* Acquiring an expanded view *)

Wanted(s) == Usable(s) /\ session[s].mode = "expanded" /\ session[s].rfb = "open"

\* #startRfbView waits for the views being closed, then acquires one if it is still wanted.
StartAcquires(s) ==
  /\ session[s].start = "clearing"
  /\ session[s].cleanup = 0 /\ \A o \in session[s].after : ~session[o].ending
  /\ LET t == [session[s] EXCEPT !.start = "no", !.after = {}] IN
     \/ /\ Wanted(s) /\ running
        /\ Only(s, [t EXCEPT !.start = "acquiring"])
        /\ acquire' = [acquire EXCEPT ![s].at = "asked"]
     \/ /\ Wanted(s) /\ ~running
        /\ Only(s, Failed(t)) /\ UNCHANGED acquire
     \/ /\ ~Wanted(s)
        /\ Only(s, t) /\ UNCHANGED acquire
  /\ UNCHANGED running

\* A session whose acquire failed.
Refused(s) == LET t == [session[s] EXCEPT !.start = "no"] IN IF Usable(s) THEN Failed(t) ELSE t

\* Mutant: an acquire that fails stops no WayVNC.
AcquireFailsQuietly(s) ==
  /\ acquire' = [acquire EXCEPT ![s] = NoAcquire]
  /\ session' = [session EXCEPT ![s] = Refused(s)]
  /\ UNCHANGED vnc

\* The catch of acquireExpandedView: the last one to fail first stops a WayVNC nobody uses.
AcquireFails(s) ==
  IF vnc.shared # 0 /\ Holders(session, vnc.shared) = {} /\ Pending = {s}
  THEN /\ vnc' = Stopping(vnc, vnc.shared)
       /\ acquire' = [acquire EXCEPT ![s].at = "failing"]
       /\ UNCHANGED session
  ELSE /\ acquire' = [acquire EXCEPT ![s] = NoAcquire]
       /\ session' = [session EXCEPT ![s] = Refused(s)]
       /\ UNCHANGED vnc

\* ensureSharedWayvnc, after a stop under way: use, join or start.
EnsureWayvnc(s) ==
  /\ acquire[s].at = "asked" /\ vnc.stop = 0
  /\ \/ /\ ~running
        /\ AcquireFails(s)
     \/ /\ running /\ vnc.shared # 0
        /\ acquire' = [acquire EXCEPT ![s] = [at |-> "connecting", wayvnc |-> vnc.shared]]
        /\ UNCHANGED <<session, vnc>>
     \/ /\ running /\ vnc.shared = 0 /\ vnc.start # 0
        /\ acquire' = [acquire EXCEPT ![s] = [at |-> "starting", wayvnc |-> vnc.start]]
        /\ UNCHANGED <<session, vnc>>
     \/ /\ running /\ vnc.shared = 0 /\ vnc.start = 0 /\ vnc.last < MaxWayvnc
        /\ LET w == vnc.last + 1 IN
           /\ vnc' = [vnc EXCEPT !.start = w, !.last = w, !.alive = @ \cup {w}]
           /\ acquire' = [acquire EXCEPT ![s] = [at |-> "starting", wayvnc |-> w]]
           /\ UNCHANGED session
     \* Bound: no more WayVNC can be spawned.
     \/ /\ running /\ vnc.shared = 0 /\ vnc.start = 0 /\ vnc.last = MaxWayvnc
        /\ AcquireFails(s)
  /\ UNCHANGED running

\* The one start ends for all who wait for it; one that fails leaves no process.
WayvncStarted(w) ==
  /\ vnc.start = w
  /\ \/ /\ w \in vnc.alive
        /\ vnc' = [vnc EXCEPT !.start = 0, !.shared = w]
        /\ acquire' = [s \in Viewers |-> IF acquire[s].at = "starting"
                                         THEN [acquire[s] EXCEPT !.at = "connecting"]
                                         ELSE acquire[s]]
        /\ UNCHANGED session
     \/ /\ vnc' = [vnc EXCEPT !.start = 0, !.alive = @ \ {w}, !.stopped = @ \cup {w}]
        /\ acquire' = [s \in Viewers |-> IF acquire[s].at = "starting"
                                         THEN NoAcquire ELSE acquire[s]]
        /\ session' = [s \in Viewers |-> IF acquire[s].at = "starting"
                                         THEN Refused(s) ELSE session[s]]
  /\ UNCHANGED running

\* The connection to the socket of WayVNC: a view nobody wants any more is closed, and the
\* start lasts until it is.
Connected(s) ==
  /\ acquire[s].at = "connecting"
  /\ LET w == acquire[s].wayvnc
         last == Holders(session, w) = {} /\ Pending = {s}
         wait == last /\ (w = vnc.shared \/ w = vnc.stop)
         mine(t) == session' = [session EXCEPT ![s] = t]
     IN \/ /\ w \in vnc.alive /\ running
           /\ acquire' = [acquire EXCEPT ![s] = NoAcquire]
           /\ \/ /\ Wanted(s)
                 /\ mine([session[s] EXCEPT !.start = "no", !.view = w])
                 /\ UNCHANGED vnc
              \/ /\ ~Wanted(s)
                 /\ mine([session[s] EXCEPT !.start = IF wait THEN "closing" ELSE "no",
                                            !.cleanup = IF wait THEN w ELSE @])
                 /\ vnc' = IF last THEN Stopping(vnc, w) ELSE vnc
        \/ AcquireFails(s)
  /\ UNCHANGED running

\* WayVNC exits by itself; its exit handler stops what is left of it.
WayvncExits(w) ==
  /\ w \in vnc.alive \ vnc.stopped
  /\ vnc' = [vnc EXCEPT !.alive = @ \ {w}]
  /\ UNCHANGED <<session, acquire, running>>

WayvncExitSeen(w) ==
  /\ w \notin vnc.alive /\ w \notin vnc.stopped /\ w <= vnc.last /\ vnc.start # w
  /\ vnc' = Stopping(vnc, w)
  /\ UNCHANGED <<session, acquire, running>>

\* Mutant: a start that closes its unwanted view does not learn that the stop is over.
WayvncStoppedUnheard(w) ==
  /\ vnc.stop = w
  /\ vnc' = [vnc EXCEPT !.stop = 0, !.alive = @ \ {w}]
  /\ acquire' = [s \in Viewers |-> IF acquire[s].at = "failing" THEN NoAcquire ELSE acquire[s]]
  /\ session' = [s \in Viewers |->
       IF acquire[s].at = "failing" THEN Refused(s)
       ELSE IF session[s].cleanup = w THEN [session[s] EXCEPT !.cleanup = 0] ELSE session[s]]
  /\ UNCHANGED running

\* The stop is over for all who wait for it: closed views, a start that no longer wanted its
\* view, and the failed acquire that caused it.
WayvncStopped(w) ==
  /\ vnc.stop = w
  /\ vnc' = [vnc EXCEPT !.stop = 0, !.alive = @ \ {w}]
  /\ acquire' = [s \in Viewers |-> IF acquire[s].at = "failing" THEN NoAcquire ELSE acquire[s]]
  /\ LET Freed(t) == IF t.cleanup # w THEN t
                     ELSE [t EXCEPT !.cleanup = 0, !.start = IF @ = "closing" THEN "no" ELSE @]
     IN session' = [s \in Viewers |-> IF acquire[s].at = "failing" THEN Refused(s)
                                      ELSE Freed(session[s])]
  /\ UNCHANGED running

\* cleanupSurface and the closeSurface that follows the transition: no view is acquired any
\* more and every session closes.
ScreenStops ==
  /\ running
  /\ running' = FALSE
  /\ Become([s \in Viewers |-> IF Present(s) THEN Closed(session[s]) ELSE session[s]])
  /\ UNCHANGED acquire
-----------------------------------------------------------------------------
SessionStep(s) ==
  \/ CreateSession(s) \/ ReserveSocket(s) \/ CancelReservation(s)
  \/ OpenControl(s) \/ OpenRfb(s) \/ ControlClosed(s) \/ RfbClosed(s)
  \/ \E mode \in Modes : SetViewMode(s, mode)
  \/ TimerFires(s) \/ CaptureEnds(s) \/ FailureDelivered(s) \/ Terminated(s)
  \/ ViewBreaks(s)
  \/ StartAcquires(s) \/ EnsureWayvnc(s) \/ Connected(s)

WayvncStep(w) ==
  WayvncStarted(w) \/ WayvncExits(w) \/ WayvncExitSeen(w) \/ WayvncStopped(w)

ViewsNext == (\E s \in Viewers : SessionStep(s)) \/ (\E w \in Wayvncs : WayvncStep(w)) \/ ScreenStops

ViewsSpec == ViewsInit /\ [][ViewsNext]_viewVars

\* The awaits of the service, each of which has a deadline of its own.
ViewAwaits(s) == CaptureEnds(s) \/ FailureDelivered(s) \/ StartAcquires(s)
                 \/ EnsureWayvnc(s) \/ Connected(s)
WayvncAwaits(w) == WayvncStarted(w) \/ WayvncExitSeen(w) \/ WayvncStopped(w)

ViewsFairness ==
  /\ \A s \in Viewers : WF_viewVars(ViewAwaits(s)) /\ WF_viewVars(Terminated(s))
  /\ \A w \in Wayvncs : WF_viewVars(WayvncAwaits(w))

ViewsFairSpec == ViewsSpec /\ ViewsFairness
-----------------------------------------------------------------------------
\* Viewers of a Surface share one WayVNC: a second process never lives, not even while the
\* first one is being stopped for a viewer that left and another viewer arrives.
OneWayvnc == Cardinality(vnc.alive) <= 1

\* A WayVNC is kept only for somebody: a view that is open, or an acquire that will use it or
\* stop it.
WayvncIsWanted == vnc.shared # 0 => Holders(session, vnc.shared) # {} \/ Pending # {}

\* A view is open only for a session whose client asked for it and can receive it.
ViewIsShown ==
  \A s \in Viewers : session[s].view # 0
                       => Usable(s) /\ session[s].mode = "expanded" /\ session[s].rfb = "open"

\* An open session in the preview mode always has a capture in flight or one scheduled, however
\* often the client leaves and enters the mode while a capture is under way.
PreviewKeepsGoing ==
  \A s \in Viewers : session[s].state = "open" /\ session[s].mode = "preview"
                       => session[s].timer \/ session[s].capture

\* No order of closing views, failing acquires, mode changes and exits leaves a WayVNC behind,
\* runs two of them, shows a view to a session that left it, or ends a preview.
ViewsAreShared == ViewsTypeOK /\ OneWayvnc /\ WayvncIsWanted /\ ViewIsShown /\ PreviewKeepsGoing

\* Every closed session terminates: its captures, starts and views end, and the closeSurface
\* that waits for them is answered.
EverySessionEnds == \A s \in Viewers : session[s].ending ~> ~session[s].ending
=============================================================================
