----------------------------- MODULE WebControl -----------------------------
(* Web Control of one Bot Screen as its page and the daemon see it: the       *)
(* page's Screen Projection connection with its modes, control and RFB view   *)
(* (screenProjection.ts of the web client), the handlers of the component     *)
(* that shows it (ComputerPanel.tsx), the messages in both directions, and    *)
(* the daemon's session that judges every input (screenProjection.ts).        *)
(*                                                                            *)
(* Captures, WayVNC and other viewers are the subject of ScreenViews, who may *)
(* claim control of ComputerControl: here the daemon may take control away at *)
(* any moment. The session of a connection that was closed is gone at once.   *)
EXTENDS Naturals, Sequences, FiniteSets

CONSTANTS MaxAttempts,   \* bound: connections of the page
          MaxReconnects, \* lost RFB views that are reconnected; MAX_EXPANDED_RECONNECTS in the code
          MaxEpochs,     \* bound: claims of control
          MaxInputs,     \* bound: inputs under one epoch
          MaxWay,        \* bound: messages under way in one direction
          MaxWindowMoves       \* bound: what the user does with the window, and the Bot with control

ASSUME WebControlAssumption ==
  {MaxAttempts, MaxReconnects, MaxEpochs, MaxInputs, MaxWay, MaxWindowMoves} \subseteq Nat

VARIABLES panel,  \* the component and its window
          conn,  \* its present connection
          session,  \* the daemon's session of that connection, and its controller
          up,    \* from the page to the daemon
          down   \* from the daemon to the page

webVars == <<panel, conn, session, up, down>>

NoEpoch == 0
Buttons == {"button", "key"}
ViewModes == {"idle", "preview", "expanded"}

\* A new connection, in the mode the component wants.
NewConnection(mode) ==
  [phase |-> "fetching", desired |-> mode, ack |-> "idle", rfb |-> "none", ready |-> FALSE,
   authority |-> NoEpoch, offered |-> NoEpoch, seq |-> 0, releasing |-> NoEpoch, resume |-> FALSE,
   held |-> FALSE, first |-> FALSE, framed |-> FALSE, shown |-> "connecting"]

NoConnection == [open |-> FALSE, mode |-> "idle", epoch |-> NoEpoch, active |-> FALSE, next |-> 1,
              held |-> {}, last |-> NoEpoch]

WebInit ==
  /\ panel = [expanded |-> FALSE, window |-> "focused", attempt |-> 1, bound |-> 0, retries |-> 0,
             key |-> FALSE, moves |-> 0]
  /\ conn = NewConnection("preview")
  /\ session = NoConnection
  /\ up = <<>> /\ down = <<>>

-----------------------------------------------------------------------------
(* The methods of the connection, on it and on what it sends.                 *)

Link == [c |-> conn, up |-> up]
Become(s) == conn' = s.c /\ up' = s.up

ToServer(s, m) == [s EXCEPT !.up = Append(@, m)]
ViewMessage(mode) == [type |-> "view", mode |-> mode]
InputMessage(e, n, what, fits) == [type |-> "input", epoch |-> e, seq |-> n, what |-> what, fits |-> fits]

Open(s) == s.c.phase = "open"
SendViewMode(s, mode) == IF Open(s) THEN ToServer(s, ViewMessage(mode)) ELSE s

\* Mutant: a mode that is acknowledged already is not asked for again.
ActivateOnChange(s) ==
  IF ~Open(s) \/ s.c.releasing # NoEpoch \/ s.c.ack = s.c.desired THEN s
  ELSE [SendViewMode(s, s.c.desired) EXCEPT !.c.shown = "connecting"]

\* #activate
Activate(s) ==
  IF ~Open(s) \/ s.c.releasing # NoEpoch THEN s
  ELSE [SendViewMode(s, s.c.desired) EXCEPT !.c.shown = IF s.c.ack # s.c.desired THEN "connecting" ELSE @]

MaySend(c) == c.authority # NoEpoch /\ c.desired = "expanded" /\ c.phase = "open"

\* #sendInput
SendInput(s, what, fits) ==
  [ToServer(s, InputMessage(s.c.authority, s.c.seq + 1, what, fits)) EXCEPT !.c.seq = @ + 1]

\* releaseControl
ReleaseControl(s) ==
  IF ~MaySend(s.c) THEN s
  ELSE [SendInput(s, "release-control", TRUE) EXCEPT !.c.releasing = s.c.authority,
                                                     !.c.authority = NoEpoch, !.c.held = FALSE]

\* #clearExpandedView: the component disconnects its RFB client.
ViewCleared(c) == [c EXCEPT !.first = FALSE, !.ready = FALSE, !.rfb = "none"]

Suspend(s) == SendViewMode([c |-> ViewCleared(ReleaseControl(s).c), up |-> ReleaseControl(s).up], "idle")

\* resumeControl
ResumeControl(s) ==
  IF s.c.desired # "expanded" THEN s
  ELSE IF s.c.releasing # NoEpoch THEN [s EXCEPT !.c.resume = TRUE]
  ELSE Activate(s)

\* setMode: another mode gives up the control and the view at once, without a word.
SetMode(s, mode) ==
  Activate(IF s.c.desired = mode THEN s
           ELSE [s EXCEPT !.c = [ViewCleared(@) EXCEPT !.desired = mode, !.authority = NoEpoch,
                                   !.offered = NoEpoch, !.releasing = NoEpoch, !.resume = FALSE,
                                   !.held = FALSE]])

-----------------------------------------------------------------------------
(* Connecting, failing and reconnecting. *)

\* Another attempt: the effect closes the present connection and makes a new one. The
\* handlers of the expanded view keep the connection they were bound to.
Reattempt(p) ==
  /\ panel.attempt < MaxAttempts
  /\ panel' = [p EXCEPT !.attempt = @ + 1]
  /\ conn' = NewConnection(IF p.expanded THEN "expanded" ELSE "preview")
  /\ session' = [NoConnection EXCEPT !.last = session.last]
  /\ up' = <<>> /\ down' = <<>>

\* #fail: the connection closes, and the component falls back to a snapshot.
Fail ==
  /\ panel' = [panel EXCEPT !.expanded = FALSE, !.bound = 0]
  /\ conn' = [NewConnection("preview") EXCEPT !.phase = "failed", !.shown = "snapshot"]
  /\ session' = [NoConnection EXCEPT !.last = session.last]
  /\ up' = <<>> /\ down' = <<>>

\* #requestReconnect with the attempt that the component makes of it in a microtask.
RequestReconnect(p) == Reattempt(p)

\* connect: a session is created, or not.
SessionAnswers ==
  /\ conn.phase = "fetching"
  /\ \/ /\ conn' = [conn EXCEPT !.phase = "opening"]
        /\ UNCHANGED <<panel, session, up, down>>
     \/ Fail

\* The control socket opens, on both sides: the daemon tells its mode, the page asks for its own.
SocketOpens ==
  /\ conn.phase = "opening"
  /\ Become(Activate([Link EXCEPT !.c.phase = "open"]))
  /\ session' = [session EXCEPT !.open = TRUE]
  /\ down' = <<[type |-> "view-state", mode |-> "idle"]>>
  /\ UNCHANGED panel

\* The socket breaks, or a deadline of the connection or of the first frame passes.
SocketBreaks ==
  \/ conn.phase = "opening" /\ Fail
  \/ conn.phase = "open" /\ RequestReconnect(panel)
DeadlinePasses ==
  \/ conn.phase \in {"fetching", "opening"} /\ Fail
  \/ conn.first /\ Fail

\* The user retries a Screen that failed.
Retry ==
  /\ conn.phase = "failed"
  /\ Reattempt(panel)

-----------------------------------------------------------------------------
(* The component: expanding, and the handlers of the window. *)

Moves == panel.moves < MaxWindowMoves /\ Len(up) + 3 <= MaxWay
Moved(p) == [p EXCEPT !.moves = @ + 1]

\* The handlers act on the connection that was current when the view was expanded.
Bound(p) == p.bound = p.attempt
Handled(s) == IF Bound(panel) THEN s ELSE Link

Expand ==
  /\ Moves /\ ~panel.expanded /\ conn.shown = "preview"
  /\ Become(SetMode(Link, "expanded"))
  /\ panel' = Moved([panel EXCEPT !.expanded = TRUE, !.bound = panel.attempt])
  /\ UNCHANGED <<session, down>>

\* Escape, or the end of a takeover: the handlers are cleaned up, then the mode is set.
Collapse ==
  /\ Moves /\ panel.expanded
  /\ Become(SetMode(Handled(Suspend(Link)), "preview"))
  /\ panel' = Moved([panel EXCEPT !.expanded = FALSE, !.bound = 0])
  /\ UNCHANGED <<session, down>>

Window(from, to) ==
  /\ Moves /\ panel.window = from
  /\ panel' = Moved([panel EXCEPT !.window = to, !.key = FALSE])
  /\ UNCHANGED <<session, down>>
OnlyExpanded(s) == Become(IF panel.expanded THEN Handled(s) ELSE Link)

Blur == Window("focused", "blurred") /\ OnlyExpanded(ReleaseControl(Link))
Focus == Window("blurred", "focused") /\ OnlyExpanded(ResumeControl(Link))
Hide == Window("blurred", "hidden") /\ OnlyExpanded(Suspend(Link))
Show == Window("hidden", "blurred") /\ OnlyExpanded(ResumeControl(SetMode(Link, "expanded")))

\* External: noVNC connects to the RFB socket, which the daemon opens only for an expanded session.
RfbConnects ==
  /\ conn.rfb = "connecting" /\ session.open /\ session.mode = "expanded"
  /\ conn' = [conn EXCEPT !.rfb = "connected"]
  /\ UNCHANGED <<panel, session, up, down>>

\* Whether an offer becomes the control of the page.
Published(c) ==
  IF c.offered = NoEpoch \/ c.desired # "expanded" \/ c.ack # "expanded" \/ ~c.ready
     \/ c.authority = c.offered THEN c
  ELSE [c EXCEPT !.held = IF c.authority # NoEpoch THEN FALSE ELSE @, !.authority = c.offered,
                 !.seq = 0, !.releasing = NoEpoch, !.resume = FALSE]

\* expandedConnected
ExpandedConnected ==
  /\ conn.rfb = "connected" /\ ~conn.ready
  /\ conn.ack = "expanded"
  /\ conn' = Published([conn EXCEPT !.ready = TRUE, !.first = FALSE, !.shown = "expanded"])
  /\ UNCHANGED <<panel, session, up, down>>

\* The view was up for long enough.
RfbIsStable ==
  /\ conn.ready /\ panel.retries > 0
  /\ panel' = [panel EXCEPT !.retries = 0]
  /\ UNCHANGED <<conn, session, up, down>>

\* The RFB client loses its connection: a new connection, until the reconnects are exhausted.
RfbDisconnects ==
  /\ conn.rfb # "none"
  /\ IF panel.retries < MaxReconnects
     THEN RequestReconnect([panel EXCEPT !.retries = @ + 1]) ELSE Fail

\* The offered image of a preview arrives; stale frames of a mode that was left are dropped.
FrameArrives ==
  /\ session.open /\ session.mode = "preview" /\ conn.desired = "preview" /\ ~conn.framed
  /\ conn' = [conn EXCEPT !.framed = TRUE, !.first = FALSE]
  /\ UNCHANGED <<panel, session, up, down>>

-----------------------------------------------------------------------------
(* Input of the user, which only a page with control sends. *)

Uses(what) ==
  /\ panel.expanded /\ panel.window = "focused" /\ MaySend(conn)
  /\ conn.seq < MaxInputs /\ Len(up) < MaxWay
  /\ UNCHANGED <<session, down>>

\* #mapPointer, in units of the rendered video: a position outside of its content is clamped
\* for a release only; within, the last unit is the last of the Screen.
Rendered == 2
Logical == 2
Mapped(x) == IF x >= Logical THEN Logical - 1 ELSE x

Pointer(x) ==
  /\ Uses("motion") /\ x \in 0..Rendered
  /\ Become(SendInput(Link, "motion", Mapped(x) < Logical))
  /\ UNCHANGED panel

\* pointerButton
Press(x) ==
  /\ Uses("press") /\ ~conn.held
  /\ Become([SendInput(Link, "press", Mapped(x) < Logical) EXCEPT !.c.held = TRUE])
  /\ UNCHANGED panel
Release(x) ==
  /\ Uses("release") /\ conn.held
  /\ Become([SendInput(Link, "release", Mapped(x) < Logical) EXCEPT !.c.held = FALSE])
  /\ UNCHANGED panel

\* keyTransition: the page does not keep which keys are down.
KeyDown ==
  /\ ~panel.key /\ panel.expanded /\ panel.window = "focused"
  /\ panel' = [panel EXCEPT !.key = TRUE]
  /\ \/ Uses("keydown") /\ Become(SendInput(Link, "keydown", TRUE))
     \/ ~MaySend(conn) /\ UNCHANGED <<conn, session, up, down>>
KeyUp ==
  /\ panel.key /\ panel.expanded /\ panel.window = "focused"
  /\ panel' = [panel EXCEPT !.key = FALSE]
  /\ \/ Uses("keyup") /\ Become(SendInput(Link, "keyup", TRUE))
     \/ ~MaySend(conn) /\ UNCHANGED <<conn, session, up, down>>

-----------------------------------------------------------------------------
(* The daemon's session. *)

Told(t, m) == IF t.open THEN Append(down, m) ELSE down
Authority(active, e) == [type |-> "authority", active |-> active, epoch |-> e]
ViewState(mode) == [type |-> "view-state", mode |-> mode]

\* #revokeInput: the page is told at once, also of a claim that was never answered.
Revoked(t) == [t EXCEPT !.epoch = NoEpoch, !.active = FALSE, !.held = {}]
TellRevoked(t) == IF t.epoch = NoEpoch THEN <<>> ELSE <<Authority(FALSE, t.epoch)>>

\* #close with the session's control socket.
Ends(messages) ==
  /\ session' = [NoConnection EXCEPT !.last = session.last]
  /\ down' = down \o TellRevoked(session) \o messages \o <<[type |-> "closed"]>>

\* #setMode
SessionMode(mode) ==
  LET leaves == session.mode = "expanded" /\ mode # "expanded"
      t == IF leaves THEN Revoked(session) ELSE session
      claims == mode = "expanded" /\ t.epoch = NoEpoch /\ t.last < MaxEpochs
  IN
  /\ session' = [t EXCEPT !.mode = mode,
                       !.epoch = IF claims THEN t.last + 1 ELSE @,
                       !.last = IF claims THEN @ + 1 ELSE @,
                       !.next = IF claims THEN 1 ELSE @,
                       !.held = IF claims THEN {} ELSE @]
  /\ down' = down \o (IF leaves THEN TellRevoked(session) ELSE <<>>) \o <<ViewState(mode)>>

\* #input: what is refused closes the session.
Refused(m) ==
  \/ ~session.active \/ session.mode # "expanded"
  \/ m.epoch # session.epoch \/ m.seq # session.next \/ ~m.fits
  \/ m.what = "press" /\ "button" \in session.held
  \/ m.what = "release" /\ "button" \notin session.held
  \/ m.what = "keydown" /\ "key" \in session.held
  \/ m.what = "keyup" /\ "key" \notin session.held

HeldAfter(m) ==
  CASE m.what = "press" -> session.held \cup {"button"}
    [] m.what = "release" -> session.held \ {"button"}
    [] m.what = "keydown" -> session.held \cup {"key"}
    [] m.what = "keyup" -> session.held \ {"key"}
    [] OTHER -> session.held

TakesInput(m) ==
  \/ Refused(m) /\ Ends(<<>>)
  \/ /\ ~Refused(m) /\ m.what = "release-control"
     /\ session' = Revoked(session) /\ down' = down \o TellRevoked(session)
  \/ /\ ~Refused(m) /\ m.what # "release-control"
     /\ session' = [session EXCEPT !.next = @ + 1, !.held = HeldAfter(m)]
     /\ UNCHANGED down

DaemonReceives ==
  /\ up # <<>> /\ Len(down) + 3 <= MaxWay
  /\ IF ~session.open THEN UNCHANGED <<session, down>>
     ELSE LET m == Head(up) IN
          \/ m.type = "view" /\ SessionMode(m.mode)
          \/ m.type = "input" /\ TakesInput(m)
  /\ up' = Tail(up)
  /\ UNCHANGED <<panel, conn>>

\* The runtime answers a claim.
ClaimIsAnswered ==
  /\ session.open /\ session.epoch # NoEpoch /\ ~session.active /\ Len(down) < MaxWay
  /\ session' = [session EXCEPT !.active = TRUE]
  /\ down' = Told(session, Authority(TRUE, session.epoch))
  /\ UNCHANGED <<panel, conn, up>>

\* The Bot, the end of a takeover or another viewer takes control away, also from a claim that is
\* not answered yet; or the runtime refuses it.
ControlIsTaken ==
  /\ session.epoch # NoEpoch /\ panel.moves < MaxWindowMoves /\ Len(down) < MaxWay
  /\ session' = Revoked(session)
  /\ down' = down \o TellRevoked(session)
  /\ panel' = Moved(panel)
  /\ UNCHANGED <<conn, up>>

\* The Screen or its view fails, #fail: the page is told why before its socket is closed.
SessionFails ==
  /\ session.open /\ panel.moves < MaxWindowMoves /\ Len(down) + 3 <= MaxWay
  /\ Ends(<<[type |-> "failure"]>>)
  /\ panel' = Moved(panel)
  /\ UNCHANGED <<conn, up>>

-----------------------------------------------------------------------------
(* What the page makes of the daemon's messages. *)

\* #receiveViewState: of a mode the page still wants.
OnViewState(mode) ==
  LET c == [conn EXCEPT !.ack = mode] IN
  conn' = IF mode # c.desired THEN c
          ELSE IF mode = "preview"
               THEN [c EXCEPT !.rfb = "none", !.shown = "preview", !.first = @ \/ ~c.framed]
          ELSE IF c.ready THEN Published([c EXCEPT !.shown = "expanded"])
          ELSE [c EXCEPT !.rfb = IF @ = "none" THEN "connecting" ELSE @, !.shown = "connecting",
                         !.first = TRUE]

\* #receiveInputAuthority: the end of the control that is held, offered or given up.
Known(c, e) == e \in {c.authority, c.offered, c.releasing}
Withdrawn(c) == [c EXCEPT !.authority = NoEpoch, !.offered = NoEpoch, !.releasing = NoEpoch,
                          !.held = FALSE, !.resume = FALSE]

\* Mutant: only the control that is held ends.
OnAuthorityOfHolder(m) ==
  IF m.active THEN Become([Link EXCEPT !.c = Published([conn EXCEPT !.offered = m.epoch])])
  ELSE IF conn.authority # m.epoch THEN Become(Link)
  ELSE Become([Link EXCEPT !.c = Withdrawn(conn)])

OnAuthority(m) ==
  IF m.active THEN Become([Link EXCEPT !.c = Published([conn EXCEPT !.offered = m.epoch])])
  ELSE IF ~Known(conn, m.epoch) THEN Become(Link)
  ELSE LET s == [Link EXCEPT !.c = Withdrawn(conn)]
       IN Become(IF conn.resume THEN Activate(s) ELSE s)

PageReceives ==
  /\ down # <<>> /\ conn.phase = "open" /\ Len(up) < MaxWay
  /\ LET m == Head(down) IN
     \/ /\ m.type = "view-state" /\ OnViewState(m.mode)
        /\ down' = Tail(down) /\ UNCHANGED <<panel, session, up>>
     \/ /\ m.type = "authority" /\ OnAuthority(m)
        /\ down' = Tail(down) /\ UNCHANGED <<panel, session>>
     \/ m.type = "failure" /\ Fail
     \/ m.type = "closed" /\ RequestReconnect(panel)

WebNext ==
  \/ SessionAnswers \/ SocketOpens \/ SocketBreaks \/ DeadlinePasses \/ Retry
  \/ Expand \/ Collapse \/ Blur \/ Focus \/ Hide \/ Show
  \/ RfbConnects \/ ExpandedConnected \/ RfbIsStable \/ RfbDisconnects \/ FrameArrives
  \/ \E x \in 0..Rendered : Pointer(x) \/ Press(x) \/ Release(x)
  \/ KeyDown \/ KeyUp
  \/ DaemonReceives \/ ClaimIsAnswered \/ ControlIsTaken \/ SessionFails
  \/ PageReceives

WebSpec == WebInit /\ [][WebNext]_webVars

-----------------------------------------------------------------------------
(* Properties. *)

WebTypeOK ==
  /\ panel.window \in {"focused", "blurred", "hidden"} /\ panel.bound \in 0..panel.attempt
  /\ conn.phase \in {"fetching", "opening", "open", "failed"}
  /\ conn.desired \in ViewModes /\ conn.ack \in ViewModes /\ session.mode \in ViewModes
  /\ {conn.authority, conn.offered, conn.releasing, session.epoch} \subseteq 0..session.last
  /\ session.held \subseteq Buttons

InDown(m) == \E i \in DOMAIN down : down[i] = m
Over == \E i \in DOMAIN down : down[i].type \in {"failure", "closed"}
Ended(e) == InDown(Authority(FALSE, e)) \/ Over
GivenUp(e) == \E i \in DOMAIN up : up[i].type = "input" /\ up[i].epoch = e /\ up[i].what = "release-control"
Leaving == \E i \in DOMAIN up : up[i].type = "view" /\ up[i].mode # "expanded"

\* A page that shows control has it, or is about to learn that it has not. Control that it gave
\* up is about to be taken back, so that it can be claimed again.
ControlIsBacked ==
  /\ conn.authority # NoEpoch => (session.active /\ session.epoch = conn.authority) \/ Ended(conn.authority)
  /\ conn.releasing # NoEpoch => GivenUp(conn.releasing) \/ Ended(conn.releasing)

\* A button the daemon holds down is held by a page with that control, or about to be let go.
NothingStaysPressed ==
  "button" \in session.held =>
    \/ conn.authority = session.epoch /\ conn.held
    \/ GivenUp(session.epoch) \/ Leaving \/ Over
    \/ \E i \in DOMAIN up : up[i].type = "input" /\ up[i].epoch = session.epoch /\ up[i].what = "release"

\* What the page says under its control arrives in its order and fits what the daemon expects,
\* until the page gives the control up. Keys are left out: one that was down before the page
\* got control is let go under it, and refused.
InputIsTaken ==
  \A i \in DOMAIN up :
    LET m == up[i]
        before == {j \in 1..(i - 1) : up[j].type = "input" /\ up[j].epoch = m.epoch}
    IN m.type = "input" /\ session.active /\ m.epoch = session.epoch
         => \/ \E j \in before : up[j].what = "release-control"
            \/ m.fits /\ m.seq = session.next + Cardinality(before)

\* A page that shows that it connects gets there or fails: an answer is under way, a deadline
\* runs, or it asks again when the control it gave up is taken back; unless its window is hidden.
NeverSpins ==
  conn.shown = "connecting" /\ panel.window # "hidden" =>
    \/ conn.phase \in {"fetching", "opening"}
    \/ conn.first
    \/ conn.resume /\ conn.releasing # NoEpoch
    \/ \E i \in DOMAIN up : up[i] = ViewMessage(conn.desired)
    \/ InDown(ViewState(conn.desired)) \/ Over

\* The page and the daemon agree on who controls the Screen, and the page never waits for nothing.
WebControlAgrees == WebTypeOK /\ ControlIsBacked /\ NothingStaysPressed /\ InputIsTaken /\ NeverSpins

\* Issue 06: "Revocation, blur, visibility loss, navigation, disconnect and helper failure release
\* every held key and button before another controller can act." A window without the focus holds
\* nothing down once its messages have arrived.
BlurLetsGo ==
  panel.window # "focused" /\ panel.expanded /\ up = <<>> /\ down = <<>> => session.held = {}
=============================================================================
