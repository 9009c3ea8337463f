---------------------------- MODULE MediaProofs ----------------------------
(* The viewers of a Screen share its one WayVNC (ScreenViews), for any number *)
(* of viewers and of WayVNC processes started meanwhile; and the Bot Computer *)
(* (SwayComputer) can be taken over by another daemon at any moment, for any  *)
(* number of Screens, outputs and restarts.                                   *)
EXTENDS ScreenViews, SwayComputer, FiniteSetTheorems, WellFoundedInduction, TLAPS

-----------------------------------------------------------------------------
\* What is true of the sessions ss, the acquires a and the WayVNC processes v is stated for any
\* three of them, so that a step is a fact about the values it leaves.
Acquires == [at : {"no", "asked", "starting", "connecting", "failing"}, wayvnc : 0..MaxWayvnc]
Processes == [shared : 0..MaxWayvnc, start : 0..MaxWayvnc, stop : 0..MaxWayvnc,
              last : 0..MaxWayvnc, alive : SUBSET Wayvncs, stopped : SUBSET Wayvncs]

\* A session t whose acquire stands at at: it acquires a view while it says so and has none, it
\* shows one only to a client that asked for it, and a preview goes on.
SessionFits(t, at) ==
  /\ t \in Sessions
  /\ at # "no" <=> t.start = "acquiring"
  /\ t.start # "no" => t.view = 0
  /\ t.state = "none" => t.start = "no" /\ t.view = 0
  /\ t.state = "connecting" => t.mode = "idle"
  /\ t.view # 0 => t.state \in {"connecting", "open"} /\ t.mode = "expanded" /\ t.rfb = "open"
  /\ t.state = "open" /\ t.mode = "preview" => t.timer \/ t.capture

\* One WayVNC at most is starting, in use or being stopped, and only such a one lives. All
\* others that were spawned have been stopped.
OneIsKnown(v) ==
  /\ v.shared # 0 => v.start = 0 /\ v.stop = 0
  /\ v.start # 0 => v.stop = 0
  /\ v.alive \subseteq {v.shared, v.start, v.stop}
  /\ v.stopped \subseteq 1..v.last /\ {v.shared, v.start} \subseteq 0..v.last
  /\ \A w \in 1..v.last : w \in v.stopped \/ w \in {v.shared, v.start}
  /\ v.shared \notin v.stopped /\ v.start \notin v.stopped
  /\ v.stop # 0 => v.stop \in v.stopped

\* An acquire waits for the WayVNC that is starting, which nothing else starts, or connects
\* to one that was in use.
AcquiresKnow(a, v) ==
  /\ \A s \in Viewers :
       /\ a[s].at = "starting" => v.start # 0
       /\ a[s].at = "connecting" => a[s].wayvnc # 0
       /\ a[s].at = "connecting" => a[s].wayvnc \in v.stopped \/ a[s].wayvnc = v.shared
       /\ a[s].at = "starting" => a[s].wayvnc = v.start
  /\ v.start # 0 => \E s \in Viewers : a[s].at = "starting"

ViewsFit(ss, a, v) ==
  /\ ss \in [Viewers -> Sessions] /\ a \in [Viewers -> Acquires] /\ v \in Processes
  /\ \A s \in Viewers : SessionFits(ss[s], a[s].at)
  /\ OneIsKnown(v) /\ AcquiresKnow(a, v)
  /\ v.shared # 0 => \E s \in Viewers : ss[s].view = v.shared \/ a[s].at # "no"

ViewsIInv == ViewsFit(session, acquire, vnc) /\ running \in BOOLEAN

\* A step whose new values fit keeps the invariant.
LEMMA ViewsPrimed ==
  ASSUME NEW ss, NEW a, NEW v, ss = session', a = acquire', v = vnc', ViewsFit(ss, a, v),
         running' \in BOOLEAN
  PROVE  ViewsIInv'
<1>1. ViewsFit(session', acquire', vnc') OBVIOUS
<1> QED BY <1>1 DEF ViewsIInv, ViewsFit, SessionFits, OneIsKnown, AcquiresKnow

\* The invariant says what is asked of the viewers.
LEMMA ViewsShared ==
  ASSUME ViewsAssumption, ViewsIInv
  PROVE  ViewsAreShared
<1>1. ViewsFit(session, acquire, vnc) /\ running \in BOOLEAN BY DEF ViewsIInv
<1>2. ViewsTypeOK BY <1>1 DEF ViewsTypeOK, ViewsFit, Acquires, Processes
<1>3. OneWayvnc
  <2>1. vnc \in Processes /\ OneIsKnown(vnc) BY <1>1 DEF ViewsFit
  <2>2. 0 \notin vnc.alive /\ vnc.alive \subseteq {vnc.shared, vnc.start, vnc.stop}
    BY <2>1 DEF Processes, OneIsKnown, Wayvncs
  <2>3. \E w : vnc.alive \subseteq {w}
    <3>1. CASE vnc.shared # 0 BY <2>1, <2>2, <3>1 DEF OneIsKnown
    <3>2. CASE vnc.start # 0 BY <2>1, <2>2, <3>2 DEF OneIsKnown
    <3>3. CASE vnc.shared = 0 /\ vnc.start = 0 BY <2>2, <3>3
    <3> QED BY <3>1, <3>2, <3>3
  <2>4. PICK w : vnc.alive \subseteq {w} BY <2>3
  <2>5. vnc.alive = {} \/ vnc.alive = {w} BY <2>4
  <2>6. Cardinality(vnc.alive) \in {0, 1} BY <2>5, FS_EmptySet, FS_Singleton
  <2> QED BY <2>6 DEF OneWayvnc
<1>4. WayvncIsWanted BY <1>1 DEF WayvncIsWanted, ViewsFit, Holders, Pending
<1>5. ViewIsShown /\ PreviewKeepsGoing
  BY <1>1 DEF ViewsFit, SessionFits, ViewIsShown, PreviewKeepsGoing, Usable
<1> QED BY <1>2, <1>3, <1>4, <1>5 DEF ViewsAreShared

\* The WayVNC in use is being stopped: none is in use or starting.
LEMMA StoppingIs ==
  ASSUME ViewsAssumption, NEW v \in Processes, OneIsKnown(v), v.shared # 0
  PROVE  LET r == Stopping(v, v.shared) IN
         /\ r \in Processes /\ OneIsKnown(r) /\ r.shared = 0 /\ r.start = 0
         /\ r.stopped = v.stopped \cup {v.shared}
<1> DEFINE w == v.shared
           r == [v EXCEPT !.shared = 0, !.stop = w, !.stopped = v.stopped \cup {w}]
<1>1. w \notin v.stopped /\ w \in Wayvncs /\ v.start = 0 /\ v.stop = 0
  BY DEF OneIsKnown, Processes, Wayvncs
<1>2. Stopping(v, w) = r BY <1>1 DEF Stopping, Processes
<1>4. r \in Processes
  <2>1. [v EXCEPT !.shared = 0] \in Processes BY ViewsAssumption DEF Processes, ViewsAssumption
  <2>2. [v EXCEPT !.shared = 0, !.stop = w] \in Processes BY <2>1 DEF Processes
  <2>3. v.stopped \cup {w} \in SUBSET Wayvncs BY <1>1 DEF Processes
  <2> QED BY <2>2, <2>3 DEF Processes
<1>5. /\ r.shared = 0 /\ r.start = 0 /\ r.stop = w /\ r.last = v.last /\ r.alive = v.alive
      /\ r.stopped = v.stopped \cup {w}
  BY <1>1 DEF Processes
<1> HIDE DEF r
<1>6. OneIsKnown(r)
  <2>1. w \in 1..v.last BY <1>1 DEF OneIsKnown, Processes, Wayvncs
  <2>2. v.last \in Nat BY DEF Processes
  <2>3. 0 \notin r.stopped BY <1>5, <2>1 DEF OneIsKnown
  <2> QED BY <1>1, <1>5, <2>1, <2>2, <2>3 DEF OneIsKnown
<1> QED BY <1>2, <1>4, <1>5, <1>6

\* What is closed, failed or detached still fits, and holds no view.
LEMMA DetachedFits ==
  ASSUME ViewsAssumption, NEW t, NEW at, SessionFits(t, at)
  PROVE  /\ SessionFits(Detached(t), at) /\ Detached(t).view = 0
         /\ SessionFits(Closed(t), at) /\ SessionFits(Failed(t), at)
<1>1. t \in Sessions /\ 0 \in 0..MaxWayvnc BY DEF SessionFits, ViewsAssumption
<1>2. Detached(t) \in Sessions BY <1>1 DEF Sessions, Detached
<1> DEFINE idle(st) == [Detached(t) EXCEPT !.state = st, !.mode = "idle", !.timer = FALSE]
<1>3. \A st \in {"closed", "failed"} : idle(st) \in Sessions
  <2> TAKE st \in {"closed", "failed"}
  <2>1. [Detached(t) EXCEPT !.state = st] \in Sessions BY <1>2 DEF Sessions
  <2>2. [Detached(t) EXCEPT !.state = st, !.mode = "idle"] \in Sessions BY <2>1 DEF Sessions, Modes
  <2> QED BY <2>2 DEF Sessions
<1>4. Failed(t) \in Sessions BY <1>3 DEF Failed
<1>9. Closed(t) \in Sessions
  <2>1. idle("closed") \in Sessions BY <1>3
  <2>2. [idle("closed") EXCEPT !.control = "none"] \in Sessions BY <2>1 DEF Sessions
  <2>3. [idle("closed") EXCEPT !.control = "none", !.ending = TRUE] \in Sessions BY <2>2 DEF Sessions
  <2>4. [idle("closed") EXCEPT !.control = "none", !.ending = TRUE] = Closed(t)
    BY <1>2 DEF Closed, Sessions
  <2> QED BY <2>3, <2>4
<1>5. SessionFits(Detached(t), at) /\ Detached(t).view = 0
  BY <1>1, <1>2 DEF Detached, Sessions, SessionFits
<1>6. SessionFits(Closed(t), at) BY <1>1, <1>9 DEF Closed, Detached, Sessions, SessionFits
<1>7. SessionFits(Failed(t), at) BY <1>1, <1>4 DEF Failed, Detached, Sessions, SessionFits
<1> QED BY <1>5, <1>6, <1>7

-----------------------------------------------------------------------------
\* Sessions that change together, some of which give their view up.
LEMMA BecomeKeeps ==
  ASSUME ViewsAssumption, ViewsIInv, NEW ss \in [Viewers -> Sessions], Become(ss),
         NEW a \in [Viewers -> Acquires], a = acquire',
         \A s \in Viewers : SessionFits(ss[s], a[s].at),
         \A s \in Viewers : acquire[s].at # "no" => a[s].at # "no",
         AcquiresKnow(a, vnc), running' \in BOOLEAN
  PROVE  ViewsIInv'
<1>0. ViewsFit(session, acquire, vnc) BY DEF ViewsIInv
<1>1. vnc \in Processes /\ OneIsKnown(vnc) /\ session \in [Viewers -> Sessions] BY <1>0 DEF ViewsFit
<1>2. \/ vnc' = vnc
      \/ vnc' = Stopping(vnc, vnc.shared) /\ vnc.shared # 0
  BY DEF Become
<1>3. vnc.shared # 0 /\ vnc' = vnc =>
        \E s \in Viewers : ss[s].view = vnc.shared \/ a[s].at # "no"
  <2> SUFFICES ASSUME vnc.shared # 0, vnc' = vnc
               PROVE  \E s \in Viewers : ss[s].view = vnc.shared \/ a[s].at # "no"
    OBVIOUS
  <2>1. Stopping(vnc, vnc.shared) # vnc
    BY <1>1, StoppingIs
  <2>2. ~(/\ Holders(session, vnc.shared) # {} /\ Holders(ss, vnc.shared) = {} /\ Pending = {})
    BY <2>1 DEF Become
  <2>3. \E s \in Viewers : session[s].view = vnc.shared \/ acquire[s].at # "no" BY <1>0 DEF ViewsFit
  <2> QED BY <2>2, <2>3 DEF Holders, Pending
<1>4. \A s \in Viewers : /\ SessionFits(session'[s], a[s].at)
                         /\ session'[s].view = ss[s].view
  <2> SUFFICES ASSUME NEW s \in Viewers
               PROVE  SessionFits(session'[s], a[s].at) /\ session'[s].view = ss[s].view
    OBVIOUS
  <2>1. /\ SessionFits(ss[s], a[s].at) /\ ss[s] \in Sessions
        /\ session[s].view \in 0..MaxWayvnc
    BY <1>1 DEF Sessions
  <2>2. session'[s] = ss[s] \/ session'[s] = [ss[s] EXCEPT !.cleanup = session[s].view]
    BY DEF Become
  <2>3. ASSUME NEW r, r = [ss[s] EXCEPT !.cleanup = session[s].view]
        PROVE  SessionFits(r, a[s].at) /\ r.view = ss[s].view
    <3>1. r \in Sessions BY <2>1, <2>3 DEF Sessions
    <3>2. /\ r.start = ss[s].start /\ r.view = ss[s].view /\ r.state = ss[s].state
          /\ r.mode = ss[s].mode /\ r.rfb = ss[s].rfb /\ r.timer = ss[s].timer
          /\ r.capture = ss[s].capture
      BY <2>1, <2>3 DEF Sessions
    <3> QED BY <2>1, <3>1, <3>2 DEF SessionFits
  <2> QED BY <2>1, <2>2, <2>3
<1>5. session' \in [Viewers -> Sessions] BY <1>4 DEF Become, SessionFits
<1>6. PICK r : r = session' OBVIOUS
<1>7. CASE vnc' = vnc
  <2>1. vnc.shared # 0 => \E s \in Viewers : r[s].view = vnc.shared \/ a[s].at # "no"
    BY <1>3, <1>4, <1>6, <1>7
  <2>2. ViewsFit(r, a, vnc) BY <1>1, <1>4, <1>5, <1>6, <2>1 DEF ViewsFit
  <2> QED BY <1>6, <1>7, <2>2, ViewsPrimed
<1>8. CASE vnc' = Stopping(vnc, vnc.shared) /\ vnc.shared # 0
  <2>1. PICK v : v = Stopping(vnc, vnc.shared) OBVIOUS
  <2>2. /\ v \in Processes /\ OneIsKnown(v) /\ v.shared = 0 /\ v.start = 0
        /\ v.stopped = vnc.stopped \cup {vnc.shared}
    BY <1>1, <1>8, <2>1, StoppingIs
  <2>3. AcquiresKnow(a, v) BY <1>1, <1>8, <2>2 DEF AcquiresKnow, OneIsKnown
  <2>4. ViewsFit(r, a, v) BY <1>4, <1>5, <1>6, <2>2, <2>3 DEF ViewsFit
  <2> QED BY <1>6, <1>8, <2>1, <2>4, ViewsPrimed
<1> QED BY <1>2, <1>7, <1>8

\* One session changes, and no acquire.
LEMMA OnlyKeeps ==
  ASSUME ViewsAssumption, ViewsIInv, NEW s \in Viewers, NEW t, SessionFits(t, acquire[s].at),
         Only(s, t), UNCHANGED <<acquire, running>>
  PROVE  ViewsIInv'
<1>0. ViewsFit(session, acquire, vnc) /\ running \in BOOLEAN BY DEF ViewsIInv
<1> DEFINE ss == [session EXCEPT ![s] = t]
<1>1. /\ session \in [Viewers -> Sessions] /\ t \in Sessions /\ acquire \in [Viewers -> Acquires]
      /\ AcquiresKnow(acquire, vnc) /\ \A o \in Viewers : SessionFits(session[o], acquire[o].at)
  BY <1>0 DEF ViewsFit, SessionFits
<1>2. /\ ss \in [Viewers -> Sessions]
      /\ \A o \in Viewers : ss[o] = IF o = s THEN t ELSE session[o]
  BY <1>1
<1>3. Become(ss) BY DEF Only
<1> HIDE DEF ss
<1>4. \A o \in Viewers : SessionFits(ss[o], acquire[o].at) BY <1>1, <1>2
<1>5. PICK a : a = acquire OBVIOUS
<1>6. a = acquire' /\ running' \in BOOLEAN BY <1>0, <1>5
<1> QED BY <1>1, <1>2, <1>3, <1>4, <1>5, <1>6, BecomeKeeps
-----------------------------------------------------------------------------
(* The steps of a session. *)

\* What the invariant says of one session, and of no session but one.
LEMMA SessionFacts ==
  ASSUME ViewsAssumption, ViewsIInv, NEW s \in Viewers
  PROVE  /\ SessionFits(session[s], acquire[s].at) /\ session[s] \in Sessions
         /\ acquire[s] \in Acquires /\ 0 \in 0..MaxWayvnc
BY DEF ViewsIInv, ViewsFit, SessionFits, ViewsAssumption

\* A step that changes neither the view, the start, the state, the mode nor the preview of t.
LEMMA SameFits ==
  ASSUME NEW t, NEW at, SessionFits(t, at), NEW r \in Sessions,
         r.view = t.view, r.start = t.start, r.state = t.state, r.mode = t.mode,
         r.timer = t.timer, r.capture = t.capture, r.view # 0 => r.rfb = "open"
  PROVE  SessionFits(r, at)
BY DEF SessionFits

\* A new session fits, and has no view yet.
LEMMA CreateSessionKeeps ==
  ASSUME ViewsAssumption, ViewsIInv, NEW s \in Viewers, CreateSession(s)
  PROVE  ViewsIInv'
<1> DEFINE t == [NewSession EXCEPT !.state = "connecting"]
<1>1. SessionFits(session[s], acquire[s].at) /\ session[s].state = "none" /\ 0 \in 0..MaxWayvnc
  BY SessionFacts DEF CreateSession
<1>2. t \in Sessions BY <1>1 DEF NewSession, Sessions, Modes
<1>3. t.view = 0 /\ t.start = "no" /\ t.state = "connecting" /\ t.mode = "idle" BY DEF NewSession
<1>4. ~(acquire[s].at # "no") BY <1>1 DEF SessionFits
<1> HIDE DEF t
<1>5. SessionFits(t, acquire[s].at) BY <1>2, <1>3, <1>4 DEF SessionFits
<1>6. Only(s, t) /\ UNCHANGED <<acquire, running>> BY DEF CreateSession, t
<1> QED BY <1>5, <1>6, OnlyKeeps

\* A socket is reserved for a session that may use one.
LEMMA ReserveSocketKeeps ==
  ASSUME ViewsAssumption, ViewsIInv, NEW s \in Viewers, ReserveSocket(s)
  PROVE  ViewsIInv'
<1> DEFINE t == [session[s] EXCEPT !.control = "reserved"]
           u == [session[s] EXCEPT !.rfb = "reserved"]
<1>1. SessionFits(session[s], acquire[s].at) /\ session[s] \in Sessions BY SessionFacts
<1>2. SessionFits(t, acquire[s].at)
  <2>1. t \in Sessions BY <1>1 DEF Sessions
  <2>2. /\ t.view = session[s].view /\ t.start = session[s].start /\ t.state = session[s].state
        /\ t.mode = session[s].mode /\ t.timer = session[s].timer
        /\ t.capture = session[s].capture /\ t.rfb = session[s].rfb
    BY <1>1 DEF Sessions
  <2> HIDE DEF t
  <2> QED BY <1>1, <2>1, <2>2 DEF SessionFits
<1>3. session[s].rfb = "none" => SessionFits(u, acquire[s].at)
  <2> SUFFICES ASSUME session[s].rfb = "none" PROVE SessionFits(u, acquire[s].at) OBVIOUS
  <2>1. u \in Sessions BY <1>1 DEF Sessions
  <2>2. /\ u.view = session[s].view /\ u.start = session[s].start /\ u.state = session[s].state
        /\ u.mode = session[s].mode /\ u.timer = session[s].timer
        /\ u.capture = session[s].capture
    BY <1>1 DEF Sessions
  <2>3. session[s].view = 0 BY <1>1 DEF SessionFits
  <2> HIDE DEF u
  <2> QED BY <1>1, <2>1, <2>2, <2>3, SameFits
<1>4. /\ Only(s, t) \/ (Only(s, u) /\ session[s].rfb = "none")
      /\ UNCHANGED <<acquire, running>>
  BY DEF ReserveSocket
<1> HIDE DEF t, u
<1> QED BY <1>2, <1>3, <1>4, OnlyKeeps

\* A reservation that is given up leaves the session without that socket.
LEMMA CancelReservationKeeps ==
  ASSUME ViewsAssumption, ViewsIInv, NEW s \in Viewers, CancelReservation(s)
  PROVE  ViewsIInv'
<1> DEFINE t == [session[s] EXCEPT !.control = "none"]
           u == [session[s] EXCEPT !.rfb = "none"]
<1>1. SessionFits(session[s], acquire[s].at) /\ session[s] \in Sessions BY SessionFacts
<1>2. SessionFits(t, acquire[s].at)
  <2>1. t \in Sessions BY <1>1 DEF Sessions
  <2>2. /\ t.view = session[s].view /\ t.start = session[s].start /\ t.state = session[s].state
        /\ t.mode = session[s].mode /\ t.timer = session[s].timer
        /\ t.capture = session[s].capture /\ t.rfb = session[s].rfb
    BY <1>1 DEF Sessions
  <2> HIDE DEF t
  <2> QED BY <1>1, <2>1, <2>2 DEF SessionFits
<1>3. session[s].rfb = "reserved" => SessionFits(u, acquire[s].at)
  <2> SUFFICES ASSUME session[s].rfb = "reserved" PROVE SessionFits(u, acquire[s].at) OBVIOUS
  <2>1. u \in Sessions BY <1>1 DEF Sessions
  <2>2. /\ u.view = session[s].view /\ u.start = session[s].start /\ u.state = session[s].state
        /\ u.mode = session[s].mode /\ u.timer = session[s].timer
        /\ u.capture = session[s].capture
    BY <1>1 DEF Sessions
  <2>3. session[s].view = 0 BY <1>1 DEF SessionFits
  <2> HIDE DEF u
  <2> QED BY <1>1, <2>1, <2>2, <2>3, SameFits
<1>4. /\ Only(s, t) \/ (Only(s, u) /\ session[s].rfb = "reserved")
      /\ UNCHANGED <<acquire, running>>
  BY DEF CancelReservation
<1> HIDE DEF t, u
<1> QED BY <1>2, <1>3, <1>4, OnlyKeeps

\* The control socket opens the session, which is connecting until then.
LEMMA OpenControlKeeps ==
  ASSUME ViewsAssumption, ViewsIInv, NEW s \in Viewers, OpenControl(s)
  PROVE  ViewsIInv'
<1> DEFINE t == [session[s] EXCEPT !.control = "open", !.state = "open"]
<1>1. SessionFits(session[s], acquire[s].at) /\ session[s] \in Sessions BY SessionFacts
<1>2. t \in Sessions BY <1>1 DEF Sessions
<1>3. /\ t.view = session[s].view /\ t.start = session[s].start /\ t.state = "open"
      /\ t.mode = session[s].mode /\ t.timer = session[s].timer
      /\ t.capture = session[s].capture /\ t.rfb = session[s].rfb
  BY <1>1 DEF Sessions
<1>4. /\ session[s].state \in {"connecting", "open"} /\ Only(s, t)
      /\ UNCHANGED <<acquire, running>>
  BY DEF OpenControl, Usable
<1> HIDE DEF t
<1>5. SessionFits(t, acquire[s].at) BY <1>1, <1>2, <1>3, <1>4 DEF SessionFits
<1> QED BY <1>4, <1>5, OnlyKeeps

\* The RFB socket opens: the start of the view begins, without a view yet.
LEMMA OpenRfbKeeps ==
  ASSUME ViewsAssumption, ViewsIInv, NEW s \in Viewers, OpenRfb(s)
  PROVE  ViewsIInv'
<1> DEFINE t == [session[s] EXCEPT !.rfb = "open"]
           all == {o \in Viewers : session[o].ending}
           u == [t EXCEPT !.start = "clearing", !.after = all]
<1>1. SessionFits(session[s], acquire[s].at) /\ session[s] \in Sessions BY SessionFacts
<1>2. t \in Sessions BY <1>1 DEF Sessions
<1>3. /\ t.view = session[s].view /\ t.start = session[s].start /\ t.state = session[s].state
      /\ t.mode = session[s].mode /\ t.timer = session[s].timer
      /\ t.capture = session[s].capture /\ t.rfb = "open"
  BY <1>1 DEF Sessions
<1>4. u \in Sessions
  <2>1. all \in SUBSET Viewers OBVIOUS
  <2> HIDE DEF all, t
  <2>2. [t EXCEPT !.start = "clearing"] \in Sessions BY <1>2 DEF Sessions
  <2> QED BY <2>1, <2>2 DEF Sessions
<1>5. /\ u.view = t.view /\ u.start = "clearing" /\ u.state = t.state
      /\ u.mode = t.mode /\ u.timer = t.timer /\ u.capture = t.capture /\ u.rfb = t.rfb
  <2> HIDE DEF all, t
  <2> QED BY <1>2 DEF Sessions
<1>6. /\ Only(s, RfbStarted(t)) /\ UNCHANGED <<acquire, running>>
      /\ session[s].state \in {"connecting", "open"}
  BY DEF OpenRfb, Usable
<1>7. RfbStarted(t) = t \/ (RfbStarted(t) = u /\ t.view = 0 /\ t.start = "no") BY DEF RfbStarted
<1> HIDE DEF t, u
<1>8. SessionFits(t, acquire[s].at) BY <1>1, <1>2, <1>3 DEF SessionFits
<1>9. t.view = 0 /\ t.start = "no" => SessionFits(u, acquire[s].at)
  BY <1>3, <1>4, <1>5, <1>6, <1>8 DEF SessionFits
<1> QED BY <1>6, <1>7, <1>8, <1>9, OnlyKeeps

\* A session that ends, fails or loses its view keeps the invariant.
LEMMA LeavingKeeps ==
  ASSUME ViewsAssumption, ViewsIInv, NEW s \in Viewers,
         ControlClosed(s) \/ RfbClosed(s) \/ FailureDelivered(s) \/ ViewBreaks(s)
  PROVE  ViewsIInv'
<1>1. SessionFits(session[s], acquire[s].at) BY SessionFacts
<1> QED BY <1>1, DetachedFits, OnlyKeeps DEF ControlClosed, RfbClosed, FailureDelivered, ViewBreaks

\* A mode that is left for another gives the expanded view up; the preview sets its timer.
LEMMA SetViewModeKeeps ==
  ASSUME ViewsAssumption, ViewsIInv, NEW s \in Viewers, NEW mode \in Modes, SetViewMode(s, mode)
  PROVE  ViewsIInv'
<1> DEFINE t == IF session[s].mode = "expanded" /\ mode # "expanded"
                THEN Detached(session[s]) ELSE session[s]
           u == [t EXCEPT !.mode = mode, !.timer = mode = "preview"]
<1>1. SessionFits(session[s], acquire[s].at) /\ session[s] \in Sessions BY SessionFacts
<1>2. SessionFits(t, acquire[s].at) /\ (mode # "expanded" => t.view = 0)
  BY <1>1, DetachedFits DEF SessionFits
<1>3. Only(s, u) /\ UNCHANGED <<acquire, running>> BY DEF SetViewMode
<1>4. t.state = "open" BY <1>1 DEF SetViewMode, Detached, Sessions
<1> HIDE DEF t
<1>5. t \in Sessions BY <1>2 DEF SessionFits
<1>6. u \in Sessions BY <1>5 DEF Sessions
<1>7. /\ u.view = t.view /\ u.start = t.start /\ u.state = t.state /\ u.rfb = t.rfb
      /\ u.mode = mode /\ (u.timer <=> mode = "preview")
  BY <1>5 DEF Sessions
<1> HIDE DEF u
<1>8. SessionFits(u, acquire[s].at) BY <1>2, <1>4, <1>6, <1>7 DEF SessionFits
<1> QED BY <1>3, <1>8, OnlyKeeps

\* The timer of a preview leaves a capture under way, so that the preview goes on.
LEMMA TimerFiresKeeps ==
  ASSUME ViewsAssumption, ViewsIInv, NEW s \in Viewers, TimerFires(s)
  PROVE  ViewsIInv'
<1> DEFINE t == [session[s] EXCEPT !.timer = FALSE, !.task = FALSE]
           u == [t EXCEPT !.capture = TRUE, !.task = TRUE]
<1>1. SessionFits(session[s], acquire[s].at) /\ session[s] \in Sessions BY SessionFacts
<1>2. t \in Sessions BY <1>1 DEF Sessions
<1>3. /\ t.view = session[s].view /\ t.start = session[s].start /\ t.state = session[s].state
      /\ t.mode = session[s].mode /\ t.capture = session[s].capture /\ t.rfb = session[s].rfb
  BY <1>1 DEF Sessions
<1>4. \/ Only(s, t) /\ t.capture
      \/ Only(s, u)
  BY <1>3 DEF TimerFires
<1>5. UNCHANGED <<acquire, running>> BY DEF TimerFires
<1> HIDE DEF t
<1>6. u \in Sessions BY <1>2 DEF Sessions
<1>7. /\ u.view = t.view /\ u.start = t.start /\ u.state = t.state /\ u.mode = t.mode
      /\ u.capture /\ u.rfb = t.rfb
  BY <1>2 DEF Sessions
<1> HIDE DEF u
<1>8. t.capture => SessionFits(t, acquire[s].at) BY <1>1, <1>2, <1>3 DEF SessionFits
<1>9. SessionFits(u, acquire[s].at) BY <1>1, <1>3, <1>6, <1>7 DEF SessionFits
<1> QED BY <1>4, <1>5, <1>8, <1>9, OnlyKeeps

\* A capture that ends sets the timer again in a preview, or fails the session.
LEMMA CaptureEndsKeeps ==
  ASSUME ViewsAssumption, ViewsIInv, NEW s \in Viewers, CaptureEnds(s)
  PROVE  ViewsIInv'
<1> DEFINE t == [session[s] EXCEPT !.capture = FALSE, !.task = FALSE]
           on == t.timer \/ (t.state = "open" /\ t.mode = "preview")
           u == [t EXCEPT !.timer = on]
<1>1. SessionFits(session[s], acquire[s].at) /\ session[s] \in Sessions BY SessionFacts
<1>2. t \in Sessions BY <1>1 DEF Sessions
<1>3. /\ t.view = session[s].view /\ t.start = session[s].start /\ t.state = session[s].state
      /\ t.mode = session[s].mode /\ t.rfb = session[s].rfb
  BY <1>1 DEF Sessions
<1>4. Only(s, u) \/ Only(s, Failed(t)) BY DEF CaptureEnds
<1>5. UNCHANGED <<acquire, running>> BY DEF CaptureEnds
<1> HIDE DEF t
<1>6. u \in Sessions
  <2>1. on \in BOOLEAN BY <1>2 DEF Sessions
  <2> HIDE DEF on
  <2> QED BY <1>2, <2>1 DEF Sessions
<1>7. /\ u.view = t.view /\ u.start = t.start /\ u.state = t.state /\ u.mode = t.mode
      /\ u.rfb = t.rfb /\ u.timer = on
  <2> HIDE DEF on
  <2> QED BY <1>2 DEF Sessions
<1> HIDE DEF u
<1>8. SessionFits(u, acquire[s].at) BY <1>1, <1>3, <1>6, <1>7 DEF SessionFits
<1>9. SessionFits(Failed(t), acquire[s].at)
  <2> DEFINE q == [t EXCEPT !.state = "failed"]
  <2>1. q \in Sessions BY <1>2 DEF Sessions
  <2>2. q.view = t.view /\ q.start = t.start /\ q.state = "failed" BY <1>2 DEF Sessions
  <2>3. Failed(t) \in Sessions
    <3>1. 0 \in 0..MaxWayvnc BY SessionFacts
    <3>2. [t EXCEPT !.rfb = "none"] \in Sessions BY <1>2 DEF Sessions
    <3>3. Detached(t) \in Sessions BY <3>1, <3>2 DEF Detached, Sessions
    <3>4. [Detached(t) EXCEPT !.state = "failed"] \in Sessions BY <3>3 DEF Sessions
    <3>5. [Detached(t) EXCEPT !.state = "failed", !.mode = "idle"] \in Sessions
      BY <3>4 DEF Sessions, Modes
    <3> QED BY <3>5 DEF Failed, Sessions
  <2>4. Failed(t).view = 0 /\ Failed(t).start = t.start /\ Failed(t).state = "failed"
    BY <1>2 DEF Failed, Detached, Sessions
  <2> QED BY <1>1, <1>3, <2>3, <2>4 DEF SessionFits
<1> QED BY <1>4, <1>5, <1>8, <1>9, OnlyKeeps

\* The end of a termination changes nothing else of the session.
LEMMA TerminatedKeeps ==
  ASSUME ViewsAssumption, ViewsIInv, NEW s \in Viewers, Terminated(s)
  PROVE  ViewsIInv'
<1> DEFINE t == [session[s] EXCEPT !.ending = FALSE]
<1>1. SessionFits(session[s], acquire[s].at) /\ session[s] \in Sessions BY SessionFacts
<1>2. t \in Sessions BY <1>1 DEF Sessions
<1>3. /\ t.view = session[s].view /\ t.start = session[s].start /\ t.state = session[s].state
      /\ t.mode = session[s].mode /\ t.timer = session[s].timer
      /\ t.capture = session[s].capture /\ t.rfb = session[s].rfb
  BY <1>1 DEF Sessions
<1>4. Only(s, t) /\ UNCHANGED <<acquire, running>> BY DEF Terminated
<1> HIDE DEF t
<1>5. SessionFits(t, acquire[s].at) BY <1>1, <1>2, <1>3 DEF SessionFits
<1> QED BY <1>4, <1>5, OnlyKeeps

\* A Screen that stops closes every session.
LEMMA ScreenStopsKeeps ==
  ASSUME ViewsAssumption, ViewsIInv, ScreenStops
  PROVE  ViewsIInv'
<1> DEFINE ss == [s \in Viewers |-> IF Present(s) THEN Closed(session[s]) ELSE session[s]]
<1>1. \A s \in Viewers : SessionFits(ss[s], acquire[s].at)
  BY SessionFacts, DetachedFits
<1>2. ss \in [Viewers -> Sessions] BY <1>1 DEF SessionFits
<1>3. Become(ss) /\ running' \in BOOLEAN /\ acquire' = acquire BY DEF ScreenStops
<1> HIDE DEF ss
<1>4. acquire \in [Viewers -> Acquires] /\ AcquiresKnow(acquire, vnc) BY DEF ViewsIInv, ViewsFit
<1>5. PICK a : a = acquire OBVIOUS
<1>6. a = acquire' BY <1>3, <1>5
<1> QED BY <1>1, <1>2, <1>3, <1>4, <1>5, <1>6, BecomeKeeps
-----------------------------------------------------------------------------
(* The steps of acquiring a view. *)

\* The start of a view goes on: its session still has none.
LEMMA StartedFits ==
  ASSUME ViewsAssumption, NEW t, SessionFits(t, "no"), t.start = "clearing"
  PROVE  /\ SessionFits([t EXCEPT !.start = "no", !.after = {}], "no")
         /\ SessionFits([t EXCEPT !.start = "acquiring", !.after = {}], "asked")
<1> DEFINE r(st) == [t EXCEPT !.start = st, !.after = {}]
<1>1. t \in Sessions /\ t.view = 0 /\ t.state # "none" BY DEF SessionFits
<1>2. ASSUME NEW st \in {"no", "acquiring"}
      PROVE  /\ r(st) \in Sessions
             /\ r(st).view = t.view /\ r(st).start = st /\ r(st).state = t.state
             /\ r(st).mode = t.mode /\ r(st).timer = t.timer /\ r(st).capture = t.capture
  <2>1. [t EXCEPT !.start = st] \in Sessions BY <1>1 DEF Sessions
  <2>2. r(st) \in Sessions BY <2>1 DEF Sessions
  <2>3. /\ r(st).view = t.view /\ r(st).start = st /\ r(st).state = t.state
        /\ r(st).mode = t.mode /\ r(st).timer = t.timer /\ r(st).capture = t.capture
    BY <1>1 DEF Sessions
  <2> QED BY <2>2, <2>3
<1> HIDE DEF r
<1>3. SessionFits(r("no"), "no") BY <1>1, <1>2 DEF SessionFits
<1>4. SessionFits(r("acquiring"), "asked") BY <1>1, <1>2 DEF SessionFits
<1> QED BY <1>3, <1>4 DEF r

\* A session asks for its view once.
LEMMA StartAcquiresKeeps ==
  ASSUME ViewsAssumption, ViewsIInv, NEW s \in Viewers, StartAcquires(s)
  PROVE  ViewsIInv'
<1> DEFINE t == [session[s] EXCEPT !.start = "no", !.after = {}]
           u == [t EXCEPT !.start = "acquiring"]
<1>0. ViewsFit(session, acquire, vnc) /\ running \in BOOLEAN BY DEF ViewsIInv
<1>1. /\ SessionFits(session[s], acquire[s].at) /\ session[s] \in Sessions
      /\ acquire[s] \in Acquires
  BY SessionFacts
<1>2. session[s].start = "clearing" BY DEF StartAcquires
<1>3. acquire[s].at = "no" /\ session[s].state # "none" BY <1>1, <1>2 DEF SessionFits
<1>4. SessionFits(t, acquire[s].at) BY <1>1, <1>2, <1>3, StartedFits
<1>5. u = [session[s] EXCEPT !.start = "acquiring", !.after = {}] BY <1>1 DEF Sessions
<1>6. SessionFits(u, "asked") BY <1>1, <1>2, <1>3, <1>5, StartedFits
<1>7. SessionFits(Failed(t), acquire[s].at) BY <1>4, DetachedFits
<1>8. \/ Only(s, u) /\ acquire' = [acquire EXCEPT ![s].at = "asked"]
      \/ Only(s, t) /\ acquire' = acquire
      \/ Only(s, Failed(t)) /\ acquire' = acquire
  BY DEF StartAcquires
<1>9. running' = running BY DEF StartAcquires
<1> HIDE DEF t, u
<1>10. CASE Only(s, u) /\ acquire' = [acquire EXCEPT ![s].at = "asked"]
  <2> DEFINE ss == [session EXCEPT ![s] = u]
  <2>1. PICK a : a = acquire' OBVIOUS
  <2>2. /\ session \in [Viewers -> Sessions] /\ acquire \in [Viewers -> Acquires]
        /\ AcquiresKnow(acquire, vnc) /\ \A o \in Viewers : SessionFits(session[o], acquire[o].at)
    BY <1>0 DEF ViewsFit
  <2>3. a = [acquire EXCEPT ![s] = [acquire[s] EXCEPT !.at = "asked"]] BY <1>10, <2>1
  <2>4. [acquire[s] EXCEPT !.at = "asked"] \in Acquires BY <1>1 DEF Acquires
  <2>5. [acquire[s] EXCEPT !.at = "asked"].at = "asked" BY <1>1 DEF Acquires
  <2>6. /\ a \in [Viewers -> Acquires] /\ a[s].at = "asked"
        /\ \A o \in Viewers : o # s => a[o] = acquire[o]
    BY <2>2, <2>3, <2>4, <2>5
  <2>7. u \in Sessions BY <1>6 DEF SessionFits
  <2>8. /\ ss \in [Viewers -> Sessions]
        /\ \A o \in Viewers : ss[o] = IF o = s THEN u ELSE session[o]
    BY <2>2, <2>7
  <2>9. Become(ss) BY <1>10 DEF Only
  <2> HIDE DEF ss
  <2>10. \A o \in Viewers : SessionFits(ss[o], a[o].at) BY <1>6, <2>2, <2>6, <2>8
  <2>11. \A o \in Viewers : acquire[o].at # "no" => a[o].at # "no" BY <2>6
  <2>12. AcquiresKnow(a, vnc) BY <2>6, <1>3, <2>2 DEF AcquiresKnow
  <2>13. running' \in BOOLEAN BY <1>0, <1>9
  <2> QED BY <2>1, <2>6, <2>8, <2>9, <2>10, <2>11, <2>12, <2>13, BecomeKeeps
<1> QED BY <1>4, <1>7, <1>8, <1>9, <1>10, OnlyKeeps

\* A session whose acquire has failed: it had no view.
LEMMA RefusedIs ==
  ASSUME ViewsAssumption, ViewsIInv, NEW s \in Viewers, acquire[s].at # "no"
  PROVE  SessionFits(Refused(s), "no") /\ Refused(s).view = 0 /\ session[s].view = 0
<1> DEFINE t == [session[s] EXCEPT !.start = "no"]
<1>1. SessionFits(session[s], acquire[s].at) /\ session[s] \in Sessions BY SessionFacts
<1>2. session[s].start = "acquiring" /\ session[s].view = 0 /\ session[s].state # "none"
  BY <1>1 DEF SessionFits
<1>3. t \in Sessions BY <1>1 DEF Sessions
<1>4. /\ t.view = session[s].view /\ t.start = "no" /\ t.state = session[s].state
      /\ t.mode = session[s].mode /\ t.rfb = session[s].rfb /\ t.timer = session[s].timer
      /\ t.capture = session[s].capture
  BY <1>1 DEF Sessions
<1>5. Refused(s) = t \/ Refused(s) = Failed(t) BY DEF Refused
<1> HIDE DEF t
<1>6. SessionFits(t, "no") BY <1>1, <1>2, <1>3, <1>4 DEF SessionFits
<1>7. SessionFits(Failed(t), "no") BY <1>6, DetachedFits
<1>8. Failed(t).view = 0 BY <1>3 DEF Failed, Detached, Sessions
<1> QED BY <1>2, <1>4, <1>5, <1>6, <1>7, <1>8

\* The end of the acquire of one session, which holds a view then or not.
LEMMA AcquireOver ==
  ASSUME ViewsAssumption, ViewsIInv, NEW s \in Viewers, acquire[s].at \in {"asked", "connecting"},
         acquire' = [acquire EXCEPT ![s] = NoAcquire],
         NEW t, SessionFits(t, "no"), session' = [session EXCEPT ![s] = t],
         NEW v, v = vnc', v \in Processes, OneIsKnown(v), v.start = vnc.start,
         v = vnc \/ (v.shared = 0 /\ v.stopped = vnc.stopped \cup {vnc.shared}),
         v.shared # 0 => \/ t.view = v.shared
                         \/ Holders(session, v.shared) # {} \/ Pending # {s},
         running' \in BOOLEAN
  PROVE  ViewsIInv'
<1>0. ViewsFit(session, acquire, vnc) BY DEF ViewsIInv
<1>1. /\ session \in [Viewers -> Sessions] /\ acquire \in [Viewers -> Acquires]
      /\ AcquiresKnow(acquire, vnc) /\ \A o \in Viewers : SessionFits(session[o], acquire[o].at)
      /\ NoAcquire \in Acquires /\ NoAcquire.at = "no" /\ t \in Sessions
  BY <1>0 DEF ViewsFit, NoAcquire, Acquires, ViewsAssumption, SessionFits
<1>2. PICK ss : ss = session' OBVIOUS
<1>3. PICK a : a = acquire' OBVIOUS
<1>4. /\ ss \in [Viewers -> Sessions]
      /\ \A o \in Viewers : ss[o] = IF o = s THEN t ELSE session[o]
  BY <1>1, <1>2
<1>5. /\ a \in [Viewers -> Acquires]
      /\ \A o \in Viewers : a[o] = IF o = s THEN NoAcquire ELSE acquire[o]
  BY <1>1, <1>3
<1>6. \A o \in Viewers : SessionFits(ss[o], a[o].at) BY <1>1, <1>4, <1>5
<1>7. AcquiresKnow(a, v)
  <2>1. \A o \in Viewers : a[o].at \in {"starting", "connecting"} => a[o] = acquire[o]
    BY <1>1, <1>5
  <2>2. \A o \in Viewers : acquire[o].at = "starting" => a[o] = acquire[o] BY <1>5
  <2>3. CASE v = vnc BY <1>1, <2>1, <2>2, <2>3 DEF AcquiresKnow
  <2>4. CASE v.shared = 0 /\ v.stopped = vnc.stopped \cup {vnc.shared}
    BY <1>1, <2>1, <2>2, <2>4 DEF AcquiresKnow
  <2> QED BY <2>3, <2>4
<1>8. v.shared # 0 => \E o \in Viewers : ss[o].view = v.shared \/ a[o].at # "no"
  <2> SUFFICES ASSUME v.shared # 0
               PROVE  \E o \in Viewers : ss[o].view = v.shared \/ a[o].at # "no"
    OBVIOUS
  <2>1. CASE t.view = v.shared BY <1>4, <2>1
  <2>2. CASE Holders(session, v.shared) # {}
    <3>1. PICK o \in Viewers : session[o].view = v.shared BY <2>2 DEF Holders
    <3>2. session[s].view = 0 BY <1>1 DEF SessionFits
    <3>3. o # s BY <3>1, <3>2
    <3> QED BY <1>4, <3>1, <3>3
  <2>3. CASE Pending # {s}
    <3>1. s \in Pending BY DEF Pending
    <3>2. PICK o \in Viewers : o # s /\ acquire[o].at # "no" BY <2>3, <3>1 DEF Pending
    <3> QED BY <1>5, <3>2
  <2> QED BY <2>1, <2>2, <2>3
<1>9. ViewsFit(ss, a, v) BY <1>4, <1>5, <1>6, <1>7, <1>8 DEF ViewsFit
<1> QED BY <1>2, <1>3, <1>9, ViewsPrimed

\* One acquire goes on, its session stays.
LEMMA AcquireGoesOn ==
  ASSUME ViewsAssumption, ViewsIInv, NEW s \in Viewers, acquire[s].at \in {"asked", "connecting"},
         NEW q \in Acquires, q.at # "no", acquire' = [acquire EXCEPT ![s] = q],
         session' = session,
         NEW v, v = vnc', v \in Processes, OneIsKnown(v),
         \/ v = vnc /\ (q.at = "starting" => q.wayvnc = v.start /\ v.start # 0)
         \/ v.shared = 0 /\ v.start = vnc.start /\ v.stopped = vnc.stopped \cup {vnc.shared}
            /\ q.at = "failing"
         \/ v.shared = vnc.shared /\ v.stopped = vnc.stopped /\ q.at = "starting"
            /\ q.wayvnc = v.start /\ v.start # 0 /\ vnc.start = 0,
         q.at = "connecting" => q.wayvnc # 0 /\ q.wayvnc = v.shared,
         running' \in BOOLEAN
  PROVE  ViewsIInv'
<1>0. ViewsFit(session, acquire, vnc) BY DEF ViewsIInv
<1>1. /\ session \in [Viewers -> Sessions] /\ acquire \in [Viewers -> Acquires]
      /\ AcquiresKnow(acquire, vnc) /\ \A o \in Viewers : SessionFits(session[o], acquire[o].at)
  BY <1>0 DEF ViewsFit
<1>2. PICK ss : ss = session' OBVIOUS
<1>3. PICK a : a = acquire' OBVIOUS
<1>5. /\ a \in [Viewers -> Acquires]
      /\ \A o \in Viewers : a[o] = IF o = s THEN q ELSE acquire[o]
  BY <1>1, <1>3
<1>6. \A o \in Viewers : SessionFits(ss[o], a[o].at) BY <1>1, <1>2, <1>5 DEF SessionFits
<1>7. AcquiresKnow(a, v)
  <2>1. CASE v = vnc /\ (q.at = "starting" => q.wayvnc = v.start /\ v.start # 0)
    BY <1>1, <1>5, <2>1 DEF AcquiresKnow
  <2>2. CASE v.shared = 0 /\ v.start = vnc.start /\ v.stopped = vnc.stopped \cup {vnc.shared}
             /\ q.at = "failing"
    BY <1>1, <1>5, <2>2 DEF AcquiresKnow
  <2>3. CASE v.shared = vnc.shared /\ v.stopped = vnc.stopped /\ q.at = "starting"
             /\ q.wayvnc = v.start /\ v.start # 0 /\ vnc.start = 0
    BY <1>1, <1>5, <2>3 DEF AcquiresKnow
  <2> QED BY <2>1, <2>2, <2>3
<1>8. \E o \in Viewers : ss[o].view = v.shared \/ a[o].at # "no" BY <1>5
<1>9. ViewsFit(ss, a, v) BY <1>1, <1>2, <1>5, <1>6, <1>7, <1>8 DEF ViewsFit
<1> QED BY <1>2, <1>3, <1>9, ViewsPrimed

\* A failed acquire stops the WayVNC that no other session wants.
LEMMA AcquireFailsKeeps ==
  ASSUME ViewsAssumption, ViewsIInv, NEW s \in Viewers, acquire[s].at \in {"asked", "connecting"},
         AcquireFails(s), running' \in BOOLEAN
  PROVE  ViewsIInv'
<1>0. ViewsFit(session, acquire, vnc) BY DEF ViewsIInv
<1>1. vnc \in Processes /\ OneIsKnown(vnc) /\ acquire[s] \in Acquires BY <1>0 DEF ViewsFit
<1>2. CASE vnc.shared # 0 /\ Holders(session, vnc.shared) = {} /\ Pending = {s}
  <2> DEFINE q == [acquire[s] EXCEPT !.at = "failing"]
  <2>1. q \in Acquires /\ q.at = "failing" BY <1>1 DEF Acquires
  <2>2. /\ acquire' = [acquire EXCEPT ![s] = q] /\ session' = session
        /\ vnc' = Stopping(vnc, vnc.shared)
    BY <1>2 DEF AcquireFails
  <2> HIDE DEF q
  <2>3. PICK v : v = vnc' OBVIOUS
  <2>4. /\ v \in Processes /\ OneIsKnown(v) /\ v.shared = 0 /\ v.start = 0
        /\ v.stopped = vnc.stopped \cup {vnc.shared}
    BY <1>1, <1>2, <2>2, <2>3, StoppingIs
  <2>5. vnc.start = 0 BY <1>1, <1>2 DEF OneIsKnown
  <2> QED BY <2>1, <2>2, <2>3, <2>4, <2>5, AcquireGoesOn
<1>3. CASE ~(vnc.shared # 0 /\ Holders(session, vnc.shared) = {} /\ Pending = {s})
  <2>1. /\ acquire' = [acquire EXCEPT ![s] = NoAcquire] /\ vnc' = vnc
        /\ session' = [session EXCEPT ![s] = Refused(s)]
    BY <1>3 DEF AcquireFails
  <2>2. SessionFits(Refused(s), "no") BY RefusedIs
  <2>3. PICK t : t = Refused(s) OBVIOUS
  <2>4. PICK v : v = vnc' OBVIOUS
  <2> QED BY <1>1, <1>3, <2>1, <2>2, <2>3, <2>4, AcquireOver
<1> QED BY <1>2, <1>3

\* An acquire joins the WayVNC in use, or one that starts, or starts one.
LEMMA EnsureWayvncKeeps ==
  ASSUME ViewsAssumption, ViewsIInv, NEW s \in Viewers, EnsureWayvnc(s)
  PROVE  ViewsIInv'
<1>0. ViewsFit(session, acquire, vnc) /\ running \in BOOLEAN BY DEF ViewsIInv
<1>1. /\ vnc \in Processes /\ OneIsKnown(vnc) /\ AcquiresKnow(acquire, vnc)
      /\ MaxWayvnc \in Nat \ {0}
  BY <1>0 DEF ViewsFit, ViewsAssumption
<1>2. acquire[s].at = "asked" /\ vnc.stop = 0 /\ running' \in BOOLEAN
  BY <1>0 DEF EnsureWayvnc
<1>3. CASE AcquireFails(s) BY <1>2, <1>3, AcquireFailsKeeps
<1> DEFINE Q(at, w) == [at |-> at, wayvnc |-> w]
<1>4. \A at \in {"starting", "connecting"}, w \in 0..MaxWayvnc :
        Q(at, w) \in Acquires /\ Q(at, w).at = at /\ Q(at, w).wayvnc = w
  BY DEF Acquires
<1>5. CASE /\ vnc.shared # 0 /\ UNCHANGED <<session, vnc>>
           /\ acquire' = [acquire EXCEPT ![s] = Q("connecting", vnc.shared)]
  <2>1. PICK q : q = Q("connecting", vnc.shared) OBVIOUS
  <2>2. vnc.shared \in 0..MaxWayvnc BY <1>1 DEF Processes
  <2>3. q \in Acquires /\ q.at = "connecting" /\ q.wayvnc = vnc.shared BY <1>4, <2>1, <2>2
  <2>4. PICK v : v = vnc' OBVIOUS
  <2> HIDE DEF Q
  <2> QED BY <1>1, <1>2, <1>5, <2>1, <2>3, <2>4, AcquireGoesOn
<1>6. CASE /\ vnc.start # 0 /\ UNCHANGED <<session, vnc>>
           /\ acquire' = [acquire EXCEPT ![s] = Q("starting", vnc.start)]
  <2>1. PICK q : q = Q("starting", vnc.start) OBVIOUS
  <2>2. vnc.start \in 0..MaxWayvnc BY <1>1 DEF Processes
  <2>3. q \in Acquires /\ q.at = "starting" /\ q.wayvnc = vnc.start BY <1>4, <2>1, <2>2
  <2>4. PICK v : v = vnc' OBVIOUS
  <2> HIDE DEF Q
  <2> QED BY <1>1, <1>2, <1>6, <2>1, <2>3, <2>4, AcquireGoesOn
<1>7. CASE LET w == vnc.last + 1 IN
           /\ vnc.shared = 0 /\ vnc.start = 0 /\ vnc.last < MaxWayvnc
           /\ vnc' = [vnc EXCEPT !.start = w, !.last = w, !.alive = @ \cup {w}]
           /\ acquire' = [acquire EXCEPT ![s] = Q("starting", w)]
           /\ UNCHANGED session
  <2> DEFINE w == vnc.last + 1
             live == vnc.alive \cup {w}
             r == [vnc EXCEPT !.start = w, !.last = w, !.alive = live]
  <2>1. w \in 1..MaxWayvnc /\ w \in Nat \ {0} /\ vnc.last \in Nat BY <1>1, <1>7 DEF Processes
  <2>2. live \in SUBSET Wayvncs BY <1>1, <2>1 DEF Processes, Wayvncs
  <2>3. r \in Processes
    <3> HIDE DEF live, w
    <3>1. [vnc EXCEPT !.start = w] \in Processes BY <1>1, <2>1 DEF Processes
    <3>2. [vnc EXCEPT !.start = w, !.last = w] \in Processes BY <2>1, <3>1 DEF Processes
    <3> QED BY <2>2, <3>2 DEF Processes
  <2>4. /\ r.shared = 0 /\ r.start = w /\ r.stop = 0 /\ r.last = w /\ r.alive = live
        /\ r.stopped = vnc.stopped
    <3> HIDE DEF live, w
    <3> QED BY <1>1, <1>2, <1>7 DEF Processes
  <2>5. PICK v : v = r OBVIOUS
  <2>6. PICK q : q = Q("starting", w) OBVIOUS
  <2>7. v = vnc' /\ acquire' = [acquire EXCEPT ![s] = q] /\ session' = session
    BY <1>7, <2>5, <2>6
  <2>8. q \in Acquires /\ q.at = "starting" /\ q.wayvnc = w BY <1>4, <2>1, <2>6
  <2> HIDE DEF r, Q
  <2>9. OneIsKnown(v)
    <3>1. vnc.alive \subseteq {0} BY <1>1, <1>2, <1>7 DEF OneIsKnown
    <3>2. vnc.stopped \subseteq 1..vnc.last BY <1>1 DEF OneIsKnown
    <3>3. \A x \in 1..vnc.last : x \in vnc.stopped
      BY <1>1, <1>7, <2>1 DEF OneIsKnown
    <3>4. \A x \in 1..w : x \in 1..vnc.last \/ x = w BY <2>1
    <3>5. \A x \in 1..vnc.last : x \in 1..w /\ x # w BY <2>1
    <3>6. v.alive \subseteq {v.shared, v.start, v.stop} BY <2>4, <2>5, <3>1
    <3>7. v.stopped \subseteq 1..v.last /\ {v.shared, v.start} \subseteq 0..v.last
      BY <2>1, <2>4, <2>5, <3>2, <3>5
    <3>8. \A x \in 1..v.last : x \in v.stopped \/ x \in {v.shared, v.start}
      BY <2>4, <2>5, <3>3, <3>4
    <3>9. v.shared \notin v.stopped /\ v.start \notin v.stopped
      BY <2>1, <2>4, <2>5, <3>2, <3>5, <1>1, <1>7 DEF OneIsKnown
    <3> QED BY <2>4, <2>5, <3>6, <3>7, <3>8, <3>9 DEF OneIsKnown
  <2> HIDE DEF w, live
  <2> QED BY <1>2, <1>7, <2>1, <2>3, <2>4, <2>5, <2>7, <2>8, <2>9, AcquireGoesOn
<1> QED BY <1>3, <1>5, <1>6, <1>7 DEF EnsureWayvnc
-----------------------------------------------------------------------------
(* The steps of a WayVNC. *)

\* The WayVNC that started is in use by all who waited for it, or has failed all of them.
LEMMA WayvncStartedKeeps ==
  ASSUME ViewsAssumption, ViewsIInv, NEW w \in Wayvncs, WayvncStarted(w)
  PROVE  ViewsIInv'
<1>0. ViewsFit(session, acquire, vnc) /\ running \in BOOLEAN BY DEF ViewsIInv
<1>1. /\ session \in [Viewers -> Sessions] /\ acquire \in [Viewers -> Acquires]
      /\ vnc \in Processes /\ OneIsKnown(vnc) /\ AcquiresKnow(acquire, vnc)
      /\ \A s \in Viewers : SessionFits(session[s], acquire[s].at)
      /\ 0 \in 0..MaxWayvnc /\ w # 0 /\ w \in 0..MaxWayvnc /\ MaxWayvnc \in Nat
  BY <1>0 DEF ViewsFit, ViewsAssumption, Wayvncs
<1>2. vnc.start = w /\ vnc.shared = 0 /\ vnc.stop = 0 /\ running' \in BOOLEAN
  BY <1>0, <1>1 DEF WayvncStarted, OneIsKnown
<1>3. PICK a : a = acquire' OBVIOUS
<1>4. PICK ss : ss = session' OBVIOUS
<1>5. CASE /\ w \in vnc.alive
           /\ vnc' = [vnc EXCEPT !.start = 0, !.shared = w]
           /\ acquire' = [s \in Viewers |-> IF acquire[s].at = "starting"
                                            THEN [acquire[s] EXCEPT !.at = "connecting"]
                                            ELSE acquire[s]]
           /\ UNCHANGED session
  <2> DEFINE r == [vnc EXCEPT !.start = 0, !.shared = w]
  <2>1. r \in Processes BY <1>1 DEF Processes
  <2>2. /\ r.shared = w /\ r.start = 0 /\ r.stop = vnc.stop /\ r.last = vnc.last
        /\ r.alive = vnc.alive /\ r.stopped = vnc.stopped
    BY <1>1 DEF Processes
  <2>3. PICK v : v = r OBVIOUS
  <2>4. v = vnc' BY <1>5, <2>3
  <2> HIDE DEF r
  <2>5. OneIsKnown(v) BY <1>1, <1>2, <2>2, <2>3 DEF Processes, OneIsKnown
  <2>6. \A s \in Viewers :
          /\ acquire[s].at # "starting" => a[s] = acquire[s]
          /\ acquire[s].at = "starting" => a[s] = [acquire[s] EXCEPT !.at = "connecting"]
    BY <1>3, <1>5
  <2>7. \A s \in Viewers :
          /\ a[s] \in Acquires /\ a[s].wayvnc = acquire[s].wayvnc
          /\ acquire[s].at # "starting" => a[s].at = acquire[s].at
          /\ acquire[s].at = "starting" => a[s].at = "connecting"
    <3> SUFFICES ASSUME NEW s \in Viewers
                 PROVE  /\ a[s] \in Acquires /\ a[s].wayvnc = acquire[s].wayvnc
                        /\ acquire[s].at # "starting" => a[s].at = acquire[s].at
                        /\ acquire[s].at = "starting" => a[s].at = "connecting"
      OBVIOUS
    <3>1. acquire[s] \in Acquires BY <1>1
    <3>2. CASE acquire[s].at # "starting" BY <2>6, <3>1, <3>2
    <3>3. CASE acquire[s].at = "starting"
      <4>1. [acquire[s] EXCEPT !.at = "connecting"] \in Acquires BY <3>1 DEF Acquires
      <4>2. [acquire[s] EXCEPT !.at = "connecting"].wayvnc = acquire[s].wayvnc BY <3>1 DEF Acquires
      <4>3. [acquire[s] EXCEPT !.at = "connecting"].at = "connecting" BY <3>1 DEF Acquires
      <4> QED BY <2>6, <3>3, <4>1, <4>2, <4>3
    <3> QED BY <3>2, <3>3
  <2>8. a \in [Viewers -> Acquires] BY <1>3, <1>5, <2>7
  <2>9. \A s \in Viewers : SessionFits(ss[s], a[s].at)
    <3> SUFFICES ASSUME NEW s \in Viewers PROVE SessionFits(session[s], a[s].at) BY <1>4, <1>5
    <3>1. SessionFits(session[s], acquire[s].at) BY <1>1
    <3>2. a[s].at # "no" <=> acquire[s].at # "no" BY <2>7
    <3> QED BY <3>1, <3>2 DEF SessionFits
  <2>10. AcquiresKnow(a, v)
    BY <1>1, <1>2, <2>2, <2>3, <2>7 DEF AcquiresKnow
  <2>11. \E s \in Viewers : a[s].at # "no" BY <1>1, <1>2, <2>7 DEF AcquiresKnow
  <2>12. ViewsFit(ss, a, v)
    BY <1>1, <1>4, <1>5, <2>1, <2>3, <2>5, <2>8, <2>9, <2>10, <2>11 DEF ViewsFit
  <2> QED BY <1>2, <1>3, <1>4, <2>4, <2>12, ViewsPrimed
<1>6. CASE /\ vnc' = [vnc EXCEPT !.start = 0, !.alive = @ \ {w}, !.stopped = @ \cup {w}]
           /\ acquire' = [s \in Viewers |-> IF acquire[s].at = "starting"
                                            THEN NoAcquire ELSE acquire[s]]
           /\ session' = [s \in Viewers |-> IF acquire[s].at = "starting"
                                            THEN Refused(s) ELSE session[s]]
  <2> DEFINE live == vnc.alive \ {w}
             gone == vnc.stopped \cup {w}
             r == [vnc EXCEPT !.start = 0, !.alive = live, !.stopped = gone]
  <2>1. live \in SUBSET Wayvncs /\ gone \in SUBSET Wayvncs BY <1>1 DEF Processes
  <2>2. /\ r.shared = 0 /\ r.start = 0 /\ r.stop = 0 /\ r.last = vnc.last
        /\ r.alive = live /\ r.stopped = gone /\ r \in Processes
    <3> HIDE DEF live, gone
    <3>1. [vnc EXCEPT !.start = 0] \in Processes BY <1>1 DEF Processes
    <3>2. [vnc EXCEPT !.start = 0, !.alive = live] \in Processes BY <2>1, <3>1 DEF Processes
    <3>3. r \in Processes BY <2>1, <3>2 DEF Processes
    <3>4. /\ r.shared = 0 /\ r.start = 0 /\ r.stop = 0 /\ r.last = vnc.last
          /\ r.alive = live /\ r.stopped = gone
      BY <1>1, <1>2 DEF Processes
    <3> HIDE DEF r
    <3> QED BY <3>3, <3>4
  <2>3. PICK v : v = r OBVIOUS
  <2>4. v = vnc' BY <1>6, <2>3
  <2> HIDE DEF r
  <2>5. OneIsKnown(v)
    <3>1. vnc.last \in Nat BY <1>1 DEF Processes
    <3>2. w \in 1..vnc.last BY <1>1, <1>2 DEF OneIsKnown, Processes
    <3>3. live \subseteq {0} BY <1>1, <1>2 DEF OneIsKnown
    <3>4. gone \subseteq 1..vnc.last /\ 0 \notin gone BY <1>1, <3>1, <3>2 DEF OneIsKnown
    <3>5. \A x \in 1..vnc.last : x \in gone BY <1>1, <1>2, <3>1 DEF OneIsKnown
    <3>6. 0 \in 0..vnc.last BY <3>1
    <3> HIDE DEF live, gone
    <3> QED BY <2>2, <2>3, <3>3, <3>4, <3>5, <3>6 DEF OneIsKnown
  <2>6. NoAcquire \in Acquires /\ NoAcquire.at = "no" BY <1>1 DEF NoAcquire, Acquires
  <2>7. a \in [Viewers -> Acquires] /\ \A s \in Viewers : a[s].at # "starting"
    BY <1>1, <1>3, <1>6, <2>6
  <2>8. \A s \in Viewers : SessionFits(ss[s], a[s].at)
    <3> SUFFICES ASSUME NEW s \in Viewers PROVE SessionFits(ss[s], a[s].at) OBVIOUS
    <3>1. CASE acquire[s].at = "starting"
      <4>1. SessionFits(Refused(s), "no") BY <3>1, RefusedIs
      <4>2. ss[s] = Refused(s) /\ a[s] = NoAcquire BY <1>3, <1>4, <1>6, <3>1
      <4> QED BY <2>6, <4>1, <4>2
    <3>2. CASE acquire[s].at # "starting"
      <4>1. ss[s] = session[s] /\ a[s] = acquire[s] BY <1>3, <1>4, <1>6, <3>2
      <4> QED BY <1>1, <4>1
    <3> QED BY <3>1, <3>2
  <2>9. ss \in [Viewers -> Sessions] BY <1>4, <1>6, <2>8 DEF SessionFits
  <2>10. AcquiresKnow(a, v) BY <1>3, <1>6, <2>6, <1>1, <1>2, <2>2, <2>3, <2>7 DEF AcquiresKnow
  <2>11. ViewsFit(ss, a, v)
    BY <2>2, <2>3, <2>5, <2>7, <2>8, <2>9, <2>10 DEF ViewsFit
  <2> QED BY <1>2, <1>3, <1>4, <2>4, <2>11, ViewsPrimed
<1> QED BY <1>5, <1>6 DEF WayvncStarted

\* An acquire that connects shows its view, or gives it up at once if it is not wanted.
LEMMA ConnectedKeeps ==
  ASSUME ViewsAssumption, ViewsIInv, NEW s \in Viewers, Connected(s)
  PROVE  ViewsIInv'
<1>0. ViewsFit(session, acquire, vnc) /\ running \in BOOLEAN BY DEF ViewsIInv
<1> DEFINE w == acquire[s].wayvnc
           last == Holders(session, w) = {} /\ Pending = {s}
           wait == last /\ (w = vnc.shared \/ w = vnc.stop)
           shown == [session[s] EXCEPT !.start = "no", !.view = w]
           st == IF wait THEN "closing" ELSE "no"
           cl == IF wait THEN w ELSE session[s].cleanup
           left == [session[s] EXCEPT !.start = st, !.cleanup = cl]
<1>1. /\ vnc \in Processes /\ OneIsKnown(vnc) /\ AcquiresKnow(acquire, vnc)
      /\ SessionFits(session[s], acquire[s].at) /\ session[s] \in Sessions
      /\ acquire[s] \in Acquires /\ acquire[s].at = "connecting" /\ running' \in BOOLEAN
      /\ w \in 0..MaxWayvnc /\ w # 0 /\ (w \in vnc.stopped \/ w = vnc.shared)
  BY <1>0, SessionFacts DEF ViewsFit, Connected, AcquiresKnow, Acquires
<1>2. session[s].state # "none" /\ session[s].view = 0 BY <1>1 DEF SessionFits
<1>3. w \in vnc.alive => w = vnc.shared \/ vnc.shared = 0 BY <1>1 DEF OneIsKnown
<1>4. Wanted(s) => SessionFits(shown, "no") /\ shown.view = w
  <2> SUFFICES ASSUME Wanted(s) PROVE SessionFits(shown, "no") /\ shown.view = w OBVIOUS
  <2> HIDE DEF w
  <2>1. shown \in Sessions BY <1>1 DEF Sessions
  <2>2. /\ shown.view = w /\ shown.start = "no" /\ shown.state = session[s].state
        /\ shown.mode = session[s].mode /\ shown.rfb = session[s].rfb
        /\ shown.timer = session[s].timer /\ shown.capture = session[s].capture
    BY <1>1 DEF Sessions
  <2> HIDE DEF shown
  <2> QED BY <1>1, <1>2, <2>1, <2>2 DEF SessionFits, Wanted, Usable
<1>5. SessionFits(left, "no")
  <2>1. st \in {"no", "closing"} /\ cl \in 0..MaxWayvnc BY <1>1 DEF Sessions
  <2> HIDE DEF w, st, cl
  <2>2. left \in Sessions BY <1>1, <2>1 DEF Sessions
  <2>3. /\ left.view = session[s].view /\ left.start = st /\ left.state = session[s].state
        /\ left.mode = session[s].mode /\ left.rfb = session[s].rfb
        /\ left.timer = session[s].timer /\ left.capture = session[s].capture
    BY <1>1 DEF Sessions
  <2> HIDE DEF left
  <2> QED BY <1>1, <1>2, <2>1, <2>2, <2>3 DEF SessionFits
<1>6. CASE AcquireFails(s) BY <1>1, <1>6, AcquireFailsKeeps
<1>7. CASE /\ w \in vnc.alive /\ acquire' = [acquire EXCEPT ![s] = NoAcquire] /\ Wanted(s)
           /\ session' = [session EXCEPT ![s] = shown] /\ UNCHANGED vnc
  <2>1. PICK t : t = shown OBVIOUS
  <2>2. PICK v : v = vnc' OBVIOUS
  <2>3. SessionFits(t, "no") /\ t.view = w BY <1>4, <1>7, <2>1
  <2>4. v.shared # 0 => t.view = v.shared BY <1>3, <1>7, <2>2, <2>3
  <2>5. session' = [session EXCEPT ![s] = t] BY <1>7, <2>1
  <2> HIDE DEF w, shown
  <2> QED BY <1>1, <1>7, <2>2, <2>3, <2>4, <2>5, AcquireOver
<1>8. CASE /\ w \in vnc.alive /\ acquire' = [acquire EXCEPT ![s] = NoAcquire]
           /\ session' = [session EXCEPT ![s] = left]
           /\ vnc' = IF last THEN Stopping(vnc, w) ELSE vnc
  <2>1. PICK t : t = left OBVIOUS
  <2>2. PICK v : v = vnc' OBVIOUS
  <2>3. SessionFits(t, "no") /\ session' = [session EXCEPT ![s] = t] BY <1>5, <1>8, <2>1
  <2>4. CASE vnc' = vnc /\ (~last \/ w # vnc.shared)
    <3>1. v.shared # 0 => Holders(session, v.shared) # {} \/ Pending # {s}
      BY <1>3, <1>8, <2>2, <2>4
    <3> HIDE DEF w, left, last
    <3> QED BY <1>1, <1>8, <2>2, <2>3, <2>4, <3>1, AcquireOver
  <2>5. CASE w = vnc.shared /\ last
    <3>1. /\ v \in Processes /\ OneIsKnown(v) /\ v.shared = 0 /\ v.start = 0
          /\ v.stopped = vnc.stopped \cup {vnc.shared} BY <1>8, <2>2, <2>5, <1>1, StoppingIs
    <3>2. vnc.start = 0 BY <1>1, <2>5 DEF OneIsKnown
    <3> HIDE DEF w, left, last
    <3> QED BY <1>1, <1>8, <2>2, <2>3, <3>1, <3>2, AcquireOver
  <2>6. CASE w # vnc.shared
    <3>1. w \in vnc.stopped BY <1>1, <2>6
    <3>2. vnc' = vnc BY <1>8, <3>1 DEF Stopping
    <3> QED BY <2>4, <2>6, <3>2
  <2>7. ~last => vnc' = vnc BY <1>8
  <2> QED BY <2>4, <2>5, <2>6, <2>7
<1> QED BY <1>6, <1>7, <1>8 DEF Connected

\* A WayVNC that exits is stopped as if nobody wanted it.
LEMMA WayvncExitsKeeps ==
  ASSUME ViewsAssumption, ViewsIInv, NEW w \in Wayvncs, WayvncExits(w) \/ WayvncExitSeen(w)
  PROVE  ViewsIInv'
<1>0. ViewsFit(session, acquire, vnc) /\ running \in BOOLEAN BY DEF ViewsIInv
<1>1. /\ vnc \in Processes /\ OneIsKnown(vnc) /\ AcquiresKnow(acquire, vnc)
  BY <1>0 DEF ViewsFit
<1>2. PICK a : a = acquire OBVIOUS
<1>3. PICK ss : ss = session OBVIOUS
<1>4. a = acquire' /\ ss = session' /\ running' \in BOOLEAN
  BY <1>0, <1>2, <1>3 DEF WayvncExits, WayvncExitSeen
<1>5. CASE WayvncExits(w)
  <2> DEFINE live == vnc.alive \ {w}
             r == [vnc EXCEPT !.alive = live]
  <2>1. live \in SUBSET Wayvncs /\ live \subseteq vnc.alive BY <1>1 DEF Processes
  <2> HIDE DEF live
  <2>2. /\ r \in Processes /\ r.shared = vnc.shared /\ r.start = vnc.start /\ r.stop = vnc.stop
        /\ r.last = vnc.last /\ r.alive = live /\ r.stopped = vnc.stopped
    BY <1>1, <2>1 DEF Processes
  <2>3. PICK v : v = r OBVIOUS
  <2>4. v = vnc' BY <1>5, <2>3 DEF WayvncExits, live
  <2> HIDE DEF r
  <2>5. OneIsKnown(v) BY <1>1, <2>1, <2>2, <2>3 DEF OneIsKnown
  <2>6. AcquiresKnow(a, v) BY <1>1, <1>2, <2>2, <2>3 DEF AcquiresKnow
  <2>7. ViewsFit(ss, a, v)
    BY <1>0, <1>2, <1>3, <2>2, <2>3, <2>5, <2>6 DEF ViewsFit
  <2> QED BY <1>4, <2>4, <2>7, ViewsPrimed
<1>6. CASE WayvncExitSeen(w)
  <2>1. w \notin vnc.stopped /\ w <= vnc.last /\ vnc.start # w /\ vnc' = Stopping(vnc, w)
    BY <1>6 DEF WayvncExitSeen
  <2>2. w \in 1..vnc.last BY <1>1, <2>1 DEF Processes, Wayvncs
  <2>3. w = vnc.shared /\ vnc.shared # 0 BY <1>1, <2>1, <2>2 DEF OneIsKnown, Wayvncs
  <2>4. PICK v : v = vnc' OBVIOUS
  <2>5. /\ v \in Processes /\ OneIsKnown(v) /\ v.shared = 0 /\ v.start = 0
        /\ v.stopped = vnc.stopped \cup {vnc.shared}
    BY <1>1, <2>1, <2>3, <2>4, StoppingIs
  <2>6. vnc.start = 0 BY <1>1, <2>3 DEF OneIsKnown
  <2>7. AcquiresKnow(a, v) BY <1>1, <1>2, <2>5, <2>6 DEF AcquiresKnow
  <2>8. ViewsFit(ss, a, v) BY <1>0, <1>2, <1>3, <2>5, <2>7 DEF ViewsFit
  <2> QED BY <1>4, <2>4, <2>8, ViewsPrimed
<1> QED BY <1>5, <1>6

\* A WayVNC that has been stopped no longer lives; the views it served have ended.
LEMMA WayvncStoppedKeeps ==
  ASSUME ViewsAssumption, ViewsIInv, NEW w \in Wayvncs, WayvncStopped(w)
  PROVE  ViewsIInv'
<1>0. ViewsFit(session, acquire, vnc) /\ running \in BOOLEAN BY DEF ViewsIInv
<1>1. /\ session \in [Viewers -> Sessions] /\ acquire \in [Viewers -> Acquires]
      /\ vnc \in Processes /\ OneIsKnown(vnc) /\ AcquiresKnow(acquire, vnc)
      /\ \A s \in Viewers : SessionFits(session[s], acquire[s].at)
      /\ 0 \in 0..MaxWayvnc /\ w # 0
  BY <1>0 DEF ViewsFit, ViewsAssumption, Wayvncs
<1>2. vnc.stop = w /\ vnc.shared = 0 /\ vnc.start = 0 /\ running' \in BOOLEAN
  BY <1>0, <1>1 DEF WayvncStopped, OneIsKnown
<1>3. PICK a : a = acquire' OBVIOUS
<1>4. PICK ss : ss = session' OBVIOUS
<1> DEFINE live == vnc.alive \ {w}
           r == [vnc EXCEPT !.stop = 0, !.alive = live]
           F(t) == IF t.cleanup # w THEN t
                   ELSE [t EXCEPT !.cleanup = 0, !.start = IF t.start = "closing" THEN "no" ELSE t.start]
<1>5. live \in SUBSET Wayvncs BY <1>1 DEF Processes
<1>6. /\ r.shared = 0 /\ r.start = 0 /\ r.stop = 0 /\ r.last = vnc.last
      /\ r.alive = live /\ r.stopped = vnc.stopped /\ r \in Processes
  <2> HIDE DEF live
  <2>1. [vnc EXCEPT !.stop = 0] \in Processes BY <1>1 DEF Processes
  <2>2. r \in Processes BY <1>5, <2>1 DEF Processes
  <2>3. /\ r.shared = 0 /\ r.start = 0 /\ r.stop = 0 /\ r.last = vnc.last
        /\ r.alive = live /\ r.stopped = vnc.stopped
    BY <1>1, <1>2 DEF Processes
  <2> HIDE DEF r
  <2> QED BY <2>2, <2>3
<1>7. PICK v : v = r OBVIOUS
<1>8. /\ v = vnc'
      /\ \A s \in Viewers : a[s] = IF acquire[s].at = "failing" THEN NoAcquire ELSE acquire[s]
      /\ a = [s \in Viewers |-> a[s]] /\ ss = [s \in Viewers |-> ss[s]]
      /\ \A s \in Viewers : ss[s] = IF acquire[s].at = "failing" THEN Refused(s) ELSE F(session[s])
  BY <1>3, <1>4, <1>7 DEF WayvncStopped
<1> HIDE DEF r
<1>9. OneIsKnown(v)
  <2>1. live \subseteq {0} BY <1>1, <1>2 DEF OneIsKnown
  <2>2. 0 \notin vnc.stopped /\ vnc.stopped \subseteq 1..vnc.last BY <1>1 DEF OneIsKnown
  <2>3. \A x \in 1..vnc.last : x \in vnc.stopped BY <1>1, <1>2 DEF OneIsKnown, Processes
  <2>4. 0 \in 0..vnc.last BY <1>1 DEF Processes
  <2> HIDE DEF live
  <2> QED BY <1>6, <1>7, <2>1, <2>2, <2>3, <2>4 DEF OneIsKnown
<1>10. NoAcquire \in Acquires /\ NoAcquire.at = "no" BY <1>1 DEF NoAcquire, Acquires
<1>11. /\ a \in [Viewers -> Acquires]
       /\ \A s \in Viewers : a[s].at \in {"starting", "connecting"} => a[s] = acquire[s]
  BY <1>1, <1>8, <1>10
<1>12. ASSUME NEW t, NEW at, SessionFits(t, at) PROVE SessionFits(F(t), at)
  <2> DEFINE st == IF t.start = "closing" THEN "no" ELSE t.start
             q == [t EXCEPT !.cleanup = 0, !.start = st]
  <2>1. t \in Sessions BY <1>12 DEF SessionFits
  <2>2. st \in {"no", "clearing", "acquiring", "closing"} BY <2>1 DEF Sessions
  <2> HIDE DEF st
  <2>3. q \in Sessions BY <1>1, <2>1, <2>2 DEF Sessions
  <2>4. /\ q.view = t.view /\ q.start = st /\ q.state = t.state /\ q.mode = t.mode
        /\ q.rfb = t.rfb /\ q.timer = t.timer /\ q.capture = t.capture
    BY <2>1 DEF Sessions
  <2>5. F(t) = t \/ F(t) = q BY DEF st
  <2> HIDE DEF q, F
  <2>6. (st = "acquiring" <=> t.start = "acquiring") /\ (st = t.start \/ (st = "no" /\ t.start = "closing"))
    BY DEF st
  <2>7. SessionFits(q, at) BY <1>12, <2>3, <2>4, <2>6 DEF SessionFits
  <2> QED BY <1>12, <2>5, <2>7
<1> HIDE DEF F
<1>13. \A s \in Viewers : SessionFits(ss[s], a[s].at)
  <2> SUFFICES ASSUME NEW s \in Viewers PROVE SessionFits(ss[s], a[s].at) OBVIOUS
  <2>1. CASE acquire[s].at = "failing"
    <3>1. SessionFits(Refused(s), "no") BY <2>1, RefusedIs
    <3> QED BY <1>8, <1>10, <2>1, <3>1
  <2>2. CASE acquire[s].at # "failing"
    <3>1. SessionFits(F(session[s]), acquire[s].at) BY <1>1, <1>12
    <3> QED BY <1>8, <2>2, <3>1
  <2> QED BY <2>1, <2>2
<1>14. ss \in [Viewers -> Sessions] BY <1>13, <1>8 DEF SessionFits
<1>15. AcquiresKnow(a, v) BY <1>1, <1>2, <1>6, <1>7, <1>11 DEF AcquiresKnow
<1>16. ViewsFit(ss, a, v) BY <1>6, <1>7, <1>9, <1>11, <1>13, <1>14, <1>15 DEF ViewsFit
<1> QED BY <1>2, <1>3, <1>4, <1>8, <1>16, ViewsPrimed

-----------------------------------------------------------------------------
(* The theorem. *)

\* The invariant holds initially.
LEMMA ViewsStart ==
  ASSUME ViewsAssumption, ViewsInit
  PROVE  ViewsIInv
<1>1. 0 \in 0..MaxWayvnc BY DEF ViewsAssumption
<1>2. NewSession \in Sessions BY <1>1 DEF NewSession, Sessions, Modes
<1>3. SessionFits(NewSession, "no") BY <1>2 DEF SessionFits, NewSession
<1>4. NoAcquire \in Acquires /\ NoAcquire.at = "no" BY <1>1 DEF NoAcquire, Acquires
<1>5. vnc \in Processes BY <1>1 DEF ViewsInit, Processes
<1>6. OneIsKnown(vnc) BY DEF ViewsInit, OneIsKnown
<1>7. AcquiresKnow(acquire, vnc) BY <1>4 DEF ViewsInit, AcquiresKnow
<1>8. ViewsFit(session, acquire, vnc)
  BY <1>2, <1>3, <1>4, <1>5, <1>6, <1>7 DEF ViewsFit, ViewsInit
<1> QED BY <1>8 DEF ViewsIInv, ViewsInit

\* Every step keeps the invariant.
LEMMA ViewsKeep ==
  ASSUME ViewsAssumption, ViewsIInv, [ViewsNext]_viewVars
  PROVE  ViewsIInv'
<1>1. ASSUME NEW s \in Viewers, SessionStep(s) PROVE ViewsIInv'
  BY <1>1, CreateSessionKeeps, ReserveSocketKeeps, CancelReservationKeeps, OpenControlKeeps,
     OpenRfbKeeps, LeavingKeeps, SetViewModeKeeps, TimerFiresKeeps, CaptureEndsKeeps,
     TerminatedKeeps, StartAcquiresKeeps, EnsureWayvncKeeps, ConnectedKeeps DEF SessionStep
<1>2. ASSUME NEW w \in Wayvncs, WayvncStep(w) PROVE ViewsIInv'
  BY <1>2, WayvncStartedKeeps, WayvncExitsKeeps, WayvncStoppedKeeps DEF WayvncStep
<1>3. CASE ScreenStops BY <1>3, ScreenStopsKeeps
<1>4. CASE UNCHANGED viewVars BY <1>4 DEF viewVars, ViewsIInv, ViewsFit, SessionFits, OneIsKnown,
                                          AcquiresKnow
<1> QED BY <1>1, <1>2, <1>3, <1>4 DEF ViewsNext

\* The views of a Screen, for any number of viewers and of WayVNC processes: never do two run,
\* none is left that nobody uses, no view goes to a session that left it, and no preview ends
\* (screenProjection.ts with the shared WayVNC of swayBotScreenRuntime.ts).
THEOREM ViewsStayShared == ViewsSpec => []ViewsAreShared
<1> USE ViewsAssumption
<1>1. ViewsInit => ViewsIInv BY ViewsStart
<1>2. ViewsIInv /\ [ViewsNext]_viewVars => ViewsIInv' BY ViewsKeep
<1>3. ViewsIInv => ViewsAreShared BY ViewsShared
<1> QED BY <1>1, <1>2, <1>3, PTL DEF ViewsSpec

-----------------------------------------------------------------------------
(* The Bot Computer *)

\* What a session that is attached names: a generation, a compositor and an output.
Real == [gen : Generations, comp : Computers, out : Outputs]
Rows == [Surfaces -> [state : {"stopped", "starting", "ready", "failed", "deleting"},
                      gen : 0..MaxGeneration, at : 0..Cardinality(Surfaces)]]
ComputerStates == [gen : 0..MaxComputers, surfaces : SUBSET Surfaces]
FileStates == [surface : [Surfaces -> Trees], dir : 0..MaxComputers, state : 0..MaxComputers]
SwayStates == [alive : SUBSET Computers, last : 0..MaxComputers]
Operations == [kind : Kinds, s : Surfaces, pc : Steps, tree : Trees, failed : BOOLEAN]

SwayTyped ==
  /\ row \in Rows
  /\ mem \in [Surfaces -> Real \cup {Nothing}]
  /\ computer \in ComputerStates
  /\ files \in FileStates
  /\ desktops \subseteq [s : Surfaces, gen : Generations, comp : Computers, out : Outputs]
  /\ sway \in SwayStates
  /\ op \in Operations
  /\ daemon \in [state : {"up", "recovering", "down"}, todo : Seq(Surfaces),
                 restarts : 0..MaxRestarts]

OpOf(s) == op.kind # "none" /\ op.s = s
Reconciling(s) == op.kind = "reconcile" /\ op.s = s

\* Which operations take which steps.
StepsFit ==
  /\ op.kind = "none" => op = NoOp
  /\ op.pc = "idle" => op.kind = "none"
  /\ op.pc \in {"stopUnits", "ensure", "spawnSway", "waitSway", "allocate", "waitDesktop"}
       => op.kind = "start"
  /\ op.pc \in {"stopCurrent", "removeFiles"} => op.kind \in {"start", "stop", "cleanup"}
  /\ op.pc \in {"stopComputer", "removeComputer"}
       => op.kind \in {"start", "stop", "cleanup", "reconcile"}
  /\ op.pc \in {"reattach", "capture", "discard"} => op.kind = "reconcile"
  /\ op.pc = "kill" => op.kind = "destroy"
  /\ op.failed => op.kind = "start"

\* One compositor at most runs, the one whose directory is there, and only it runs desktops.
CompositorsFit ==
  /\ sway.alive \subseteq {files.dir} /\ files.dir <= sway.last
  /\ files.state # 0 => files.state = files.dir
  /\ computer.gen # 0 => computer.gen = files.dir /\ files.state = files.dir
  /\ op.pc \in {"spawnSway", "removeComputer"} => computer.gen = 0 /\ sway.alive = {}
  /\ op.pc = "spawnSway" => files.state = 0
  /\ op.pc = "waitSway" => /\ computer.gen = 0 /\ files.dir = sway.last /\ files.state = 0
                           /\ desktops = {} /\ sway.last # 0
  /\ op.pc \in {"allocate", "waitDesktop", "capture", "stopComputer"} => computer.gen # 0
  /\ \A d \in desktops : d.comp \in sway.alive

\* A session is written down and has an output of its own; what an operation of a Surface has
\* come to tells whether the Surface has one.
SessionsFit ==
  /\ \A s \in Surfaces : mem[s] # Nothing => files.surface[s] = mem[s]
  /\ \A s \in Surfaces : files.surface[s].comp <= sway.last
  /\ op.pc = "waitSway" => \A s \in Surfaces : mem[s].comp # sway.last
  /\ \A s, t \in Surfaces : s # t /\ mem[s] # Nothing => mem[s].out # mem[t].out
  /\ op.pc = "stopCurrent" => mem[op.s] = op.tree /\ op.tree # Nothing
  /\ op.pc = "removeFiles" => op.tree \in Real
  /\ op.pc \notin {"idle", "stopCurrent", "done"} => mem[op.s] = Nothing
  /\ op.pc = "waitDesktop" => /\ op.tree \in Real /\ op.tree.comp = computer.gen
                              /\ \A s \in Surfaces : mem[s].out # op.tree.out
  /\ op.pc = "done" /\ op.kind = "start" /\ ~op.failed => mem[op.s] # Nothing
  /\ op.pc = "done" /\ op.kind = "reconcile" => mem[op.s] = op.tree
  /\ op.pc = "done" /\ op.kind \in {"stop", "cleanup", "destroy"} => mem[op.s] = Nothing

\* The compositor knows every session that runs on it.
SiblingsFit ==
  /\ \A s \in Surfaces : Attached(s) => mem[s].comp = computer.gen
  /\ \A s \in Surfaces : mem[s] # Nothing /\ mem[s].comp = computer.gen => s \in computer.surfaces
  /\ computer.gen = 0 /\ op.pc # "removeComputer" /\ files.state # 0
       => \A s \in Surfaces : mem[s].comp # files.state
  /\ op.pc = "stopComputer" => \A s \in Surfaces : ~Attached(s)

\* The rows rows that have changed did so one after the other.
Ordered(rows) ==
  /\ \A s, t \in Surfaces : s # t /\ rows[s].at # 0 => rows[s].at # rows[t].at
  /\ \A s \in Surfaces : rows[s].at <= Cardinality({t \in Surfaces : rows[t].at # 0})

\* A row's generations leave a start for every recovery to come, and its state is that of the
\* operation under way.
RowsFit ==
  /\ \A s \in Surfaces : row[s].state # "stopped" => row[s].at # 0
  /\ \A s \in Surfaces : row[s].state \in {"starting", "ready", "failed"} => row[s].gen # 0
  /\ \A s \in Surfaces : row[s].gen # 0 =>
       /\ row[s].gen + MaxRestarts <= MaxGeneration + daemon.restarts
       /\ daemon.state = "down" \/ Unreconciled(s) \/ Reconciling(s)
            => row[s].gen + MaxRestarts < MaxGeneration + daemon.restarts
  /\ op.kind = "start" => row[op.s].state = "starting"
  /\ op.kind = "cleanup" => row[op.s].state = "failed"
  /\ op.kind = "destroy" => row[op.s].state = "deleting"
  /\ op.kind = "reconcile" => row[op.s].state \in {"starting", "ready", "failed"}

\* What is still to be reconciled has no session, and is reconciled once.
RecoveryFits ==
  /\ daemon.state # "recovering" => daemon.todo = <<>>
  /\ \A i, j \in DOMAIN daemon.todo : i # j => daemon.todo[i] # daemon.todo[j]
  /\ \A s \in Surfaces : Unreconciled(s) =>
       mem[s] = Nothing /\ ~OpOf(s) /\ row[s].state \in {"starting", "ready", "failed"}
  /\ daemon.state = "down" => op = NoOp /\ computer.gen = 0 /\ \A s \in Surfaces : mem[s] = Nothing
  /\ op.kind = "reconcile" => daemon.state = "recovering"

\* No more Surfaces than places hold one, whether they run, are asked to, or are being stopped;
\* a row that says ready is the one of a session, of a stop, or of one to be reconciled.
HoldsPlace(s) ==
  \/ row[s].state \in {"starting", "ready"}
  \/ mem[s] # Nothing /\ ~OpOf(s)
  \/ daemon.state = "up" /\ BeingStopped(s)

PlacesFit == Cardinality({s \in Surfaces : HoldsPlace(s)}) <= Capacity

ReadyIsHeld ==
  \A s \in Surfaces : row[s].state = "ready" =>
    mem[s] # Nothing \/ BeingStopped(s) \/ daemon.state = "down" \/ Unreconciled(s)
    \/ Reconciling(s)

\* With units a Surface runs one desktop at most, that of its session if it has one, and none
\* once its row says stopped.
RunsNothing(s) == \A d \in desktops : d.s # s

UnitsFit ==
  /\ \A d, e \in desktops : d.s = e.s => d = e
  /\ \A s \in Surfaces : mem[s] # Nothing => \A d \in desktops : d.s = s => d = Desktop(s, mem[s])
  /\ op.pc = "waitDesktop" => \A d \in desktops : d.s = op.s => d = Desktop(op.s, op.tree)
  /\ op.pc \in {"ensure", "spawnSway", "waitSway", "allocate"} => RunsNothing(op.s)
  /\ op.kind = "stop" /\ op.pc # "stopCurrent" => RunsNothing(op.s)
  /\ op.kind = "destroy" /\ op.pc = "done" => RunsNothing(op.s)
  /\ \A s \in Surfaces : row[s].state = "stopped" => RunsNothing(s)

SwayIInv ==
  /\ SwayTyped /\ StepsFit /\ CompositorsFit /\ SessionsFit /\ SiblingsFit
  /\ Ordered(row) /\ RowsFit /\ RecoveryFits /\ PlacesFit /\ ReadyIsHeld
  /\ UnitsEnabled => UnitsFit

\* The parts of the invariant.
LEMMA SwayFacts ==
  ASSUME SwayAssumption, SwayIInv
  PROVE  /\ row \in Rows /\ mem \in [Surfaces -> Real \cup {Nothing}]
         /\ computer \in ComputerStates /\ files \in FileStates /\ sway \in SwayStates
         /\ op \in Operations /\ op.s \in Surfaces /\ op.kind \in Kinds /\ op.pc \in Steps
         /\ computer.gen \in 0..MaxComputers /\ files.dir \in 0..MaxComputers
         /\ files.state \in 0..MaxComputers /\ sway.last \in 0..MaxComputers
         /\ sway.alive \subseteq Computers /\ files.surface \in [Surfaces -> Trees]
         /\ computer.surfaces \subseteq Surfaces
         /\ {MaxGeneration, MaxRestarts, MaxComputers, Capacity} \subseteq Nat
         /\ 0 \notin Computers /\ IsFiniteSet(Surfaces)
  BY DEF SwayIInv, SwayTyped, ComputerStates, FileStates, SwayStates, Operations,
         SwayAssumption, Computers

\* Nothing is no session, and a session is written like any tree.
LEMMA NothingIsNone ==
  ASSUME SwayAssumption
  PROVE  /\ Nothing \notin Real /\ Real \subseteq Trees /\ Nothing \in Trees
         /\ Nothing.comp = 0 /\ Nothing.out = 0 /\ Nothing.gen = 0
         /\ \A t \in Real : t.comp # 0 /\ t.out # 0 /\ t.comp \in Nat
  BY DEF SwayAssumption, Nothing, Real, Trees, Generations, Computers, Outputs

\* An operation goes on: it stays what it is.
LEMMA OpGoes ==
  ASSUME NEW o \in Operations, NEW p \in Steps, NEW q, q = [o EXCEPT !.pc = p]
  PROVE  /\ q \in Operations /\ q.kind = o.kind /\ q.s = o.s /\ q.tree = o.tree
         /\ q.failed = o.failed /\ q.pc = p
  BY DEF Operations

\* A step of an operation that leaves the rows and the daemon alone, and every session but
\* that of its Surface.
LEMMA StepKeepsRows ==
  ASSUME SwayAssumption, SwayIInv, op.kind # "none", op'.kind = op.kind, op'.s = op.s,
         row' = row, daemon' = daemon,
         \A t \in Surfaces \ {op.s} : mem'[t] = mem[t]
  PROVE  Ordered(row)' /\ RowsFit' /\ RecoveryFits' /\ PlacesFit' /\ ReadyIsHeld'
<1>0. /\ Ordered(row) /\ RowsFit /\ RecoveryFits /\ PlacesFit /\ ReadyIsHeld
      /\ op.kind \in Kinds /\ op # NoOp
  BY SwayFacts DEF SwayIInv, NoOp
<1>1. Ordered(row)' BY <1>0 DEF Ordered
<1>2. \A t \in Surfaces : Unreconciled(t)' = Unreconciled(t) /\ Reconciling(t)' = Reconciling(t)
                          /\ OpOf(t)' = OpOf(t) /\ BeingStopped(t)' = BeingStopped(t)
  BY DEF Unreconciled, Reconciling, OpOf, BeingStopped
<1>3. RowsFit' BY <1>0, <1>2 DEF RowsFit
<1>4. \A t \in Surfaces : Unreconciled(t) => t # op.s BY <1>0 DEF RecoveryFits, OpOf
<1>5. RecoveryFits' BY <1>0, <1>2, <1>4 DEF RecoveryFits
<1>6. \A t \in Surfaces : HoldsPlace(t)' = HoldsPlace(t) BY <1>2 DEF HoldsPlace, OpOf
<1>7. {t \in Surfaces : HoldsPlace(t)'} = {t \in Surfaces : HoldsPlace(t)} BY <1>6
<1>8. PlacesFit' BY <1>0, <1>7 DEF PlacesFit
<1>9. ReadyIsHeld'
  <2>1. ASSUME row[op.s].state = "ready" PROVE BeingStopped(op.s) \/ Reconciling(op.s)
    BY <1>0, <2>1 DEF RowsFit, Kinds, BeingStopped, Reconciling
  <2> QED BY <1>0, <1>2, <2>1 DEF ReadyIsHeld
<1> QED BY <1>1, <1>3, <1>5, <1>8, <1>9

\* What runs grows less: a Surface that has a session has the one it had.
LEMMA FewerFit ==
  ASSUME SwayAssumption, SwayIInv, UnitsEnabled, desktops' \subseteq desktops, row' = row,
         \A t \in Surfaces : mem'[t] # Nothing => mem'[t] = mem[t]
  PROVE  /\ \A d, e \in desktops' : d.s = e.s => d = e
         /\ \A t \in Surfaces : mem'[t] # Nothing
              => \A d \in desktops' : d.s = t => d = Desktop(t, mem'[t])
         /\ \A t \in Surfaces : RunsNothing(t) => RunsNothing(t)'
         /\ \A t \in Surfaces : row'[t].state = "stopped" => RunsNothing(t)'
<1>1. UnitsFit BY DEF SwayIInv
<1>2. \A t \in Surfaces : RunsNothing(t) => RunsNothing(t)' BY DEF RunsNothing
<1> QED BY <1>1, <1>2 DEF UnitsFit

-----------------------------------------------------------------------------
\* The invariant says what is asked of a daemon that can be replaced.
LEMMA SwayShown ==
  ASSUME SwayAssumption, SwayIInv
  PROVE  ReplaceableDaemon
<1>0. /\ SwayTyped /\ CompositorsFit /\ SessionsFit /\ SiblingsFit /\ (UnitsEnabled => UnitsFit)
  BY DEF SwayIInv
<1>1. SwayTypeOK
  BY NothingIsNone, <1>0 DEF SwayTyped, SwayTypeOK, Rows, ComputerStates, FileStates, SwayStates,
     Operations
<1>2. OutputsExclusive BY <1>0 DEF OutputsExclusive, SessionsFit, Attached
<1>3. ComputersAreKnown BY <1>0 DEF ComputersAreKnown, CompositorsFit
<1>4. AttachedIsWritten
  <2> SUFFICES ASSUME NEW s \in Surfaces, Attached(s)
               PROVE  files.surface[s] = mem[s] /\ files.state = mem[s].comp
    BY DEF AttachedIsWritten
  <2>1. mem[s] \in Real BY <1>0 DEF Attached, SwayTyped
  <2>2. mem[s].comp # 0 BY <2>1, NothingIsNone
  <2> QED BY <1>0, <2>2 DEF SessionsFit, SiblingsFit, CompositorsFit, Attached
<1>5. OneComputer
  <2>1. sway.alive = {} \/ sway.alive = {files.dir} BY <1>0 DEF CompositorsFit
  <2>2. Cardinality(sway.alive) \in {0, 1} BY <2>1, FS_EmptySet, FS_Singleton
  <2> QED BY <2>2 DEF OneComputer
<1>6. UnitsEnabled => StoppedRunsNothing BY <1>0 DEF UnitsFit, StoppedRunsNothing, RunsNothing
<1> QED BY <1>1, <1>2, <1>3, <1>4, <1>5, <1>6 DEF ReplaceableDaemon

\* The invariant holds initially.
LEMMA SwayStart ==
  ASSUME SwayAssumption, SwayInit
  PROVE  SwayIInv
<1>0. /\ row = [s \in Surfaces |-> [state |-> "stopped", gen |-> 0, at |-> 0]]
      /\ mem = [s \in Surfaces |-> Nothing]
      /\ computer = [gen |-> 0, surfaces |-> {}]
      /\ files = [surface |-> [s \in Surfaces |-> Nothing], dir |-> 0, state |-> 0]
      /\ desktops = {} /\ sway = [alive |-> {}, last |-> 0] /\ op = NoOp
      /\ daemon = [state |-> "up", todo |-> <<>>, restarts |-> 0]
  BY DEF SwayInit
<1>1. Cardinality(Surfaces) \in Nat BY FS_CardinalityType DEF SwayAssumption
<1>2. AnySurface \in Surfaces BY DEF SwayAssumption, AnySurface
<1>3. SwayTyped
  <2>1. row \in Rows BY <1>0, <1>1 DEF Rows, SwayAssumption
  <2>2. op \in Operations BY <1>0, <1>2, NothingIsNone DEF Operations, NoOp, Kinds, Steps
  <2>3. files \in FileStates BY <1>0, NothingIsNone DEF FileStates, SwayAssumption
  <2>4. mem \in [Surfaces -> Real \cup {Nothing}] BY <1>0
  <2>5. computer \in ComputerStates /\ sway \in SwayStates
    BY <1>0 DEF ComputerStates, SwayStates, SwayAssumption
  <2>6. daemon \in [state : {"up", "recovering", "down"}, todo : Seq(Surfaces),
                    restarts : 0..MaxRestarts]
    BY <1>0 DEF SwayAssumption
  <2> QED BY <1>0, <2>1, <2>2, <2>3, <2>4, <2>5, <2>6 DEF SwayTyped
<1>4. StepsFit BY <1>0 DEF StepsFit, NoOp
<1>5. CompositorsFit BY <1>0 DEF CompositorsFit, NoOp
<1>6. SessionsFit BY <1>0 DEF SessionsFit, NoOp, Nothing
<1>7. SiblingsFit BY <1>0 DEF SiblingsFit, NoOp, Attached
<1>8. Ordered(row)
  <2>1. {t \in Surfaces : row[t].at # 0} = {} BY <1>0
  <2>2. \A s \in Surfaces : row[s].at = 0 BY <1>0
  <2>3. Cardinality({t \in Surfaces : row[t].at # 0}) = 0 BY <2>1, FS_EmptySet
  <2> QED BY <2>2, <2>3 DEF Ordered
<1>9. RowsFit BY <1>0 DEF RowsFit, NoOp
<1>10. RecoveryFits BY <1>0 DEF RecoveryFits, NoOp, Unreconciled, OpOf
<1>11. PlacesFit
  <2>1. \A s \in Surfaces : ~HoldsPlace(s) BY <1>0 DEF HoldsPlace, BeingStopped, NoOp
  <2>2. {s \in Surfaces : HoldsPlace(s)} = {} BY <2>1
  <2> QED BY <2>2, FS_EmptySet DEF PlacesFit, SwayAssumption
<1>12. ReadyIsHeld BY <1>0 DEF ReadyIsHeld
<1>13. UnitsFit BY <1>0 DEF UnitsFit, RunsNothing, NoOp
<1> QED BY <1>3, <1>4, <1>5, <1>6, <1>7, <1>8, <1>9, <1>10, <1>11, <1>12, <1>13 DEF SwayIInv

-----------------------------------------------------------------------------
States == {"stopped", "starting", "ready", "failed", "deleting"}

\* The row of s changes: it is the one that changed last, and the order of the others stays.
LEMMA TransitionIs ==
  ASSUME SwayAssumption, NEW rows \in Rows, Ordered(rows), NEW s \in Surfaces,
         NEW state \in States, NEW r, r = Transition(rows, s, state)
  PROVE  /\ r \in Rows /\ Ordered(r)
         /\ r[s].state = state /\ r[s].gen = rows[s].gen /\ r[s].at # 0
         /\ \A t \in Surfaces \ {s} :
              /\ r[t].state = rows[t].state /\ r[t].gen = rows[t].gen
              /\ r[t].at # 0 <=> rows[t].at # 0
<1> DEFINE N == {t \in Surfaces : rows[t].at # 0}
           others == {t \in Surfaces \ {s} : rows[t].at # 0}
           old == rows[s].at
           newest == Cardinality(others) + 1
           k == Cardinality(N)
           Moved(t) == IF old # 0 /\ rows[t].at > old THEN rows[t].at - 1 ELSE rows[t].at
<1>1. IsFiniteSet(Surfaces) BY DEF SwayAssumption
<1>2. IsFiniteSet(N) /\ k \in Nat /\ k <= Cardinality(Surfaces) /\ Cardinality(Surfaces) \in Nat
  BY <1>1, FS_Subset, FS_CardinalityType
<1>3. others = N \ {s} /\ N \cup {s} = others \cup {s} /\ s \notin others OBVIOUS
<1>4. Cardinality(N \ {s}) = IF s \in N THEN k - 1 ELSE k BY <1>2, FS_RemoveElement
<1>5. IsFiniteSet(others) BY <1>2, <1>3, FS_RemoveElement
<1>6. Cardinality(others) = IF old # 0 THEN k - 1 ELSE k BY <1>3, <1>4
<1>7. Cardinality(N \cup {s}) = newest BY <1>3, <1>5, FS_AddElement
<1>8. newest \in 1..Cardinality(Surfaces)
  <2>1. N \cup {s} \in SUBSET Surfaces OBVIOUS
  <2>2. newest <= Cardinality(Surfaces) BY <1>1, <1>7, <2>1, FS_Subset
  <2>3. Cardinality(others) \in Nat BY <1>5, FS_CardinalityType
  <2> QED BY <1>2, <2>2, <2>3
<1>9. \A t \in Surfaces : rows[t].at \in 0..Cardinality(Surfaces) BY DEF Rows
<1>10. \A t \in Surfaces : rows[t].at <= k BY DEF Ordered
<1>11. \A t, u \in Surfaces : t # u /\ rows[t].at # 0 => rows[t].at # rows[u].at BY DEF Ordered
<1>12. \A t \in Surfaces \ {s} : /\ Moved(t) \in 0..Cardinality(Surfaces) /\ Moved(t) < newest
                                 /\ Moved(t) # 0 <=> rows[t].at # 0
  <2> TAKE t \in Surfaces \ {s}
  <2>1. old \in Nat /\ old <= k /\ rows[t].at \in Nat /\ rows[t].at <= k BY <1>9, <1>10
  <2>2. old # 0 => rows[t].at # old BY <1>11
  <2> HIDE DEF old, k, newest
  <2>3. newest = IF old # 0 THEN k ELSE k + 1 BY <1>2, <1>6 DEF newest
  <2> QED BY <1>2, <1>9, <2>1, <2>2, <2>3
<1>13. \A t, u \in Surfaces \ {s} : t # u /\ rows[t].at # 0 => Moved(t) # Moved(u)
  <2> TAKE t, u \in Surfaces \ {s}
  <2>1. old \in Nat /\ rows[t].at \in Nat /\ rows[u].at \in Nat BY <1>9
  <2>2. t # u /\ rows[t].at # 0 => rows[t].at # rows[u].at /\ (old # 0 => rows[t].at # old)
    BY <1>11
  <2>3. old # 0 => rows[u].at # old BY <1>11
  <2> HIDE DEF old
  <2> QED BY <2>1, <2>2, <2>3
<1> HIDE DEF newest, Moved
<1>14. r = [t \in Surfaces |-> IF t = s THEN [rows[s] EXCEPT !.state = state, !.at = newest]
                               ELSE [rows[t] EXCEPT !.at = Moved(t)]]
  BY DEF Transition, newest, Moved
<1>15. /\ r[s].state = state /\ r[s].gen = rows[s].gen /\ r[s].at = newest
       /\ \A t \in Surfaces \ {s} :
            r[t].state = rows[t].state /\ r[t].gen = rows[t].gen /\ r[t].at = Moved(t)
  <2>1. \A t \in Surfaces : rows[t] \in [state : States, gen : 0..MaxGeneration,
                                        at : 0..Cardinality(Surfaces)]
    BY DEF Rows, States
  <2>2. r[s] = [rows[s] EXCEPT !.state = state, !.at = newest] BY <1>14
  <2>3. r[s].state = state /\ r[s].gen = rows[s].gen /\ r[s].at = newest BY <2>1, <2>2
  <2>4. ASSUME NEW t \in Surfaces \ {s}
        PROVE  r[t].state = rows[t].state /\ r[t].gen = rows[t].gen /\ r[t].at = Moved(t)
    <3>1. r[t] = [rows[t] EXCEPT !.at = Moved(t)] BY <1>14
    <3> QED BY <2>1, <3>1
  <2> QED BY <2>3, <2>4
<1>16. r \in Rows
  <2> DEFINE Row == [state : States, gen : 0..MaxGeneration, at : 0..Cardinality(Surfaces)]
  <2>1. \A t \in Surfaces : rows[t] \in Row BY DEF Rows, States
  <2>2. newest \in 0..Cardinality(Surfaces) BY <1>2, <1>8
  <2>3. [rows[s] EXCEPT !.state = state] \in Row BY <2>1
  <2>4. [rows[s] EXCEPT !.state = state, !.at = newest] \in Row BY <2>2, <2>3
  <2>5. \A t \in Surfaces \ {s} : [rows[t] EXCEPT !.at = Moved(t)] \in Row BY <1>12, <2>1
  <2> HIDE DEF Row
  <2>6. r \in [Surfaces -> Row] BY <1>14, <2>4, <2>5
  <2> QED BY <2>6 DEF Row, Rows, States
<1>17. {t \in Surfaces : r[t].at # 0} = N \cup {s} BY <1>8, <1>12, <1>15
<1>18. Ordered(r)
  <2>1. Cardinality({t \in Surfaces : r[t].at # 0}) = newest BY <1>7, <1>17
  <2>2. \A t \in Surfaces : r[t].at <= newest
    BY <1>8, <1>12, <1>15
  <2>3. \A t, u \in Surfaces : t # u /\ r[t].at # 0 => r[t].at # r[u].at
    BY <1>8, <1>12, <1>13, <1>15
  <2> QED BY <2>1, <2>2, <2>3 DEF Ordered
<1> QED BY <1>8, <1>12, <1>15, <1>16, <1>18

\* The row of s starts with its next generation.
LEMMA StartingIs ==
  ASSUME SwayAssumption, NEW rows \in Rows, Ordered(rows), NEW s \in Surfaces,
         rows[s].gen + 1 \in 0..MaxGeneration, NEW r, r = Starting(rows, s)
  PROVE  /\ r \in Rows /\ Ordered(r)
         /\ r[s].state = "starting" /\ r[s].gen = rows[s].gen + 1 /\ r[s].at # 0
         /\ \A t \in Surfaces \ {s} :
              /\ r[t].state = rows[t].state /\ r[t].gen = rows[t].gen
              /\ r[t].at # 0 <=> rows[t].at # 0
<1> DEFINE next == [rows EXCEPT ![s].gen = @ + 1]
<1>1. next \in Rows BY DEF Rows
<1>2. /\ next[s].gen = rows[s].gen + 1 /\ next[s].at = rows[s].at
      /\ \A t \in Surfaces : next[t].at = rows[t].at /\ next[t].state = rows[t].state
      /\ \A t \in Surfaces \ {s} : next[t] = rows[t]
  BY DEF Rows
<1> HIDE DEF next
<1>3. {t \in Surfaces : next[t].at # 0} = {t \in Surfaces : rows[t].at # 0} BY <1>2
<1>4. Ordered(next) BY <1>2, <1>3 DEF Ordered
<1>5. r = Transition(next, s, "starting") BY DEF Starting, next
<1>6. "starting" \in States BY DEF States
<1>7. /\ r \in Rows /\ Ordered(r)
      /\ r[s].state = "starting" /\ r[s].gen = next[s].gen /\ r[s].at # 0
      /\ \A t \in Surfaces \ {s} :
           /\ r[t].state = next[t].state /\ r[t].gen = next[t].gen
           /\ r[t].at # 0 <=> next[t].at # 0
  BY <1>1, <1>4, <1>5, <1>6, TransitionIs
<1> QED BY <1>2, <1>7

-----------------------------------------------------------------------------
\* Nothing but rows changes for the adapter.
LEMMA MachineStays ==
  ASSUME SwayIInv, UNCHANGED <<mem, computer, files, desktops, sway, op>>
  PROVE  StepsFit' /\ CompositorsFit' /\ SessionsFit' /\ SiblingsFit'
<1>1. StepsFit /\ CompositorsFit /\ SessionsFit /\ SiblingsFit BY DEF SwayIInv
<1>2. \A s \in Surfaces : Attached(s)' = Attached(s) BY DEF Attached
<1>3. StepsFit' BY <1>1 DEF StepsFit
<1>4. CompositorsFit' BY <1>1 DEF CompositorsFit
<1>5. SessionsFit' BY <1>1 DEF SessionsFit
<1>6. SiblingsFit' BY <1>1, <1>2 DEF SiblingsFit
<1> QED BY <1>3, <1>4, <1>5, <1>6

\* A Surface is asked to start: it takes a place that was left.
LEMMA OpenKeeps ==
  ASSUME SwayAssumption, SwayIInv, NEW s \in Surfaces, Open(s)
  PROVE  SwayIInv'
<1>0. /\ SwayTyped /\ Ordered(row) /\ RowsFit /\ RecoveryFits /\ PlacesFit /\ ReadyIsHeld
      /\ (UnitsEnabled => UnitsFit) /\ row \in Rows
  BY DEF SwayIInv, SwayTyped
<1>1. /\ daemon.state = "up" /\ row[s].state \in {"stopped", "failed", "deleting"}
      /\ Reserved(s) < Capacity /\ ~OpOf(s)
      /\ row[s].gen + MaxRestarts < MaxGeneration + daemon.restarts
      /\ row' = Starting(row, s)
      /\ UNCHANGED <<mem, computer, files, desktops, sway, op, daemon>> BY DEF NoOp, Open, OpOf
<1>2. /\ daemon.restarts \in 0..MaxRestarts /\ MaxRestarts \in Nat /\ MaxGeneration \in Nat
      /\ row[s].gen \in Nat
  BY <1>0 DEF SwayTyped, SwayAssumption, Rows
<1>3. row[s].gen + 1 \in 0..MaxGeneration BY <1>1, <1>2
<1>4. /\ row' \in Rows /\ Ordered(row')
      /\ row'[s].state = "starting" /\ row'[s].gen = row[s].gen + 1 /\ row'[s].at # 0
      /\ \A t \in Surfaces \ {s} :
           /\ row'[t].state = row[t].state /\ row'[t].gen = row[t].gen
           /\ row'[t].at # 0 <=> row[t].at # 0
  BY <1>0, <1>1, <1>3, StartingIs
<1>5. daemon.todo = <<>> /\ \A t \in Surfaces : ~Unreconciled(t) /\ ~Reconciling(t)
  BY <1>0, <1>1 DEF RecoveryFits, Unreconciled, Reconciling
<1>6. \A t \in Surfaces : /\ ~Unreconciled(t)' /\ ~Reconciling(t)'
                          /\ BeingStopped(t)' = BeingStopped(t) /\ OpOf(t)' = OpOf(t)
  BY <1>1, <1>5 DEF Unreconciled, Reconciling, BeingStopped, OpOf
<1>7. SwayTyped' BY <1>0, <1>1, <1>4 DEF SwayTyped
<1>8. Ordered(row)' BY <1>4 DEF Ordered
<1>9. op.kind # "none" => op.s \in Surfaces \ {s} BY <1>0, <1>1 DEF OpOf, SwayTyped, Operations
<1>10. RowsFit'
  <2>1. \A t \in Surfaces : row'[t].gen # 0
          => row'[t].gen + MaxRestarts <= MaxGeneration + daemon.restarts
    <3> TAKE t \in Surfaces
    <3>1. CASE t = s BY <1>1, <1>2, <1>4, <3>1
    <3>2. CASE t # s BY <1>0, <1>4, <3>2 DEF RowsFit
    <3> QED BY <3>1, <3>2
  <2>2. \A t \in Surfaces : row'[t].state # "stopped" => row'[t].at # 0
    BY <1>0, <1>4 DEF RowsFit
  <2>3. \A t \in Surfaces : row'[t].state \in {"starting", "ready", "failed"} => row'[t].gen # 0
    <3> TAKE t \in Surfaces
    <3>1. CASE t = s BY <1>2, <1>4, <3>1
    <3>2. CASE t # s BY <1>0, <1>4, <3>2 DEF RowsFit
    <3> QED BY <3>1, <3>2
  <2>4. daemon'.state = "up" /\ daemon' = daemon /\ op' = op BY <1>1
  <2> QED BY <1>0, <1>4, <1>6, <1>9, <2>1, <2>2, <2>3, <2>4 DEF RowsFit
<1>11. RecoveryFits' BY <1>0, <1>1, <1>6 DEF RecoveryFits
<1>12. ReadyIsHeld' BY <1>0, <1>1, <1>4, <1>5, <1>6 DEF ReadyIsHeld
<1>13. PlacesFit'
  <2> DEFINE R == {t \in Surfaces \ {s} : \/ mem[t] # Nothing \/ BeingStopped(t)
                                          \/ row[t].state = "starting" /\ ~Unreconciled(t)}
             H == {t \in Surfaces : HoldsPlace(t)'}
  <2>1. Cardinality(R) < Capacity BY <1>1 DEF Reserved
  <2>2. \A t \in Surfaces \ {s} : HoldsPlace(t)' => t \in R
    BY <1>0, <1>1, <1>4, <1>5, <1>6 DEF HoldsPlace, ReadyIsHeld
  <2>3. H \in SUBSET (R \cup {s}) BY <2>2
  <2>4. IsFiniteSet(R) /\ Cardinality(R) \in Nat BY FS_Subset, FS_CardinalityType DEF SwayAssumption
  <2>5. Cardinality(R \cup {s}) = Cardinality(R) + 1 /\ IsFiniteSet(R \cup {s})
    <3>1. s \notin R OBVIOUS
    <3> HIDE DEF R
    <3>2. Cardinality(R \cup {s}) = IF s \in R THEN Cardinality(R) ELSE Cardinality(R) + 1
      BY <2>4, FS_AddElement
    <3> QED BY <2>4, <3>1, <3>2, FS_AddElement
  <2>6. Cardinality(H) <= Cardinality(R \cup {s}) BY <2>3, <2>5, FS_Subset
  <2>7. Cardinality(H) \in Nat /\ Cardinality(R \cup {s}) \in Nat /\ Capacity \in Nat
    BY <2>3, <2>5, FS_Subset, FS_CardinalityType DEF SwayAssumption
  <2>8. Cardinality(H) <= Capacity BY <2>1, <2>4, <2>5, <2>6, <2>7
  <2> QED BY <2>8 DEF PlacesFit
<1>14. UnitsEnabled => UnitsFit' BY <1>0, <1>1, <1>4 DEF UnitsFit, RunsNothing
<1> QED BY <1>7, <1>8, <1>10, <1>11, <1>12, <1>13, <1>14, <1>1, MachineStays DEF SwayIInv

\* Fewer Surfaces hold a place.
LEMMA PlacesShrink ==
  ASSUME SwayAssumption, PlacesFit, \A t \in Surfaces : HoldsPlace(t)' => HoldsPlace(t)
  PROVE  PlacesFit'
<1> DEFINE H == {t \in Surfaces : HoldsPlace(t)}
           G == {t \in Surfaces : HoldsPlace(t)'}
<1>1. G \in SUBSET H OBVIOUS
<1>2. IsFiniteSet(H) BY FS_Subset DEF SwayAssumption
<1>3. Cardinality(G) <= Cardinality(H) /\ IsFiniteSet(G) BY <1>1, <1>2, FS_Subset
<1>4. Cardinality(G) \in Nat /\ Cardinality(H) \in Nat /\ Capacity \in Nat
  BY <1>2, <1>3, FS_CardinalityType DEF SwayAssumption
<1>5. Cardinality(H) <= Capacity BY DEF PlacesFit
<1>6. Cardinality(G) <= Capacity BY <1>3, <1>4, <1>5
<1> QED BY <1>6 DEF PlacesFit

\* A runtime fails: its row does, and what it has is stopped later.
LEMMA RuntimeFailsKeeps ==
  ASSUME SwayAssumption, SwayIInv, NEW s \in Surfaces, RuntimeFails(s)
  PROVE  SwayIInv'
<1>0. /\ SwayTyped /\ Ordered(row) /\ RowsFit /\ RecoveryFits /\ PlacesFit /\ ReadyIsHeld
      /\ (UnitsEnabled => UnitsFit) /\ row \in Rows
  BY DEF SwayIInv, SwayTyped
<1>1. /\ row[s].state = "ready" /\ mem[s] # Nothing /\ ~OpOf(s)
      /\ row' = Transition(row, s, "failed")
      /\ UNCHANGED <<mem, computer, files, desktops, sway, op, daemon>>
  BY DEF NoOp, RuntimeFails, OpOf
<1>2. "failed" \in States BY DEF States
<1>3. /\ row' \in Rows /\ Ordered(row')
      /\ row'[s].state = "failed" /\ row'[s].gen = row[s].gen /\ row'[s].at # 0
      /\ \A t \in Surfaces \ {s} :
           /\ row'[t].state = row[t].state /\ row'[t].gen = row[t].gen
           /\ row'[t].at # 0 <=> row[t].at # 0
  BY <1>0, <1>1, <1>2, TransitionIs
<1>4. \A t \in Surfaces : /\ Unreconciled(t)' = Unreconciled(t) /\ Reconciling(t)' = Reconciling(t)
                          /\ BeingStopped(t)' = BeingStopped(t) /\ OpOf(t)' = OpOf(t)
  BY <1>1 DEF Unreconciled, Reconciling, BeingStopped, OpOf
<1>5. SwayTyped' BY <1>0, <1>1, <1>3 DEF SwayTyped
<1>6. Ordered(row)' BY <1>3 DEF Ordered
<1>7. op.kind # "none" => op.s \in Surfaces \ {s} BY <1>0, <1>1 DEF OpOf, SwayTyped, Operations
<1>8. RowsFit'
  <2>1. \A t \in Surfaces : /\ row'[t].gen = row[t].gen
                            /\ row'[t].state # "stopped" => row'[t].at # 0
                            /\ row'[t].state \in {"starting", "ready", "failed"} => row'[t].gen # 0
    BY <1>0, <1>1, <1>3 DEF RowsFit
  <2>2. op.kind # "none" => row'[op.s].state = row[op.s].state BY <1>3, <1>7
  <2>3. daemon' = daemon /\ op' = op BY <1>1
  <2> QED BY <1>0, <1>4, <2>1, <2>2, <2>3 DEF RowsFit
<1>9. RecoveryFits' BY <1>0, <1>1, <1>3, <1>4 DEF RecoveryFits
<1>10. ReadyIsHeld' BY <1>0, <1>1, <1>3, <1>4 DEF ReadyIsHeld
<1>11. \A t \in Surfaces : HoldsPlace(t)' => HoldsPlace(t)
  BY <1>1, <1>3, <1>4 DEF HoldsPlace
<1>12. PlacesFit' BY <1>0, <1>11, PlacesShrink
<1>13. UnitsEnabled => UnitsFit' BY <1>0, <1>1, <1>3 DEF UnitsFit, RunsNothing
<1> QED BY <1>5, <1>6, <1>8, <1>9, <1>10, <1>12, <1>13, <1>1, MachineStays DEF SwayIInv

-----------------------------------------------------------------------------
\* What the session and the computer have come to when a session has been stopped.
LEMMA AfterStopIs ==
  ASSUME StepsFit, op.kind \in {"start", "stop", "cleanup", "reconcile"}
  PROVE  /\ AfterStop \in {"done", "stopUnits", "reattach"} \cap Steps
         /\ AfterStop = "stopUnits" => op.kind = "start"
         /\ AfterStop = "reattach" <=> op.kind = "reconcile"
         /\ AfterStop = "done" /\ op.kind = "start" => op.failed
<1>1. op.failed => op.kind = "start" BY DEF StepsFit
<1> QED BY <1>1 DEF AfterStop, Steps

\* The session of an operation's Surface is forgotten and its desktop ends.
LEMMA StopCurrentKeeps ==
  ASSUME SwayAssumption, SwayIInv, StopCurrent
  PROVE  SwayIInv'
<1>0. /\ SwayTyped /\ StepsFit /\ CompositorsFit /\ SessionsFit /\ SiblingsFit
      /\ (UnitsEnabled => UnitsFit)
  BY DEF SwayIInv
<1>1. /\ op.pc = "stopCurrent" /\ op' = [op EXCEPT !.pc = "removeFiles"]
      /\ mem' = [mem EXCEPT ![op.s] = Nothing] /\ desktops' \subseteq desktops
      /\ Desktop(op.s, op.tree) \notin desktops'
      /\ UNCHANGED <<row, computer, files, sway, daemon>>
  BY DEF StopCurrent, Goto
<1>2. /\ op' \in Operations /\ op'.kind = op.kind /\ op'.s = op.s /\ op'.tree = op.tree
      /\ op'.failed = op.failed /\ op'.pc = "removeFiles"
  BY <1>1, SwayFacts, OpGoes DEF Steps
<1>3. /\ op.kind \in {"start", "stop", "cleanup"} /\ op.s \in Surfaces
      /\ mem[op.s] = op.tree /\ op.tree # Nothing /\ op.tree \in Real
  BY <1>0, <1>1, SwayFacts DEF StepsFit, SessionsFit
<1>4. mem'[op.s] = Nothing /\ \A t \in Surfaces \ {op.s} : mem'[t] = mem[t]
  BY <1>0, <1>1, <1>3 DEF SwayTyped
<1>5. Ordered(row)' /\ RowsFit' /\ RecoveryFits' /\ PlacesFit' /\ ReadyIsHeld'
  BY <1>1, <1>2, <1>3, <1>4, StepKeepsRows
<1>6. SwayTyped' BY <1>0, <1>1, <1>2, <1>3 DEF SwayTyped
<1>7. StepsFit' BY <1>0, <1>1, <1>2, <1>3 DEF StepsFit
<1>8. CompositorsFit' BY <1>0, <1>1, <1>2 DEF CompositorsFit
<1>9. SessionsFit'
  <2>1. \A s, t \in Surfaces : s # t /\ mem'[s] # Nothing => mem'[s].out # mem'[t].out
    <3> SUFFICES ASSUME NEW s \in Surfaces, NEW t \in Surfaces, s # t, mem'[s] # Nothing
                 PROVE  mem'[s].out # mem'[t].out
      OBVIOUS
    <3>1. mem[s] = mem'[s] /\ mem[s] \in Real BY <1>0, <1>4 DEF SwayTyped
    <3>2. mem[s].out # 0 /\ Nothing.out = 0 BY <3>1, NothingIsNone
    <3>3. mem[s].out # mem[t].out BY <1>0, <3>1 DEF SessionsFit
    <3> QED BY <1>4, <3>1, <3>2, <3>3
  <2> QED BY <1>0, <1>1, <1>2, <1>3, <1>4, <2>1 DEF SessionsFit
<1>10. SiblingsFit'
  <2>1. \A t \in Surfaces : mem'[t] # Nothing => mem'[t] = mem[t] BY <1>4
  <2>2. \A t \in Surfaces : Attached(t)' => Attached(t) BY <1>1, <2>1 DEF Attached
  <2>3. \A t \in Surfaces : mem'[t] = mem[t] \/ mem'[t].comp = 0 BY <1>4, NothingIsNone
  <2>4. computer' = computer /\ files' = files BY <1>1
  <2>5. \A t \in Surfaces : Attached(t)' => mem'[t].comp = computer'.gen
    BY <1>0, <2>1, <2>2, <2>4 DEF SiblingsFit, Attached
  <2>6. \A t \in Surfaces : mem'[t] # Nothing /\ mem'[t].comp = computer'.gen
                              => t \in computer'.surfaces
    BY <1>0, <2>1, <2>4 DEF SiblingsFit
  <2>7. computer'.gen = 0 /\ files'.state # 0
          => \A t \in Surfaces : mem'[t].comp # files'.state
    BY <1>0, <1>1, <2>3, <2>4 DEF SiblingsFit
  <2> QED BY <1>2, <2>5, <2>6, <2>7 DEF SiblingsFit
<1>11. UnitsEnabled => UnitsFit'
  <2> SUFFICES ASSUME UnitsEnabled PROVE UnitsFit' OBVIOUS
  <2>1. \A t \in Surfaces : mem'[t] # Nothing => mem'[t] = mem[t] BY <1>4
  <2>2. /\ \A d, e \in desktops' : d.s = e.s => d = e
        /\ \A t \in Surfaces : mem'[t] # Nothing
             => \A d \in desktops' : d.s = t => d = Desktop(t, mem'[t])
        /\ \A t \in Surfaces : RunsNothing(t) => RunsNothing(t)'
        /\ \A t \in Surfaces : row'[t].state = "stopped" => RunsNothing(t)'
    BY <1>1, <2>1, FewerFit
  <2>3. RunsNothing(op.s)' BY <1>0, <1>1, <1>3 DEF UnitsFit, RunsNothing
  <2> QED BY <1>2, <1>3, <2>2, <2>3 DEF UnitsFit, RunsNothing
<1> QED BY <1>5, <1>6, <1>7, <1>8, <1>9, <1>10, <1>11 DEF SwayIInv

\* Its state file goes; a computer that is left without Surfaces is stopped.
LEMMA RemoveFilesKeeps ==
  ASSUME SwayAssumption, SwayIInv, RemoveFiles
  PROVE  SwayIInv'
<1>0. /\ SwayTyped /\ StepsFit /\ CompositorsFit /\ SessionsFit /\ SiblingsFit
      /\ (UnitsEnabled => UnitsFit)
  BY DEF SwayIInv
<1>1. /\ op.kind \in {"start", "stop", "cleanup"} /\ op.s \in Surfaces /\ op.pc = "removeFiles"
      /\ mem[op.s] = Nothing /\ op.tree \in Real /\ op.tree.comp # 0
      /\ computer \in ComputerStates /\ files \in FileStates
  BY <1>0, SwayFacts, NothingIsNone DEF StepsFit, SessionsFit, RemoveFiles
<1>2. PICK p \in {"stopComputer", AfterStop} :
        /\ op' = [op EXCEPT !.pc = p]
        /\ p = "stopComputer" => op.tree.comp = computer.gen /\ computer.surfaces \subseteq {op.s}
        /\ computer' = [computer EXCEPT !.surfaces = @ \ {op.s}] \/ computer' = computer
  <2>1. CASE op.tree.comp # computer.gen
    <3>1. op' = [op EXCEPT !.pc = AfterStop] /\ computer' = computer
      BY <2>1 DEF RemoveFiles, Goto
    <3>2. AfterStop # "stopComputer" BY <1>0, <1>1, AfterStopIs
    <3> QED BY <3>1, <3>2
  <2>2. CASE op.tree.comp = computer.gen
    <3>1. /\ computer' = [computer EXCEPT !.surfaces = @ \ {op.s}]
          /\ op' = [op EXCEPT !.pc = IF computer.surfaces \subseteq {op.s} THEN "stopComputer"
                                     ELSE AfterStop]
      BY <2>2 DEF RemoveFiles, Goto
    <3>2. AfterStop # "stopComputer" BY <1>0, <1>1, AfterStopIs
    <3>3. CASE computer.surfaces \subseteq {op.s} BY <2>2, <3>1, <3>3
    <3>4. CASE ~(computer.surfaces \subseteq {op.s}) BY <3>1, <3>2, <3>4
    <3> QED BY <3>3, <3>4
  <2> QED BY <2>1, <2>2
<1>3. /\ files' = [files EXCEPT !.surface[op.s] = Nothing]
      /\ UNCHANGED <<row, mem, desktops, sway, daemon>>
  BY DEF RemoveFiles
<1>4. /\ p \in {"stopComputer", "done", "stopUnits"} /\ p \in Steps
      /\ p = "stopUnits" => op.kind = "start"
      /\ p = "done" /\ op.kind = "start" => op.failed
  BY <1>0, <1>1, AfterStopIs DEF Steps
<1>5. /\ op' \in Operations /\ op'.kind = op.kind /\ op'.s = op.s /\ op'.tree = op.tree
      /\ op'.failed = op.failed /\ op'.pc = p
  BY <1>2, <1>4, SwayFacts, OpGoes
<1>6. /\ computer' \in ComputerStates /\ computer'.gen = computer.gen
      /\ computer'.surfaces = computer.surfaces \ {op.s} \/ computer'.surfaces = computer.surfaces
  BY <1>1, <1>2 DEF ComputerStates
<1>7. /\ files' \in FileStates /\ files'.dir = files.dir /\ files'.state = files.state
      /\ files'.surface[op.s] = Nothing
      /\ \A t \in Surfaces \ {op.s} : files'.surface[t] = files.surface[t]
  BY <1>1, <1>3, NothingIsNone DEF FileStates
<1>8. Ordered(row)' /\ RowsFit' /\ RecoveryFits' /\ PlacesFit' /\ ReadyIsHeld'
  BY <1>1, <1>3, <1>5, StepKeepsRows
<1>9. SwayTyped' BY <1>0, <1>3, <1>5, <1>6, <1>7 DEF SwayTyped
<1>10. StepsFit' BY <1>0, <1>1, <1>4, <1>5 DEF StepsFit
<1>11. CompositorsFit' BY <1>1, <1>2, <1>0, <1>3, <1>4, <1>5, <1>6, <1>7 DEF CompositorsFit
<1>12. SessionsFit' BY <1>7, NothingIsNone, <1>0, SwayFacts, <1>1, <1>3, <1>4, <1>5 DEF SessionsFit
<1>13. SiblingsFit'
  <2>1. \A t \in Surfaces : Attached(t)' = Attached(t) BY <1>3 DEF Attached
  <2>2. p = "stopComputer" => \A t \in Surfaces : ~Attached(t)
    <3> SUFFICES ASSUME p = "stopComputer", NEW t \in Surfaces, Attached(t) PROVE FALSE OBVIOUS
    <3>1. mem[t] # Nothing /\ t \in computer.surfaces BY <1>0 DEF SiblingsFit, Attached
    <3> QED BY <1>1, <1>2, <3>1
  <2>3. \A t \in Surfaces : mem[t] # Nothing => t # op.s BY <1>1
  <2>4. computer'.gen = computer.gen /\ files'.state = files.state BY <1>6, <1>7
  <2>5. \A t \in Surfaces : mem'[t] # Nothing /\ mem'[t].comp = computer'.gen
                              => t \in computer'.surfaces
    BY <1>0, <1>3, <1>6, <2>3 DEF SiblingsFit
  <2> QED BY <1>0, <1>1, <1>3, <1>4, <1>5, <2>1, <2>2, <2>4, <2>5 DEF SiblingsFit
<1>14. UnitsEnabled => UnitsFit' BY <1>0, <1>1, <1>3, <1>4, <1>5 DEF UnitsFit, RunsNothing
<1> QED BY <1>8, <1>9, <1>10, <1>11, <1>12, <1>13, <1>14 DEF SwayIInv

\* The compositor ends, and all its desktops.
LEMMA StopComputerKeeps ==
  ASSUME SwayAssumption, SwayIInv, StopComputer
  PROVE  SwayIInv'
<1>0. /\ SwayTyped /\ StepsFit /\ CompositorsFit /\ SessionsFit /\ SiblingsFit
      /\ (UnitsEnabled => UnitsFit)
  BY DEF SwayIInv
<1>1. /\ op.pc = "stopComputer" /\ op' = [op EXCEPT !.pc = "removeComputer"]
      /\ sway' = [sway EXCEPT !.alive = @ \ {computer.gen}]
      /\ desktops' = {d \in desktops : d.comp # computer.gen}
      /\ computer' = [gen |-> 0, surfaces |-> {}]
      /\ UNCHANGED <<row, mem, files, daemon>>
  BY DEF StopComputer, Goto
<1>2. /\ op' \in Operations /\ op'.kind = op.kind /\ op'.s = op.s /\ op'.tree = op.tree
      /\ op'.failed = op.failed /\ op'.pc = "removeComputer"
  BY <1>1, SwayFacts, OpGoes DEF Steps
<1>3. /\ op.kind \in {"start", "stop", "cleanup", "reconcile"} /\ op.s \in Surfaces
      /\ mem[op.s] = Nothing /\ computer.gen = files.dir
  BY <1>0, <1>1, SwayFacts DEF StepsFit, SessionsFit, CompositorsFit
<1>4. sway' \in SwayStates /\ sway'.alive = {} /\ sway'.last = sway.last
  BY <1>0, <1>3, <1>1, SwayFacts DEF CompositorsFit, SwayStates
<1>5. desktops' = {} BY <1>0, <1>1, <1>3 DEF CompositorsFit
<1>6. /\ computer'.gen = 0 /\ computer'.surfaces = {} /\ computer' \in ComputerStates
  BY <1>1, SwayFacts DEF ComputerStates
<1>7. Ordered(row)' /\ RowsFit' /\ RecoveryFits' /\ PlacesFit' /\ ReadyIsHeld'
  BY <1>1, <1>2, <1>3, StepKeepsRows
<1>8. SwayTyped' BY <1>0, <1>1, <1>2, <1>4, <1>5, <1>6 DEF SwayTyped
<1>9. StepsFit' BY <1>0, <1>2, <1>3 DEF StepsFit
<1>10. CompositorsFit' BY <1>0, <1>1, <1>2, <1>4, <1>5, <1>6 DEF CompositorsFit
<1>11. SessionsFit' BY <1>0, <1>1, <1>2, <1>3, <1>4 DEF SessionsFit
<1>12. SiblingsFit'
  BY <1>5, <1>0, <1>1, NothingIsNone, <1>2, <1>6 DEF Attached, SwayTyped, SiblingsFit
<1>13. UnitsEnabled => UnitsFit' BY <1>2, <1>5 DEF UnitsFit, RunsNothing
<1> QED BY <1>7, <1>8, <1>9, <1>10, <1>11, <1>12, <1>13 DEF SwayIInv

\* Its directory and its state file go.
LEMMA RemoveComputerKeeps ==
  ASSUME SwayAssumption, SwayIInv, RemoveComputer
  PROVE  SwayIInv'
<1>0. /\ SwayTyped /\ StepsFit /\ CompositorsFit /\ SessionsFit /\ SiblingsFit
      /\ (UnitsEnabled => UnitsFit)
  BY DEF SwayIInv
<1>1. /\ op.pc = "removeComputer" /\ op' = [op EXCEPT !.pc = AfterStop]
      /\ files' = [files EXCEPT !.dir = 0, !.state = 0]
      /\ UNCHANGED <<row, mem, computer, desktops, sway, daemon>>
  BY DEF RemoveComputer, Goto
<1>3. /\ op.kind \in {"start", "stop", "cleanup", "reconcile"} /\ op.s \in Surfaces
      /\ mem[op.s] = Nothing /\ computer.gen = 0 /\ sway.alive = {} /\ desktops = {}
      /\ sway.last \in Nat /\ files \in FileStates
  BY <1>0, <1>1, SwayFacts DEF StepsFit, SessionsFit, CompositorsFit
<1>4. PICK p \in {"done", "stopUnits", "reattach"} \cap Steps :
        /\ p = AfterStop
        /\ p = "stopUnits" => op.kind = "start"
        /\ p = "reattach" <=> op.kind = "reconcile"
        /\ p = "done" /\ op.kind = "start" => op.failed
  BY <1>0, <1>3, AfterStopIs
<1>5. /\ op' \in Operations /\ op'.kind = op.kind /\ op'.s = op.s /\ op'.tree = op.tree
      /\ op'.failed = op.failed /\ op'.pc = p
  BY <1>1, <1>4, SwayFacts, OpGoes
<1>6. /\ files' \in FileStates /\ files'.dir = 0 /\ files'.state = 0
      /\ files'.surface = files.surface
  BY <1>1, <1>3, SwayFacts DEF FileStates
<1>7. Ordered(row)' /\ RowsFit' /\ RecoveryFits' /\ PlacesFit' /\ ReadyIsHeld'
  BY <1>1, <1>3, <1>5, StepKeepsRows
<1>8. SwayTyped' BY <1>0, <1>1, <1>5, <1>6 DEF SwayTyped
<1>9. StepsFit' BY <1>0, <1>3, <1>4, <1>5 DEF StepsFit
<1>10. CompositorsFit' BY <1>1, <1>3, <1>4, <1>5, <1>6 DEF CompositorsFit
<1>11. SessionsFit' BY <1>0, <1>1, <1>3, <1>4, <1>5, <1>6 DEF SessionsFit
<1>12. SiblingsFit' BY <1>1, <1>3, <1>0, <1>4, <1>5, <1>6 DEF Attached, SiblingsFit
<1>13. UnitsEnabled => UnitsFit' BY <1>1, <1>3, <1>4, <1>5 DEF UnitsFit, RunsNothing
<1> QED BY <1>7, <1>8, <1>9, <1>10, <1>11, <1>12, <1>13 DEF SwayIInv

-----------------------------------------------------------------------------
\* What older generations of a Surface run ends.
LEMMA StopUnitsKeeps ==
  ASSUME SwayAssumption, SwayIInv, StopUnits
  PROVE  SwayIInv'
<1>0. /\ SwayTyped /\ StepsFit /\ CompositorsFit /\ SessionsFit /\ SiblingsFit
      /\ (UnitsEnabled => UnitsFit)
  BY DEF SwayIInv
<1>1. /\ op.pc = "stopUnits" /\ op' = [op EXCEPT !.pc = "ensure"]
      /\ desktops' = {d \in desktops : ~(UnitsEnabled /\ d.s = op.s)}
      /\ UNCHANGED <<row, mem, computer, files, sway, daemon>>
  BY DEF StopUnits, Goto
<1>2. /\ op' \in Operations /\ op'.kind = op.kind /\ op'.s = op.s /\ op'.tree = op.tree
      /\ op'.failed = op.failed /\ op'.pc = "ensure"
  BY <1>1, SwayFacts, OpGoes DEF Steps
<1>3. op.kind = "start" /\ op.s \in Surfaces /\ mem[op.s] = Nothing /\ desktops' \subseteq desktops
  BY <1>0, <1>1, SwayFacts DEF StepsFit, SessionsFit
<1>4. Ordered(row)' /\ RowsFit' /\ RecoveryFits' /\ PlacesFit' /\ ReadyIsHeld'
  BY <1>1, <1>2, <1>3, StepKeepsRows
<1>5. SwayTyped' BY <1>0, <1>1, <1>2, <1>3 DEF SwayTyped
<1>6. StepsFit' BY <1>0, <1>2, <1>3 DEF StepsFit
<1>7. CompositorsFit' BY <1>0, <1>1, <1>2 DEF CompositorsFit
<1>8. SessionsFit' BY <1>0, <1>1, <1>2, <1>3 DEF SessionsFit
<1>9. SiblingsFit' BY <1>1, <1>3, <1>0, <1>2 DEF Attached, SiblingsFit
<1>10. UnitsEnabled => UnitsFit'
  <2> SUFFICES ASSUME UnitsEnabled PROVE UnitsFit' OBVIOUS
  <2>1. RunsNothing(op.s)' BY <1>1, <1>2 DEF RunsNothing
  <2>2. \A t \in Surfaces : RunsNothing(t) => RunsNothing(t)' BY <1>3 DEF RunsNothing
  <2> QED BY <1>0, <1>1, <1>2, <1>3, <2>1, <2>2 DEF UnitsFit
<1> QED BY <1>4, <1>5, <1>6, <1>7, <1>8, <1>9, <1>10 DEF SwayIInv

\* A deletion ends what runs and removes the state file.
LEMMA KillKeeps ==
  ASSUME SwayAssumption, SwayIInv, Kill
  PROVE  SwayIInv'
<1>0. /\ SwayTyped /\ StepsFit /\ CompositorsFit /\ SessionsFit /\ SiblingsFit
      /\ (UnitsEnabled => UnitsFit)
  BY DEF SwayIInv
<1>1. /\ op.pc = "kill" /\ op' = [op EXCEPT !.pc = "done"]
      /\ desktops' = {d \in desktops : ~(UnitsEnabled /\ d.s = op.s)}
      /\ files' = [files EXCEPT !.surface[op.s] = Nothing]
      /\ UNCHANGED <<row, mem, computer, sway, daemon>>
  BY DEF Kill, Goto
<1>2. /\ op' \in Operations /\ op'.kind = op.kind /\ op'.s = op.s /\ op'.tree = op.tree
      /\ op'.failed = op.failed /\ op'.pc = "done"
  BY <1>1, SwayFacts, OpGoes DEF Steps
<1>3. /\ op.kind = "destroy" /\ op.s \in Surfaces /\ mem[op.s] = Nothing
      /\ desktops' \subseteq desktops
  BY <1>0, <1>1, SwayFacts DEF StepsFit, SessionsFit
<1>4. /\ files' \in FileStates /\ files'.dir = files.dir /\ files'.state = files.state
      /\ files'.surface[op.s] = Nothing
      /\ \A t \in Surfaces \ {op.s} : files'.surface[t] = files.surface[t]
  BY <1>1, <1>3, SwayFacts, NothingIsNone DEF FileStates
<1>5. Ordered(row)' /\ RowsFit' /\ RecoveryFits' /\ PlacesFit' /\ ReadyIsHeld'
  BY <1>1, <1>2, <1>3, StepKeepsRows
<1>6. SwayTyped' BY <1>0, <1>1, <1>2, <1>3, <1>4 DEF SwayTyped
<1>7. StepsFit' BY <1>0, <1>2, <1>3 DEF StepsFit
<1>8. CompositorsFit' BY <1>0, <1>1, <1>2, <1>4 DEF CompositorsFit
<1>9. SessionsFit' BY <1>4, NothingIsNone, <1>0, SwayFacts, <1>1, <1>2, <1>3 DEF SessionsFit
<1>10. SiblingsFit' BY <1>1, <1>3, <1>0, <1>2, <1>4 DEF Attached, SiblingsFit
<1>11. UnitsEnabled => UnitsFit'
  <2> SUFFICES ASSUME UnitsEnabled PROVE UnitsFit' OBVIOUS
  <2>1. RunsNothing(op.s)' BY <1>1, <1>2 DEF RunsNothing
  <2>2. \A t \in Surfaces : RunsNothing(t) => RunsNothing(t)' BY <1>3 DEF RunsNothing
  <2> QED BY <1>0, <1>1, <1>2, <1>3, <2>1, <2>2 DEF UnitsFit
<1> QED BY <1>5, <1>6, <1>7, <1>8, <1>9, <1>10, <1>11 DEF SwayIInv

\* A start and a reconcile look for the computer alike: the one known and running, one that is
\* lost, one found again on disk, or none.
LEMMA LookingKeeps ==
  ASSUME SwayAssumption, SwayIInv, NEW found, NEW none,
         \/ op.pc = "ensure" /\ found = "allocate" /\ none = "spawnSway"
         \/ op.pc = "reattach" /\ found = "capture" /\ none = "discard",
         \/ /\ ComputerRunning
            /\ Goto(found) /\ UNCHANGED <<computer, files, desktops, sway>>
         \/ /\ computer.gen # 0 /\ ~ComputerRunning
            /\ Goto("stopComputer") /\ UNCHANGED <<computer, files, desktops, sway>>
         \/ /\ computer.gen = 0 /\ Reattachable
            /\ computer' = [gen |-> files.state, surfaces |-> {}]
            /\ Goto(found) /\ UNCHANGED <<files, desktops, sway>>
         \/ /\ computer.gen = 0 /\ ~Reattachable
            /\ DiscardComputer
            /\ Goto(none) /\ UNCHANGED computer,
         UNCHANGED <<row, mem, daemon>>
  PROVE  SwayIInv'
<1>0. /\ SwayTyped /\ StepsFit /\ CompositorsFit /\ SessionsFit /\ SiblingsFit
      /\ (UnitsEnabled => UnitsFit)
  BY DEF SwayIInv
<1> DEFINE Machine ==
             /\ computer' \in ComputerStates /\ files' \in FileStates /\ sway' \in SwayStates
             /\ files'.surface = files.surface /\ sway'.last = sway.last
             /\ desktops' \subseteq desktops
             /\ sway'.alive \subseteq {files'.dir} /\ files'.dir <= sway'.last
             /\ files'.state # 0 => files'.state = files'.dir
             /\ computer'.gen # 0 => computer'.gen = files'.dir /\ files'.state = files'.dir
             /\ \A d \in desktops' : d.comp \in sway'.alive
           Siblings ==
             /\ \A s \in Surfaces : Attached(s)' => mem[s].comp = computer'.gen
             /\ \A s \in Surfaces : mem[s] # Nothing /\ mem[s].comp = computer'.gen
                                      => s \in computer'.surfaces
             /\ computer'.gen = 0 /\ files'.state # 0
                  => \A s \in Surfaces : mem[s].comp # files'.state
           Next(p) ==
             /\ op' = [op EXCEPT !.pc = p]
             /\ p = none => computer'.gen = 0 /\ sway'.alive = {} /\ files'.state = 0
             /\ p # none => computer'.gen # 0
             /\ p = "stopComputer" => \A s \in Surfaces : ~Attached(s)'
<1>1. /\ computer \in ComputerStates /\ files \in FileStates /\ sway \in SwayStates
      /\ sway.last \in Nat /\ op.s \in Surfaces /\ computer.gen \in Nat
      /\ UNCHANGED <<row, mem, daemon>> /\ mem[op.s] = Nothing
  BY <1>0, SwayFacts DEF SessionsFit
<1>2. /\ op.pc = "ensure" => op.kind = "start"
      /\ op.pc = "reattach" => op.kind = "reconcile"
      /\ op.pc # "removeComputer"
      /\ found # none /\ found # "stopComputer" /\ none # "stopComputer"
  BY <1>0 DEF StepsFit
<1>3. \A s \in Surfaces : mem[s] # Nothing => mem[s].comp # 0
  BY <1>0, NothingIsNone DEF SwayTyped
<1>4. \E p \in {found, "stopComputer", none} : Next(p) /\ Machine /\ Siblings
  <2>1. CASE ComputerRunning /\ Goto(found) /\ UNCHANGED <<computer, files, desktops, sway>>
    <3>1. Machine BY <1>0, <1>1, <2>1 DEF CompositorsFit
    <3>2. \A s \in Surfaces : Attached(s)' = Attached(s) BY <1>1, <2>1 DEF Attached
    <3>3. Siblings BY <1>0, <1>1, <1>2, <2>1, <3>2 DEF SiblingsFit
    <3>4. Next(found) BY <1>2, <2>1 DEF Goto, ComputerRunning
    <3> QED BY <3>1, <3>3, <3>4
  <2>2. CASE /\ computer.gen # 0 /\ ~ComputerRunning
             /\ Goto("stopComputer") /\ UNCHANGED <<computer, files, desktops, sway>>
    <3>1. Machine BY <1>0, <1>1, <2>2 DEF CompositorsFit
    <3>2. \A s \in Surfaces : Attached(s)' = Attached(s) BY <1>1, <2>2 DEF Attached
    <3>3. Siblings BY <1>0, <1>1, <1>2, <2>2, <3>2 DEF SiblingsFit
    <3>4. ASSUME NEW s \in Surfaces, Attached(s) PROVE FALSE
      <4>1. mem[s].comp = computer.gen BY <1>0, <3>4 DEF SiblingsFit
      <4>2. Desktop(s, mem[s]).comp = mem[s].comp BY DEF Desktop
      <4>3. mem[s].comp \in sway.alive BY <1>0, <3>4, <4>2 DEF CompositorsFit, Attached
      <4> QED BY <2>2, <4>1, <4>3 DEF ComputerRunning
    <3>5. Next("stopComputer") BY <1>2, <2>2, <3>2, <3>4 DEF Goto
    <3> QED BY <3>1, <3>3, <3>5
  <2>3. CASE /\ computer.gen = 0 /\ Reattachable
             /\ computer' = [gen |-> files.state, surfaces |-> {}]
             /\ Goto(found) /\ UNCHANGED <<files, desktops, sway>>
    <3>0. files.state # 0 /\ files.state \in 0..MaxComputers
      BY <2>3, SwayFacts DEF Reattachable
    <3>1. computer' \in ComputerStates /\ computer'.gen = files.state /\ computer'.surfaces = {}
      BY <2>3, <3>0 DEF ComputerStates
    <3>2. Machine BY <1>0, <1>1, <2>3, <3>0, <3>1 DEF CompositorsFit
    <3>3. \A s \in Surfaces : Attached(s)' = Attached(s) BY <1>1, <2>3 DEF Attached
    <3>4. \A s \in Surfaces : ~Attached(s)
      BY <1>0, <1>3, <2>3 DEF SiblingsFit, Attached
    <3>5. \A s \in Surfaces : mem[s].comp # files.state BY <1>0, <1>2, <2>3, <3>0 DEF SiblingsFit
    <3>6. Siblings BY <3>0, <3>1, <3>3, <3>4, <3>5
    <3>7. Next(found) BY <1>2, <2>3, <3>0, <3>1 DEF Goto
    <3> QED BY <3>2, <3>6, <3>7
  <2>4. CASE /\ computer.gen = 0 /\ ~Reattachable
             /\ DiscardComputer
             /\ Goto(none) /\ UNCHANGED computer
    <3>1. sway' \in SwayStates /\ sway'.alive = {} /\ sway'.last = sway.last
      BY <1>1, <2>4 DEF DiscardComputer, SwayStates
    <3>2. /\ files' \in FileStates /\ files'.dir = 0 /\ files'.state = 0
          /\ files'.surface = files.surface
      BY <1>1, <2>4, SwayFacts DEF DiscardComputer, FileStates
    <3>3. desktops' = {} BY <1>0, <2>4 DEF DiscardComputer, CompositorsFit
    <3>4. Machine BY <1>1, <2>4, <3>1, <3>2, <3>3
    <3>5. \A s \in Surfaces : ~Attached(s)' BY <3>3 DEF Attached
    <3>6. Siblings BY <1>3, <2>4, <3>2, <3>5
    <3>7. Next(none) BY <1>2, <2>4, <3>1, <3>2 DEF Goto
    <3> QED BY <3>4, <3>6, <3>7
  <2> QED BY <2>1, <2>2, <2>3, <2>4
<1>5. PICK p \in {found, "stopComputer", none} : Next(p) /\ Machine /\ Siblings BY <1>4
<1>6. /\ op' \in Operations /\ op'.kind = op.kind /\ op'.s = op.s /\ op'.tree = op.tree
      /\ op'.failed = op.failed /\ op'.pc = p BY <1>5, SwayFacts, OpGoes DEF Steps
<1>7. op.kind # "none" BY <1>2
<1>8. Ordered(row)' /\ RowsFit' /\ RecoveryFits' /\ PlacesFit' /\ ReadyIsHeld'
  BY <1>1, <1>6, <1>7, StepKeepsRows
<1>9. SwayTyped' BY <1>0, <1>1, <1>5, <1>6 DEF SwayTyped
<1>10. StepsFit' BY <1>0, <1>2, <1>5, <1>6 DEF StepsFit
<1>11. CompositorsFit' BY <1>2, <1>5, <1>6 DEF CompositorsFit
<1>12. SessionsFit' BY <1>0, <1>1, <1>2, <1>5, <1>6 DEF SessionsFit
<1>13. SiblingsFit' BY <1>1, <1>2, <1>5, <1>6 DEF SiblingsFit
<1>14. UnitsEnabled => UnitsFit'
  <2> SUFFICES ASSUME UnitsEnabled PROVE UnitsFit' OBVIOUS
  <2>1. /\ desktops' \subseteq desktops
        /\ \A t \in Surfaces : RunsNothing(t) => RunsNothing(t)'
    BY <1>5 DEF RunsNothing
  <2>2. p \in {"ensure", "spawnSway", "waitSway", "allocate"} => op.pc = "ensure" OBVIOUS
  <2>3. op.pc = "ensure" => RunsNothing(op.s) BY <1>0 DEF UnitsFit
  <2>4. op.kind # "stop" /\ op.kind # "destroy" BY <1>2
  <2>5. \A d, e \in desktops' : d.s = e.s => d = e BY <1>0, <2>1 DEF UnitsFit
  <2>6. \A s \in Surfaces : mem[s] # Nothing
          => \A d \in desktops' : d.s = s => d = Desktop(s, mem[s])
    BY <1>0, <2>1 DEF UnitsFit
  <2>7. \A s \in Surfaces : row[s].state = "stopped" => RunsNothing(s)'
    BY <1>0, <2>1 DEF UnitsFit
  <2>8. p \in {"ensure", "spawnSway", "waitSway", "allocate"} => RunsNothing(op.s)'
    BY <1>1, <1>6, <2>1, <2>2, <2>3 DEF RunsNothing
  <2>9. p # "waitDesktop" BY <1>2
  <2> QED BY <1>1, <1>6, <2>4, <2>5, <2>6, <2>7, <2>8, <2>9 DEF UnitsFit
<1> QED BY <1>8, <1>9, <1>10, <1>11, <1>12, <1>13, <1>14 DEF SwayIInv

-----------------------------------------------------------------------------
\* The start and the reconcile of a Surface find its computer.
LEMMA EnsureComputerKeeps ==
  ASSUME SwayAssumption, SwayIInv, EnsureComputer
  PROVE  SwayIInv'
<1>1. /\ op.pc = "ensure" /\ UNCHANGED <<row, mem, daemon>>
      /\ \/ /\ ComputerRunning
            /\ Goto("allocate") /\ UNCHANGED <<computer, files, desktops, sway>>
         \/ /\ computer.gen # 0 /\ ~ComputerRunning
            /\ Goto("stopComputer") /\ UNCHANGED <<computer, files, desktops, sway>>
         \/ /\ computer.gen = 0 /\ Reattachable
            /\ computer' = [gen |-> files.state, surfaces |-> {}]
            /\ Goto("allocate") /\ UNCHANGED <<files, desktops, sway>>
         \/ /\ computer.gen = 0 /\ ~Reattachable
            /\ DiscardComputer
            /\ Goto("spawnSway") /\ UNCHANGED computer
  BY DEF EnsureComputer
<1> QED BY <1>1, LookingKeeps

\* The same, of a reconcile.
LEMMA ReattachKeeps ==
  ASSUME SwayAssumption, SwayIInv, Reattach
  PROVE  SwayIInv'
<1>1. /\ op.pc = "reattach" /\ UNCHANGED <<row, mem, daemon>>
      /\ \/ /\ ComputerRunning
            /\ Goto("capture") /\ UNCHANGED <<computer, files, desktops, sway>>
         \/ /\ computer.gen # 0 /\ ~ComputerRunning
            /\ Goto("stopComputer") /\ UNCHANGED <<computer, files, desktops, sway>>
         \/ /\ computer.gen = 0 /\ Reattachable
            /\ computer' = [gen |-> files.state, surfaces |-> {}]
            /\ Goto("capture") /\ UNCHANGED <<files, desktops, sway>>
         \/ /\ computer.gen = 0 /\ ~Reattachable
            /\ DiscardComputer
            /\ Goto("discard") /\ UNCHANGED computer
  BY DEF Reattach
<1> QED BY <1>1, LookingKeeps

\* A start fails without more ado.
LEMMA FailsKeeps ==
  ASSUME SwayAssumption, SwayIInv, op.kind = "start", op.pc # "removeComputer",
         mem[op.s] = Nothing, Fails,
         UNCHANGED <<row, mem, computer, files, desktops, sway, daemon>>
  PROVE  SwayIInv'
<1>0. /\ SwayTyped /\ StepsFit /\ CompositorsFit /\ SessionsFit /\ SiblingsFit
      /\ (UnitsEnabled => UnitsFit)
  BY DEF SwayIInv
<1>1. op \in Operations /\ op' = [op EXCEPT !.failed = TRUE, !.pc = "done"]
  BY <1>0 DEF SwayTyped, Fails
<1>2. /\ op' \in Operations /\ op'.kind = op.kind /\ op'.s = op.s /\ op'.tree = op.tree
      /\ op'.failed = TRUE /\ op'.pc = "done"
  BY <1>1 DEF Operations, Steps
<1>3. Ordered(row)' /\ RowsFit' /\ RecoveryFits' /\ PlacesFit' /\ ReadyIsHeld'
  BY <1>2, StepKeepsRows
<1>4. SwayTyped' BY <1>0, <1>2 DEF SwayTyped
<1>5. StepsFit' BY <1>0, <1>2 DEF StepsFit
<1>6. CompositorsFit' BY <1>0, <1>2 DEF CompositorsFit
<1>7. SessionsFit' BY <1>0, <1>2 DEF SessionsFit
<1>8. SiblingsFit' BY <1>0, <1>2 DEF Attached, SiblingsFit
<1>9. UnitsEnabled => UnitsFit' BY <1>0, <1>2 DEF UnitsFit, RunsNothing
<1> QED BY <1>3, <1>4, <1>5, <1>6, <1>7, <1>8, <1>9 DEF SwayIInv

\* The compositor is spawned, or no more are (a bound).
LEMMA SpawnSwayKeeps ==
  ASSUME SwayAssumption, SwayIInv, SpawnSway
  PROVE  SwayIInv'
<1>0. /\ SwayTyped /\ StepsFit /\ CompositorsFit /\ SessionsFit /\ SiblingsFit
      /\ (UnitsEnabled => UnitsFit)
  BY DEF SwayIInv
<1>1. /\ op.pc = "spawnSway" /\ op.kind = "start" /\ op.s \in Surfaces /\ mem[op.s] = Nothing
      /\ computer.gen = 0 /\ sway.alive = {} /\ desktops = {} /\ files.state = 0
      /\ sway.last \in 0..MaxComputers /\ MaxComputers \in Nat
      /\ files \in FileStates /\ sway \in SwayStates
  BY <1>0, SwayFacts DEF SpawnSway, StepsFit, SessionsFit, CompositorsFit
<1>2. CASE sway.last < MaxComputers
  <2>1. /\ op' = [op EXCEPT !.pc = "waitSway"]
        /\ sway' = [alive |-> sway.alive \cup {sway.last + 1}, last |-> sway.last + 1]
        /\ files' = [files EXCEPT !.dir = sway.last + 1]
        /\ UNCHANGED <<row, mem, computer, desktops, daemon>>
    BY <1>2 DEF SpawnSway, Goto
  <2>2. /\ op' \in Operations /\ op'.kind = op.kind /\ op'.s = op.s /\ op'.tree = op.tree
        /\ op'.failed = op.failed /\ op'.pc = "waitSway"
    BY <2>1, SwayFacts, OpGoes DEF Steps
  <2>3. sway.last + 1 \in Computers /\ sway.last + 1 \in 0..MaxComputers
    BY <1>1, <1>2 DEF Computers
  <2>4. sway' \in SwayStates /\ sway'.alive = {sway.last + 1} /\ sway'.last = sway.last + 1
    BY <1>1, <2>1, <2>3 DEF SwayStates
  <2>5. /\ files' \in FileStates /\ files'.dir = sway.last + 1 /\ files'.state = 0
        /\ files'.surface = files.surface
    BY <1>1, <2>1, <2>3 DEF FileStates
  <2>6. Ordered(row)' /\ RowsFit' /\ RecoveryFits' /\ PlacesFit' /\ ReadyIsHeld'
    BY <1>1, <2>1, <2>2, StepKeepsRows
  <2>7. SwayTyped' BY <1>0, <2>1, <2>2, <2>4, <2>5 DEF SwayTyped
  <2>8. StepsFit' BY <1>0, <1>1, <2>2 DEF StepsFit
  <2>9. CompositorsFit' BY <1>1, <2>1, <2>2, <2>4, <2>5 DEF CompositorsFit
  <2>10. \A t \in Surfaces : /\ files.surface[t].comp \in Nat /\ files.surface[t].comp <= sway.last
                             /\ mem[t] # Nothing => files.surface[t] = mem[t]
    BY <1>0, SwayFacts DEF SessionsFit, Trees
  <2>11. \A t \in Surfaces : files.surface[t].comp < sway.last + 1 BY <1>1, <2>10
  <2>12. \A t \in Surfaces : mem[t].comp # sway.last + 1
    BY <1>1, <2>10, <2>11, NothingIsNone
  <2>13. \A t \in Surfaces : files'.surface[t].comp <= sway'.last BY <1>1, <2>4, <2>5, <2>10
  <2>14. SessionsFit' BY <1>0, <1>1, <2>1, <2>2, <2>4, <2>5, <2>12, <2>13 DEF SessionsFit
  <2>15. SiblingsFit' BY <1>1, <2>1, <1>0, <2>2, <2>5 DEF Attached, SiblingsFit
  <2>16. UnitsEnabled => UnitsFit' BY <1>0, <1>1, <2>1, <2>2 DEF UnitsFit, RunsNothing
  <2> QED BY <2>6, <2>7, <2>8, <2>9, <2>14, <2>15, <2>16 DEF SwayIInv
<1>3. CASE ~(sway.last < MaxComputers)
  <2>1. Fails /\ UNCHANGED <<row, mem, computer, files, desktops, sway, daemon>>
    BY <1>3 DEF SpawnSway
  <2> QED BY <1>1, <2>1, FailsKeeps
<1> QED BY <1>2, <1>3

\* The compositor is ready and its state is written, or it is stopped and its directory goes.
LEMMA SwayReadyKeeps ==
  ASSUME SwayAssumption, SwayIInv, SwayReady
  PROVE  SwayIInv'
<1>0. /\ SwayTyped /\ StepsFit /\ CompositorsFit /\ SessionsFit /\ SiblingsFit
      /\ (UnitsEnabled => UnitsFit)
  BY DEF SwayIInv
<1>1. /\ op.pc = "waitSway" /\ op.kind = "start" /\ op.s \in Surfaces /\ mem[op.s] = Nothing
      /\ computer.gen = 0 /\ files.dir = sway.last /\ files.state = 0 /\ desktops = {}
      /\ sway.last # 0 /\ sway.last \in 0..MaxComputers /\ sway.alive \subseteq {sway.last}
      /\ files \in FileStates /\ sway \in SwayStates /\ op \in Operations
      /\ \A t \in Surfaces : mem[t].comp # sway.last
      /\ UNCHANGED <<row, mem, desktops, daemon>>
  BY <1>0, SwayFacts DEF SwayReady, StepsFit, SessionsFit, CompositorsFit
<1>2. desktops' = {} /\ \A t \in Surfaces : ~Attached(t)' BY <1>1 DEF Attached
<1>3. CASE /\ sway.last \in sway.alive
           /\ computer' = [gen |-> sway.last, surfaces |-> {}]
           /\ files' = [files EXCEPT !.state = sway.last]
           /\ Goto("allocate") /\ UNCHANGED sway
  <2>1. op' = [op EXCEPT !.pc = "allocate"] BY <1>3 DEF Goto
  <2>2. /\ op' \in Operations /\ op'.kind = op.kind /\ op'.s = op.s /\ op'.tree = op.tree
        /\ op'.failed = op.failed /\ op'.pc = "allocate"
    BY <1>1, <2>1, OpGoes DEF Steps
  <2>3. /\ files' \in FileStates /\ files'.dir = files.dir /\ files'.state = sway.last
        /\ files'.surface = files.surface
    BY <1>1, <1>3 DEF FileStates
  <2>4. computer' \in ComputerStates /\ computer'.gen = sway.last BY <1>1, <1>3 DEF ComputerStates
  <2>5. Ordered(row)' /\ RowsFit' /\ RecoveryFits' /\ PlacesFit' /\ ReadyIsHeld'
    BY <1>1, <2>2, StepKeepsRows
  <2>6. SwayTyped' BY <1>0, <1>1, <1>3, <2>2, <2>3, <2>4 DEF SwayTyped
  <2>7. StepsFit' BY <1>0, <1>1, <2>2 DEF StepsFit
  <2>8. CompositorsFit' BY <1>0, <1>1, <1>2, <1>3, <2>2, <2>3, <2>4 DEF CompositorsFit
  <2>9. SessionsFit' BY <1>0, <1>1, <1>3, <2>2, <2>3, <2>4 DEF SessionsFit
  <2>10. SiblingsFit' BY <1>1, <1>2, <2>2, <2>4 DEF SiblingsFit
  <2>11. UnitsEnabled => UnitsFit' BY <1>1, <1>2, <2>2 DEF UnitsFit, RunsNothing
  <2> QED BY <2>5, <2>6, <2>7, <2>8, <2>9, <2>10, <2>11 DEF SwayIInv
<1>4. CASE /\ sway' = [sway EXCEPT !.alive = @ \ {sway.last}]
           /\ files' = [files EXCEPT !.dir = 0, !.state = 0]
           /\ Fails /\ UNCHANGED computer
  <2>1. op' = [op EXCEPT !.failed = TRUE, !.pc = "done"] BY <1>4 DEF Fails
  <2>2. /\ op' \in Operations /\ op'.kind = op.kind /\ op'.s = op.s /\ op'.tree = op.tree
        /\ op'.failed = TRUE /\ op'.pc = "done"
    BY <1>1, <2>1 DEF Operations, Steps
  <2>3. /\ files' \in FileStates /\ files'.dir = 0 /\ files'.state = 0
        /\ files'.surface = files.surface
    BY <1>1, <1>4, SwayFacts DEF FileStates
  <2>4. sway' \in SwayStates /\ sway'.alive = {} /\ sway'.last = sway.last
    BY <1>1, <1>4 DEF SwayStates
  <2>5. Ordered(row)' /\ RowsFit' /\ RecoveryFits' /\ PlacesFit' /\ ReadyIsHeld'
    BY <1>1, <2>2, StepKeepsRows
  <2>6. SwayTyped' BY <1>0, <1>1, <1>4, <2>2, <2>3, <2>4 DEF SwayTyped
  <2>7. StepsFit' BY <1>0, <1>1, <2>2 DEF StepsFit
  <2>8. CompositorsFit' BY <1>1, <1>2, <1>4, <2>2, <2>3, <2>4 DEF CompositorsFit
  <2>9. SessionsFit' BY <1>0, <1>1, <1>4, <2>2, <2>3, <2>4 DEF SessionsFit
  <2>10. SiblingsFit'
    BY <1>0, NothingIsNone, <1>1, <1>2, <1>4, <2>2, <2>3 DEF SwayTyped, SiblingsFit
  <2>11. UnitsEnabled => UnitsFit' BY <1>1, <1>2, <2>2 DEF UnitsFit, RunsNothing
  <2> QED BY <2>5, <2>6, <2>7, <2>8, <2>9, <2>10, <2>11 DEF SwayIInv
<1> QED BY <1>3, <1>4 DEF SwayReady

-----------------------------------------------------------------------------
\* The lowest of the outputs that are free.
LEMMA LowestIsFree ==
  ASSUME SwayAssumption, Free # {}
  PROVE  Lowest \in Outputs /\ \A s \in Surfaces : mem[s].out # Lowest
<1>1. \E out \in Free : \A other \in Free : out <= other
  <2> DEFINE R == OpToRel(<, Nat)
  <2>1. Free \subseteq Nat BY DEF Free, Outputs
  <2>2. \A x, y \in Nat : <<x, y>> \in R <=> x < y BY DEF OpToRel
  <2>3. IsWellFoundedOn(R, Nat) BY NatLessThanWellFounded
  <2> HIDE DEF R
  <2>4. PICK out \in Free : \A other \in Free : ~(<<other, out>> \in R) BY <2>1, <2>3, WFMin
  <2>5. \A other \in Free : ~(other < out) BY <2>1, <2>2, <2>4
  <2> QED BY <2>1, <2>5
<1>2. Lowest \in Free BY <1>1 DEF Lowest
<1> QED BY <1>2 DEF Free, Claimed

\* The Surface is given an output and its desktop is spawned there, or no output is left.
LEMMA AllocateKeeps ==
  ASSUME SwayAssumption, SwayIInv, Allocate
  PROVE  SwayIInv'
<1>0. /\ SwayTyped /\ StepsFit /\ CompositorsFit /\ SessionsFit /\ SiblingsFit /\ RowsFit
      /\ (UnitsEnabled => UnitsFit)
  BY DEF SwayIInv
<1>1. /\ op.pc = "allocate" /\ op.kind = "start" /\ op.s \in Surfaces /\ mem[op.s] = Nothing
      /\ computer.gen # 0 /\ computer.gen \in Computers /\ computer.gen \in Nat
      /\ files \in FileStates /\ op \in Operations
      /\ UNCHANGED <<row, mem, computer, sway, daemon>>
  BY <1>0, SwayFacts DEF Allocate, StepsFit, SessionsFit, CompositorsFit, Computers
<1>2. row[op.s].gen \in Generations /\ row[op.s].state = "starting"
  BY <1>0, <1>1, SwayFacts DEF RowsFit, Rows, Generations
<1>3. CASE Free = {}
  <2>1. Fails /\ UNCHANGED <<row, mem, computer, files, desktops, sway, daemon>>
    BY <1>1, <1>3 DEF Allocate
  <2> QED BY <1>1, <2>1, FailsKeeps
<1>4. CASE Free # {}
  <2>1. Lowest \in Outputs /\ \A s \in Surfaces : mem[s].out # Lowest BY <1>4, LowestIsFree
  <2>2. PICK t : t = [gen |-> row[op.s].gen, comp |-> computer.gen, out |-> Lowest] OBVIOUS
  <2>3. /\ files' = [files EXCEPT !.surface[op.s] = Nothing]
        /\ desktops' = desktops \cup IF ComputerRunning THEN {Desktop(op.s, t)} ELSE {}
        /\ op' = [op EXCEPT !.pc = "waitDesktop", !.tree = t]
    BY <1>4, <2>2 DEF Allocate
  <2>4. t \in Real /\ t.comp = computer.gen /\ t.out = Lowest
    BY <1>1, <1>2, <2>1, <2>2 DEF Real
  <2>5. /\ op' \in Operations /\ op'.kind = op.kind /\ op'.s = op.s /\ op'.tree = t
        /\ op'.failed = op.failed /\ op'.pc = "waitDesktop"
    <3>1. t \in Trees BY <2>4, NothingIsNone
    <3> HIDE DEF Real
    <3> QED BY <1>1, <2>3, <3>1 DEF Operations, Steps
  <2>6. /\ files' \in FileStates /\ files'.dir = files.dir /\ files'.state = files.state
        /\ files'.surface[op.s] = Nothing
        /\ \A s \in Surfaces \ {op.s} : files'.surface[s] = files.surface[s]
    BY <1>1, <2>3, NothingIsNone DEF FileStates
  <2>7. /\ Desktop(op.s, t) \in [s : Surfaces, gen : Generations, comp : Computers, out : Outputs]
        /\ Desktop(op.s, t).s = op.s /\ Desktop(op.s, t).comp = computer.gen
    BY <1>1, <2>4 DEF Desktop, Real
  <2>8. /\ desktops' \subseteq desktops \cup {Desktop(op.s, t)}
        /\ \A d \in desktops' : d \in desktops \/ computer.gen \in sway.alive
    BY <2>3 DEF ComputerRunning
  <2>9. Ordered(row)' /\ RowsFit' /\ RecoveryFits' /\ PlacesFit' /\ ReadyIsHeld'
    BY <1>1, <2>5, StepKeepsRows
  <2>10. SwayTyped' BY <1>0, <2>7, <2>8, <1>1, <2>5, <2>6 DEF SwayTyped
  <2>11. StepsFit' BY <1>0, <1>1, <2>5 DEF StepsFit
  <2>12. CompositorsFit' BY <1>0, <2>7, <2>8, <1>1, <2>5, <2>6 DEF CompositorsFit
  <2>13. SessionsFit'
    BY <2>6, NothingIsNone, <1>0, SwayFacts, <1>1, <2>1, <2>4, <2>5 DEF SessionsFit
  <2>14. SiblingsFit'
    <3>1. \A s \in Surfaces : Attached(s)' => Attached(s)
      <4> SUFFICES ASSUME NEW s \in Surfaces, Attached(s)' PROVE Attached(s) OBVIOUS
      <4>1. mem[s] # Nothing /\ Desktop(s, mem[s]) \in desktops' BY <1>1 DEF Attached
      <4>2. s # op.s BY <1>1, <4>1
      <4>3. Desktop(s, mem[s]).s = s BY DEF Desktop
      <4> QED BY <2>7, <2>8, <4>1, <4>2, <4>3 DEF Attached
    <3> QED BY <1>0, <1>1, <2>5, <2>6, <3>1 DEF SiblingsFit
  <2>15. UnitsEnabled => UnitsFit'
    <3> SUFFICES ASSUME UnitsEnabled PROVE UnitsFit' OBVIOUS
    <3>1. UnitsFit /\ RunsNothing(op.s) BY <1>0, <1>1 DEF UnitsFit
    <3>0. \A d \in desktops : d.s # op.s BY <3>1 DEF RunsNothing
    <3>2. \A d \in desktops' : d = Desktop(op.s, t) \/ (d \in desktops /\ d.s # op.s)
      BY <2>8, <3>0
    <3>3. \A d, e \in desktops' : d.s = e.s => d = e BY <2>7, <3>1, <3>2 DEF UnitsFit
    <3>4. \A s \in Surfaces : mem'[s] # Nothing
            => \A d \in desktops' : d.s = s => d = Desktop(s, mem'[s])
      BY <1>1, <2>7, <3>1, <3>2 DEF UnitsFit
    <3>5. \A d \in desktops' : d.s = op.s => d = Desktop(op.s, t) BY <3>2
    <3>6. \A s \in Surfaces : row'[s].state = "stopped" => RunsNothing(s)'
      BY <1>1, <1>2, <2>7, <3>1, <3>2 DEF UnitsFit, RunsNothing
    <3> QED BY <1>1, <2>5, <3>3, <3>4, <3>5, <3>6 DEF UnitsFit
  <2> QED BY <2>9, <2>10, <2>11, <2>12, <2>13, <2>14, <2>15 DEF SwayIInv
<1> QED BY <1>3, <1>4

-----------------------------------------------------------------------------
\* A session is installed, with an output nobody has, on the computer that runs it.
LEMMA InstallKeeps ==
  ASSUME SwayAssumption, SwayIInv, NEW t \in Real,
         op.kind \in {"start", "reconcile"}, mem[op.s] = Nothing,
         t.comp = computer.gen, \A s \in Surfaces : mem[s].out # t.out,
         Desktop(op.s, t) \in desktops,
         UnitsEnabled => \A d \in desktops : d.s = op.s => d = Desktop(op.s, t),
         op' \in Operations, op'.kind = op.kind, op'.s = op.s, op'.tree = t,
         op'.failed = op.failed, op'.pc = "done",
         mem' = [mem EXCEPT ![op.s] = t],
         computer' = [computer EXCEPT !.surfaces = @ \cup {op.s}],
         files' \in FileStates, files'.dir = files.dir, files'.state = files.state,
         files'.surface[op.s] = t,
         \A s \in Surfaces \ {op.s} : files'.surface[s] = files.surface[s],
         UNCHANGED <<row, desktops, sway, daemon>>
  PROVE  SwayIInv'
<1>0. /\ SwayTyped /\ StepsFit /\ CompositorsFit /\ SessionsFit /\ SiblingsFit
      /\ (UnitsEnabled => UnitsFit) /\ op.s \in Surfaces
  BY SwayFacts DEF SwayIInv
<1>1. /\ computer \in ComputerStates /\ t # Nothing /\ t.comp # 0 /\ t.out # 0
  BY <1>0, SwayFacts, NothingIsNone
<1>2. mem'[op.s] = t /\ \A s \in Surfaces \ {op.s} : mem'[s] = mem[s]
  BY <1>0 DEF SwayTyped
<1>3. /\ computer' \in ComputerStates /\ computer'.gen = computer.gen
      /\ computer'.surfaces = computer.surfaces \cup {op.s}
  BY <1>0, <1>1 DEF ComputerStates
<1>4. Ordered(row)' /\ RowsFit' /\ RecoveryFits' /\ PlacesFit' /\ ReadyIsHeld'
  BY <1>2, StepKeepsRows
<1>5. SwayTyped'
  <2>1. mem' \in [Surfaces -> Real \cup {Nothing}]
    <3> HIDE DEF Real
    <3> QED BY <1>0 DEF SwayTyped
  <2> QED BY <1>0, <1>3, <2>1 DEF SwayTyped
<1>6. StepsFit' BY <1>0 DEF StepsFit
<1>7. CompositorsFit' BY <1>0, <1>3 DEF CompositorsFit
<1>8. SessionsFit'
  <2>1. t.comp <= sway.last BY <1>0, <1>1 DEF Desktop, CompositorsFit
  <2>2. \A s \in Surfaces : files'.surface[s].comp <= sway'.last
    BY <1>0, <2>1 DEF SessionsFit
  <2>3. \A s \in Surfaces : mem'[s] # Nothing => files'.surface[s] = mem'[s]
    BY <1>0, <1>2 DEF SessionsFit
  <2>4. \A s, u \in Surfaces : s # u /\ mem'[s] # Nothing => mem'[s].out # mem'[u].out
    <3> SUFFICES ASSUME NEW s \in Surfaces, NEW u \in Surfaces, s # u, mem'[s] # Nothing
                 PROVE  mem'[s].out # mem'[u].out
      OBVIOUS
    <3>1. CASE s = op.s BY <1>2, <3>1
    <3>2. CASE u = op.s BY <1>2, <3>2
    <3>3. CASE s # op.s /\ u # op.s BY <1>0, <1>2, <3>3 DEF SessionsFit
    <3> QED BY <3>1, <3>2, <3>3
  <2> QED BY <1>1, <1>2, <2>2, <2>3, <2>4 DEF SessionsFit
<1>9. SiblingsFit'
  <2>1. \A s \in Surfaces \ {op.s} : Attached(s)' = Attached(s) BY <1>2 DEF Attached
  <2>2. \A s \in Surfaces : Attached(s)' => mem'[s].comp = computer'.gen
    BY <1>0, <1>2, <1>3, <2>1 DEF SiblingsFit
  <2>3. \A s \in Surfaces : mem'[s] # Nothing /\ mem'[s].comp = computer'.gen
                              => s \in computer'.surfaces
    BY <1>0, <1>2, <1>3 DEF SiblingsFit
  <2> QED BY <1>1, <1>3, <2>2, <2>3 DEF SiblingsFit
<1>10. UnitsEnabled => UnitsFit'
  <2> SUFFICES ASSUME UnitsEnabled PROVE UnitsFit' OBVIOUS
  <2>1. \A s \in Surfaces : mem'[s] # Nothing
          => \A d \in desktops : d.s = s => d = Desktop(s, mem'[s])
    BY <1>0, <1>2 DEF UnitsFit
  <2> QED BY <1>0, <2>1 DEF UnitsFit, RunsNothing
<1> QED BY <1>4, <1>5, <1>6, <1>7, <1>8, <1>9, <1>10 DEF SwayIInv

\* A desktop was waited for.
LEMMA DesktopReadyKeeps ==
  ASSUME SwayAssumption, SwayIInv, DesktopReady
  PROVE  SwayIInv'
<1>0. /\ SwayTyped /\ StepsFit /\ CompositorsFit /\ SessionsFit /\ SiblingsFit
      /\ (UnitsEnabled => UnitsFit)
  BY DEF SwayIInv
<1>1. /\ op.pc = "waitDesktop" /\ op.kind = "start" /\ op.s \in Surfaces /\ mem[op.s] = Nothing
      /\ op.tree \in Real /\ op.tree.comp = computer.gen /\ computer.gen # 0
      /\ \A s \in Surfaces : mem[s].out # op.tree.out
      /\ files \in FileStates /\ op \in Operations /\ op.tree \in Trees
      /\ UNCHANGED <<row, sway, daemon>>
  BY <1>0, SwayFacts, NothingIsNone DEF DesktopReady, StepsFit, SessionsFit, CompositorsFit
<1>2. UnitsEnabled => \A d \in desktops : d.s = op.s => d = Desktop(op.s, op.tree)
  BY <1>0, <1>1 DEF UnitsFit
<1>3. CASE /\ Desktop(op.s, op.tree) \in desktops
           /\ mem' = [mem EXCEPT ![op.s] = op.tree]
           /\ computer' = [computer EXCEPT !.surfaces = @ \cup {op.s}]
           /\ files' = [files EXCEPT !.surface[op.s] = op.tree]
           /\ Goto("done") /\ UNCHANGED desktops
  <2>1. op' = [op EXCEPT !.pc = "done"] BY <1>3 DEF Goto
  <2>2. /\ op' \in Operations /\ op'.kind = op.kind /\ op'.s = op.s /\ op'.tree = op.tree
        /\ op'.failed = op.failed /\ op'.pc = "done"
    BY <1>1, <2>1, OpGoes DEF Steps
  <2>3. /\ files' \in FileStates /\ files'.dir = files.dir /\ files'.state = files.state
        /\ files'.surface[op.s] = op.tree
        /\ \A s \in Surfaces \ {op.s} : files'.surface[s] = files.surface[s]
    BY <1>1, <1>3 DEF FileStates
  <2> QED BY <1>1, <1>2, <1>3, <2>2, <2>3, InstallKeeps
<1>4. CASE /\ desktops' = desktops \ {Desktop(op.s, op.tree)}
           /\ files' = [files EXCEPT !.surface[op.s] = Nothing]
           /\ op' = [op EXCEPT !.failed = TRUE,
                               !.pc = IF computer.surfaces = {} THEN "stopComputer" ELSE "done"]
           /\ UNCHANGED <<mem, computer>>
  <2>1. PICK p \in {"stopComputer", "done"} : /\ op' = [op EXCEPT !.failed = TRUE, !.pc = p]
                                              /\ p = "stopComputer" => computer.surfaces = {}
    BY <1>4
  <2>2. /\ op' \in Operations /\ op'.kind = op.kind /\ op'.s = op.s /\ op'.tree = op.tree
        /\ op'.failed = TRUE /\ op'.pc = p
    BY <1>1, <2>1 DEF Operations, Steps
  <2>3. /\ files' \in FileStates /\ files'.dir = files.dir /\ files'.state = files.state
        /\ files'.surface[op.s] = Nothing
        /\ \A s \in Surfaces \ {op.s} : files'.surface[s] = files.surface[s]
    BY <1>1, <1>4, NothingIsNone DEF FileStates
  <2>4. desktops' \subseteq desktops BY <1>4
  <2>5. Ordered(row)' /\ RowsFit' /\ RecoveryFits' /\ PlacesFit' /\ ReadyIsHeld'
    BY <1>1, <1>4, <2>2, StepKeepsRows
  <2>6. SwayTyped' BY <1>0, <1>1, <1>4, <2>2, <2>3, <2>4 DEF SwayTyped
  <2>7. StepsFit' BY <1>0, <1>1, <2>1, <2>2 DEF StepsFit
  <2>8. CompositorsFit' BY <1>0, <1>1, <1>4, <2>1, <2>2, <2>3, <2>4 DEF CompositorsFit
  <2>9. SessionsFit' BY <2>3, NothingIsNone, <1>0, SwayFacts, <1>1, <1>4, <2>1, <2>2 DEF SessionsFit
  <2>10. SiblingsFit'
    <3>1. \A s \in Surfaces : Attached(s)' => Attached(s) BY <1>4, <2>4 DEF Attached
    <3>2. p = "stopComputer" => \A s \in Surfaces : ~Attached(s)
      <4> SUFFICES ASSUME p = "stopComputer", NEW s \in Surfaces, Attached(s) PROVE FALSE OBVIOUS
      <4>1. s \in computer.surfaces BY <1>0 DEF SiblingsFit, Attached
      <4> QED BY <2>1, <4>1
    <3> QED BY <1>0, <1>1, <1>4, <2>1, <2>2, <2>3, <3>1, <3>2 DEF SiblingsFit
  <2>11. UnitsEnabled => UnitsFit'
    <3> SUFFICES ASSUME UnitsEnabled PROVE UnitsFit' OBVIOUS
    <3>1. \A s \in Surfaces : RunsNothing(s) => RunsNothing(s)' BY <2>4 DEF RunsNothing
    <3> QED BY <1>0, <1>1, <1>4, <2>1, <2>2, <2>4, <3>1 DEF UnitsFit
  <2> QED BY <2>5, <2>6, <2>7, <2>8, <2>9, <2>10, <2>11 DEF SwayIInv
<1> QED BY <1>3, <1>4 DEF DesktopReady

\* What the state file of a Surface says is trusted, or the Surface is left without a session.
LEMMA ReattachSurfaceKeeps ==
  ASSUME SwayAssumption, SwayIInv, ReattachSurface
  PROVE  SwayIInv'
<1>0. /\ SwayTyped /\ StepsFit /\ CompositorsFit /\ SessionsFit /\ SiblingsFit
      /\ (UnitsEnabled => UnitsFit)
  BY DEF SwayIInv
<1>1. /\ op.pc = "capture" /\ op.kind = "reconcile" /\ op.s \in Surfaces /\ mem[op.s] = Nothing
      /\ computer.gen # 0 /\ files \in FileStates /\ op \in Operations
      /\ UNCHANGED <<row, files, desktops, sway, daemon>>
  BY <1>0, SwayFacts DEF ReattachSurface, StepsFit, SessionsFit, CompositorsFit
<1>2. PICK t : t = files.surface[op.s] OBVIOUS
<1>3. t \in Trees BY <1>1, <1>2, SwayFacts
<1>4. CASE /\ Trusted(op.s) /\ mem' = [mem EXCEPT ![op.s] = t]
           /\ computer' = [computer EXCEPT !.surfaces = @ \cup {op.s}]
           /\ op' = [op EXCEPT !.pc = "done", !.tree = t]
  <2>1. /\ t.comp = computer.gen /\ Desktop(op.s, t) \in desktops
        /\ \A s \in Surfaces : mem[s].out # t.out
    BY <1>2, <1>4 DEF Trusted, Claimed
  <2>2. t \in Real BY <1>0, <2>1, <1>3 DEF SwayTyped, Desktop, Trees, Real
  <2>3. /\ op' \in Operations /\ op'.kind = op.kind /\ op'.s = op.s /\ op'.tree = t
        /\ op'.failed = op.failed /\ op'.pc = "done"
    BY <1>1, <1>3, <1>4 DEF Operations, Steps
  <2>4. UnitsEnabled => \A d \in desktops : d.s = op.s => d = Desktop(op.s, t)
    BY <1>0, <2>1 DEF Desktop, UnitsFit
  <2>5. /\ files' \in FileStates /\ files'.dir = files.dir /\ files'.state = files.state
        /\ files'.surface = files.surface /\ files'.surface[op.s] = t
    BY <1>1, <1>2
  <2> QED BY <1>1, <1>4, <2>1, <2>2, <2>3, <2>4, <2>5, InstallKeeps
<1>5. CASE \/ Goto("discard") /\ UNCHANGED <<mem, computer>>
           \/ op' = [op EXCEPT !.pc = "done", !.tree = Nothing] /\ UNCHANGED <<mem, computer>>
  <2>1. /\ op' \in Operations /\ op'.kind = op.kind /\ op'.s = op.s
        /\ op'.failed = op.failed
        /\ op'.pc = "discard" \/ (op'.pc = "done" /\ op'.tree = Nothing)
    <3>1. CASE Goto("discard") BY <1>1, <3>1, OpGoes DEF Goto, Steps
    <3>2. CASE op' = [op EXCEPT !.pc = "done", !.tree = Nothing]
      BY <1>1, <3>2, NothingIsNone DEF Operations, Steps
    <3> QED BY <1>5, <3>1, <3>2
  <2>2. UNCHANGED <<row, mem, computer, files, desktops, sway, daemon>> BY <1>1, <1>5
  <2>3. Ordered(row)' /\ RowsFit' /\ RecoveryFits' /\ PlacesFit' /\ ReadyIsHeld'
    BY <1>1, <2>1, <2>2, StepKeepsRows
  <2>4. SwayTyped' BY <1>0, <2>1, <2>2 DEF SwayTyped
  <2>5. StepsFit' BY <1>0, <1>1, <2>1 DEF StepsFit
  <2>6. CompositorsFit' BY <1>0, <2>1, <2>2 DEF CompositorsFit
  <2>7. SessionsFit' BY <1>0, <1>1, <2>1, <2>2 DEF SessionsFit
  <2>8. SiblingsFit' BY <2>2, <1>0, <1>1, <2>1 DEF Attached, SiblingsFit
  <2>9. UnitsEnabled => UnitsFit' BY <1>0, <1>1, <2>1, <2>2 DEF UnitsFit, RunsNothing
  <2> QED BY <2>3, <2>4, <2>5, <2>6, <2>7, <2>8, <2>9 DEF SwayIInv
<1> QED BY <1>2, <1>4, <1>5 DEF ReattachSurface

-----------------------------------------------------------------------------
\* What is found of a Surface that cannot be shown again ends.
LEMMA DiscardSurfaceKeeps ==
  ASSUME SwayAssumption, SwayIInv, DiscardSurface
  PROVE  SwayIInv'
<1>0. /\ SwayTyped /\ StepsFit /\ CompositorsFit /\ SessionsFit /\ SiblingsFit
      /\ (UnitsEnabled => UnitsFit)
  BY DEF SwayIInv
<1>1. /\ op.pc = "discard" /\ op.kind = "reconcile" /\ op.s \in Surfaces /\ mem[op.s] = Nothing
      /\ files \in FileStates /\ op \in Operations /\ desktops' \subseteq desktops
      /\ files' = [files EXCEPT !.surface[op.s] = Nothing]
      /\ op' = [op EXCEPT !.pc = "done", !.tree = Nothing]
      /\ UNCHANGED <<row, mem, computer, sway, daemon>>
  BY <1>0, SwayFacts DEF DiscardSurface, StepsFit, SessionsFit
<1>2. /\ op' \in Operations /\ op'.kind = op.kind /\ op'.s = op.s /\ op'.tree = Nothing
      /\ op'.failed = op.failed /\ op'.pc = "done"
  BY <1>1, NothingIsNone DEF Operations, Steps
<1>3. /\ files' \in FileStates /\ files'.dir = files.dir /\ files'.state = files.state
      /\ files'.surface[op.s] = Nothing
      /\ \A s \in Surfaces \ {op.s} : files'.surface[s] = files.surface[s]
  BY <1>1, NothingIsNone DEF FileStates
<1>4. Ordered(row)' /\ RowsFit' /\ RecoveryFits' /\ PlacesFit' /\ ReadyIsHeld'
  BY <1>1, <1>2, StepKeepsRows
<1>5. SwayTyped' BY <1>0, <1>1, <1>2, <1>3 DEF SwayTyped
<1>6. StepsFit' BY <1>0, <1>1, <1>2 DEF StepsFit
<1>7. CompositorsFit' BY <1>0, <1>1, <1>2, <1>3 DEF CompositorsFit
<1>8. SessionsFit' BY <1>3, NothingIsNone, <1>0, SwayFacts, <1>1, <1>2 DEF SessionsFit
<1>9. SiblingsFit' BY <1>1, <1>0, <1>2, <1>3 DEF Attached, SiblingsFit
<1>10. UnitsEnabled => UnitsFit'
  <2> SUFFICES ASSUME UnitsEnabled PROVE UnitsFit' OBVIOUS
  <2>1. \A s \in Surfaces : RunsNothing(s) => RunsNothing(s)' BY <1>1 DEF RunsNothing
  <2> QED BY <1>0, <1>1, <1>2, <2>1 DEF UnitsFit
<1> QED BY <1>4, <1>5, <1>6, <1>7, <1>8, <1>9, <1>10 DEF SwayIInv

\* Processes end by themselves: less runs, and nobody knows yet.
LEMMA ProcessesEnd ==
  ASSUME SwayAssumption, SwayIInv, desktops' \subseteq desktops,
         sway' \in SwayStates, sway'.last = sway.last, sway'.alive \subseteq sway.alive,
         \A d \in desktops' : d.comp \in sway'.alive,
         UNCHANGED <<row, mem, computer, files, op, daemon>>
  PROVE  SwayIInv'
<1>0. /\ SwayTyped /\ StepsFit /\ CompositorsFit /\ SessionsFit /\ SiblingsFit
      /\ Ordered(row) /\ RowsFit /\ RecoveryFits /\ PlacesFit /\ ReadyIsHeld
      /\ (UnitsEnabled => UnitsFit)
  BY DEF SwayIInv
<1>1. SwayTyped' BY <1>0 DEF SwayTyped
<1>2. StepsFit' BY <1>0 DEF StepsFit
<1>3. CompositorsFit' BY <1>0 DEF CompositorsFit
<1>4. SessionsFit' BY <1>0 DEF SessionsFit
<1>5. SiblingsFit' BY <1>0 DEF Attached, SiblingsFit
<1>6. Ordered(row)' BY <1>0 DEF Ordered
<1>7. \A s \in Surfaces : /\ Unreconciled(s)' = Unreconciled(s) /\ Reconciling(s)' = Reconciling(s)
                          /\ BeingStopped(s)' = BeingStopped(s) /\ OpOf(s)' = OpOf(s)
  BY DEF Unreconciled, Reconciling, BeingStopped, OpOf
<1>8. RowsFit' BY <1>0, <1>7 DEF RowsFit
<1>9. RecoveryFits' BY <1>0, <1>7 DEF RecoveryFits
<1>10. \A s \in Surfaces : HoldsPlace(s)' => HoldsPlace(s) BY <1>7 DEF HoldsPlace
<1>11. PlacesFit' BY <1>0, <1>10, PlacesShrink
<1>12. ReadyIsHeld' BY <1>0, <1>7 DEF ReadyIsHeld
<1>13. UnitsEnabled => UnitsFit' BY <1>0 DEF RunsNothing, UnitsFit
<1> QED BY <1>1, <1>2, <1>3, <1>4, <1>5, <1>6, <1>8, <1>9, <1>11, <1>12, <1>13 DEF SwayIInv

\* A desktop ends.
LEMMA DesktopExitsKeeps ==
  ASSUME SwayAssumption, SwayIInv, DesktopExits
  PROVE  SwayIInv'
<1>1. /\ desktops' \subseteq desktops
      /\ UNCHANGED <<row, mem, computer, files, sway, op, daemon>>
  BY DEF DesktopExits
<1>2. \A d \in desktops' : d.comp \in sway'.alive BY <1>1 DEF SwayIInv, CompositorsFit
<1>3. sway' \in SwayStates BY <1>1, SwayFacts
<1> QED BY <1>1, <1>2, <1>3, ProcessesEnd

\* A compositor ends.
LEMMA CompositorExitsKeeps ==
  ASSUME SwayAssumption, SwayIInv, NEW c \in Computers, CompositorExits(c)
  PROVE  SwayIInv'
<1>1. /\ sway' = [sway EXCEPT !.alive = @ \ {c}]
      /\ desktops' = {d \in desktops : d.comp # c}
      /\ UNCHANGED <<row, mem, computer, files, op, daemon>>
  BY DEF CompositorExits
<1>2. sway' \in SwayStates /\ sway'.last = sway.last /\ sway'.alive = sway.alive \ {c}
  BY <1>1, SwayFacts DEF SwayStates
<1>3. \A d \in desktops' : d.comp \in sway'.alive
  BY <1>1, <1>2 DEF SwayIInv, CompositorsFit
<1> QED BY <1>1, <1>2, <1>3, ProcessesEnd

\* The recovery ends.
LEMMA RecoveredKeeps ==
  ASSUME SwayAssumption, SwayIInv, Recovered
  PROVE  SwayIInv'
<1>0. /\ SwayTyped /\ StepsFit /\ CompositorsFit /\ SessionsFit /\ SiblingsFit
      /\ Ordered(row) /\ RowsFit /\ RecoveryFits /\ PlacesFit /\ ReadyIsHeld
      /\ (UnitsEnabled => UnitsFit)
  BY DEF SwayIInv
<1>1. /\ daemon.state = "recovering" /\ op.kind = "none" /\ daemon.todo = <<>>
      /\ daemon' = [daemon EXCEPT !.state = "up"]
      /\ UNCHANGED <<row, mem, computer, files, desktops, sway, op>>
  BY DEF Recovered, NoOp
<1>2. /\ daemon' \in [state : {"up", "recovering", "down"}, todo : Seq(Surfaces),
                      restarts : 0..MaxRestarts]
      /\ daemon'.state = "up" /\ daemon'.todo = <<>> /\ daemon'.restarts = daemon.restarts
  BY <1>0, <1>1 DEF SwayTyped
<1>3. \A s \in Surfaces : /\ Unreconciled(s)' = Unreconciled(s) /\ Reconciling(s)' = Reconciling(s)
                          /\ BeingStopped(s)' = BeingStopped(s) /\ OpOf(s)' = OpOf(s)
  BY <1>1, <1>2 DEF Unreconciled, Reconciling, BeingStopped, OpOf
<1>4. SwayTyped' BY <1>0, <1>1, <1>2 DEF SwayTyped
<1>5. Ordered(row)' BY <1>0, <1>1 DEF Ordered
<1>6. RowsFit' BY <1>0, <1>1, <1>2, <1>3 DEF RowsFit
<1>7. RecoveryFits' BY <1>0, <1>1, <1>2, <1>3 DEF RecoveryFits
<1>8. \A s \in Surfaces : HoldsPlace(s)' => HoldsPlace(s)
  BY <1>1, <1>3 DEF HoldsPlace, BeingStopped
<1>9. PlacesFit' BY <1>0, <1>8, PlacesShrink
<1>10. ReadyIsHeld' BY <1>0, <1>1, <1>2, <1>3 DEF ReadyIsHeld
<1>11. UnitsEnabled => UnitsFit' BY <1>0, <1>1 DEF UnitsFit, RunsNothing
<1> QED BY <1>1, <1>4, <1>5, <1>6, <1>7, <1>9, <1>10, <1>11, MachineStays DEF SwayIInv

\* The daemon ends: nothing is remembered.
LEMMA DaemonEndsKeeps ==
  ASSUME SwayAssumption, SwayIInv, DaemonEnds
  PROVE  SwayIInv'
<1>0. /\ SwayTyped /\ StepsFit /\ CompositorsFit /\ SessionsFit /\ SiblingsFit
      /\ Ordered(row) /\ RowsFit /\ RecoveryFits /\ PlacesFit /\ ReadyIsHeld
      /\ (UnitsEnabled => UnitsFit)
  BY DEF SwayIInv
<1>1. /\ daemon.restarts < MaxRestarts
      /\ daemon' = [state |-> "down", todo |-> <<>>, restarts |-> daemon.restarts + 1]
      /\ mem' = [s \in Surfaces |-> Nothing]
      /\ computer' = [gen |-> 0, surfaces |-> {}]
      /\ op' = NoOp
      /\ UNCHANGED <<row, files, desktops, sway>>
  BY DEF DaemonEnds
<1>2. daemon.restarts \in Nat /\ MaxRestarts \in Nat /\ MaxGeneration \in Nat
  BY <1>0 DEF SwayTyped, SwayAssumption
<1>3. /\ daemon' \in [state : {"up", "recovering", "down"}, todo : Seq(Surfaces),
                      restarts : 0..MaxRestarts]
      /\ daemon'.state = "down" /\ daemon'.todo = <<>> /\ daemon'.restarts = daemon.restarts + 1
  BY <1>1, <1>2
<1>4. /\ op' \in Operations /\ op'.kind = "none" /\ op'.pc = "idle" /\ op'.failed = FALSE
      /\ op' = NoOp
  BY <1>1, NothingIsNone DEF SwayAssumption, AnySurface, Operations, NoOp, Kinds, Steps
<1>5. computer' \in ComputerStates /\ computer'.gen = 0 BY <1>1, SwayFacts DEF ComputerStates
<1>6. \A s \in Surfaces : mem'[s] = Nothing /\ ~Attached(s)' BY <1>1 DEF Attached
<1>7. \A s \in Surfaces : ~Unreconciled(s)' /\ ~Reconciling(s)' /\ ~BeingStopped(s)' /\ ~OpOf(s)'
  BY <1>3, <1>4 DEF Unreconciled, Reconciling, BeingStopped, OpOf
<1>8. SwayTyped' BY <1>0, <1>1, <1>3, <1>4, <1>5 DEF SwayTyped
<1>9. StepsFit' BY <1>4 DEF StepsFit, NoOp
<1>10. CompositorsFit' BY <1>0, <1>1, <1>4, <1>5 DEF CompositorsFit
<1>11. SessionsFit' BY <1>0, <1>1, <1>4, <1>6 DEF SessionsFit
<1>12. SiblingsFit' BY <1>1, <1>4, <1>5, <1>6, NothingIsNone DEF SiblingsFit
<1>13. Ordered(row)' BY <1>0, <1>1 DEF Ordered
<1>14. RowsFit' BY <1>0, <1>2, <1>3, <1>1, <1>4 DEF RowsFit, SwayTyped, Rows
<1>15. RecoveryFits' BY <1>3, <1>4, <1>5, <1>6, <1>7 DEF RecoveryFits
<1>16. \A s \in Surfaces : HoldsPlace(s)' => HoldsPlace(s) BY <1>1, <1>6, <1>7 DEF HoldsPlace
<1>17. PlacesFit' BY <1>0, <1>16, PlacesShrink
<1>18. ReadyIsHeld' BY <1>3 DEF ReadyIsHeld
<1>19. UnitsEnabled => UnitsFit'
  BY <1>0, <1>1, <1>4, <1>6 DEF UnitsFit, RunsNothing
<1> QED BY <1>8, <1>9, <1>10, <1>11, <1>12, <1>13, <1>14, <1>15, <1>17, <1>18, <1>19
        DEF SwayIInv

-----------------------------------------------------------------------------
\* An operation begins: nothing has changed for the adapter.
LEMMA OperationBegins ==
  ASSUME SwayAssumption, SwayIInv, op.kind = "none", NEW s \in Surfaces, NEW kind, NEW p,
         Begin(kind, s, p),
         \/ p = "stopCurrent" /\ kind \in {"start", "stop", "cleanup"} /\ mem[s] # Nothing
         \/ p = "stopUnits" /\ kind = "start" /\ mem[s] = Nothing
         \/ p = "kill" /\ kind = "destroy" /\ mem[s] = Nothing
         \/ p = "reattach" /\ kind = "reconcile" /\ mem[s] = Nothing,
         UNCHANGED <<mem, computer, files, desktops, sway>>,
         \A t \in Surfaces : row'[t].state = "stopped" => row[t].state = "stopped"
  PROVE  /\ op' \in Operations /\ op'.kind = kind /\ op'.s = s /\ op'.pc = p
         /\ StepsFit' /\ CompositorsFit' /\ SessionsFit' /\ SiblingsFit'
         /\ UnitsEnabled => UnitsFit'
<1>0. /\ SwayTyped /\ StepsFit /\ CompositorsFit /\ SessionsFit /\ SiblingsFit
      /\ (UnitsEnabled => UnitsFit)
  BY DEF SwayIInv
<1>1. op.pc = "idle"
  BY <1>0 DEF StepsFit, NoOp
<1>2. mem[s] \in Real \cup {Nothing} /\ mem[s] \in Trees
  BY <1>0, NothingIsNone DEF SwayTyped
<1>3. op' = [kind |-> kind, s |-> s, pc |-> p, tree |-> mem[s], failed |-> FALSE]
  BY DEF Begin
<1>4. kind \in Kinds \ {"none"} /\ p \in Steps \ {"idle"} BY DEF Kinds, Steps
<1>5. /\ op' \in Operations /\ op'.kind = kind /\ op'.s = s /\ op'.pc = p /\ op'.tree = mem[s]
      /\ op'.failed = FALSE
  BY <1>2, <1>3, <1>4 DEF Operations
<1>6. StepsFit' BY <1>4, <1>5 DEF StepsFit
<1>7. CompositorsFit' BY <1>0, <1>1, <1>5 DEF CompositorsFit
<1>8. SessionsFit' BY <1>0, <1>5 DEF SessionsFit
<1>9. SiblingsFit' BY <1>0, <1>1, <1>5 DEF Attached, SiblingsFit
<1>10. UnitsEnabled => UnitsFit' BY <1>0, <1>5 DEF UnitsFit, RunsNothing
<1> QED BY <1>5, <1>6, <1>7, <1>8, <1>9, <1>10

\* A start begins.
LEMMA StartBeginsKeeps ==
  ASSUME SwayAssumption, SwayIInv, NEW s \in Surfaces, StartBegins(s)
  PROVE  SwayIInv'
<1>0. /\ SwayTyped /\ Ordered(row) /\ RowsFit /\ RecoveryFits /\ PlacesFit /\ ReadyIsHeld
  BY DEF SwayIInv
<1>1. /\ daemon.state = "up" /\ op.kind = "none" /\ row[s].state = "starting"
      /\ Begin("start", s, IF mem[s] # Nothing THEN "stopCurrent" ELSE "stopUnits")
      /\ UNCHANGED <<row, mem, computer, files, desktops, sway, daemon>>
  BY DEF StartBegins, Idle, NoOp
<1>2. PICK p : /\ Begin("start", s, p)
               /\ \/ p = "stopCurrent" /\ mem[s] # Nothing
                  \/ p = "stopUnits" /\ mem[s] = Nothing
  BY <1>1
<1>3. /\ op' \in Operations /\ op'.kind = "start" /\ op'.s = s /\ op'.pc = p
      /\ StepsFit' /\ CompositorsFit' /\ SessionsFit' /\ SiblingsFit'
      /\ UnitsEnabled => UnitsFit'
  BY <1>1, <1>2, OperationBegins
<1>4. SwayTyped' BY <1>0, <1>1, <1>3 DEF SwayTyped
<1>5. Ordered(row)' BY <1>0, <1>1 DEF Ordered
<1>6. daemon.todo = <<>> BY <1>0, <1>1 DEF RecoveryFits
<1>7. \A t \in Surfaces : /\ ~Unreconciled(t) /\ ~Reconciling(t) /\ ~BeingStopped(t) /\ ~OpOf(t)
                          /\ ~Unreconciled(t)' /\ ~Reconciling(t)' /\ ~BeingStopped(t)'
  BY <1>1, <1>3, <1>6 DEF Unreconciled, Reconciling, BeingStopped, OpOf
<1>8. RowsFit' BY <1>0, <1>1, <1>3, <1>7 DEF RowsFit
<1>9. RecoveryFits' BY <1>0, <1>1, <1>3, <1>7 DEF RecoveryFits
<1>10. \A t \in Surfaces : HoldsPlace(t)' => HoldsPlace(t) BY <1>1, <1>7 DEF HoldsPlace
<1>11. PlacesFit' BY <1>0, <1>10, PlacesShrink
<1>12. ReadyIsHeld' BY <1>0, <1>1, <1>7 DEF ReadyIsHeld
<1> QED BY <1>3, <1>4, <1>5, <1>8, <1>9, <1>11, <1>12 DEF SwayIInv

\* A stop begins, of a failed runtime or of one that the manager stops.
LEMMA StopBeginsKeeps ==
  ASSUME SwayAssumption, SwayIInv, NEW s \in Surfaces, StopBegins(s)
  PROVE  SwayIInv'
<1>0. /\ SwayTyped /\ Ordered(row) /\ RowsFit /\ RecoveryFits /\ PlacesFit /\ ReadyIsHeld
  BY DEF SwayIInv
<1>1. /\ op.kind = "none" /\ mem[s] # Nothing /\ daemon.state \in {"up", "recovering"}
      /\ UNCHANGED <<row, mem, computer, files, desktops, sway, daemon>>
  BY DEF StopBegins, NoOp
<1>2. PICK kind : /\ Begin(kind, s, "stopCurrent")
                  /\ \/ kind = "cleanup" /\ row[s].state = "failed"
                     \/ kind = "stop"
  BY DEF StopBegins
<1>3. /\ op' \in Operations /\ op'.kind = kind /\ op'.s = s /\ op'.pc = "stopCurrent"
      /\ StepsFit' /\ CompositorsFit' /\ SessionsFit' /\ SiblingsFit'
      /\ UnitsEnabled => UnitsFit'
  BY <1>1, <1>2, OperationBegins
<1>4. SwayTyped' BY <1>0, <1>1, <1>3 DEF SwayTyped
<1>5. Ordered(row)' BY <1>0, <1>1 DEF Ordered
<1>6. \A t \in Surfaces : /\ ~Reconciling(t) /\ ~BeingStopped(t) /\ ~OpOf(t)
                          /\ Unreconciled(t)' = Unreconciled(t) /\ ~Reconciling(t)'
                          /\ BeingStopped(t)' => t = s
                          /\ OpOf(t)' => t = s
  BY <1>1, <1>2, <1>3 DEF Unreconciled, Reconciling, BeingStopped, OpOf
<1>7. RowsFit' BY <1>0, <1>1, <1>2, <1>3, <1>6 DEF RowsFit
<1>8. RecoveryFits' BY <1>0, <1>1, <1>2, <1>3, <1>6 DEF RecoveryFits
<1>9. \A t \in Surfaces : HoldsPlace(t)' => HoldsPlace(t) BY <1>1, <1>6 DEF HoldsPlace
<1>10. PlacesFit' BY <1>0, <1>9, PlacesShrink
<1>11. ReadyIsHeld' BY <1>0, <1>1, <1>6 DEF ReadyIsHeld
<1> QED BY <1>3, <1>4, <1>5, <1>7, <1>8, <1>10, <1>11 DEF SwayIInv

\* A deletion begins.
LEMMA DestroyBeginsKeeps ==
  ASSUME SwayAssumption, SwayIInv, NEW s \in Surfaces, DestroyBegins(s)
  PROVE  SwayIInv'
<1>0. /\ SwayTyped /\ Ordered(row) /\ RowsFit /\ RecoveryFits /\ PlacesFit /\ ReadyIsHeld
      /\ row \in Rows
  BY DEF SwayIInv, SwayTyped
<1>1. /\ daemon.state = "up" /\ op.kind = "none" /\ mem[s] = Nothing
      /\ row' = Transition(row, s, "deleting") /\ Begin("destroy", s, "kill")
      /\ UNCHANGED <<mem, computer, files, desktops, sway, daemon>>
  BY DEF DestroyBegins, Idle, NoOp
<1>2. "deleting" \in States BY DEF States
<1>3. /\ row' \in Rows /\ Ordered(row')
      /\ row'[s].state = "deleting" /\ row'[s].gen = row[s].gen /\ row'[s].at # 0
      /\ \A t \in Surfaces \ {s} :
           /\ row'[t].state = row[t].state /\ row'[t].gen = row[t].gen
           /\ row'[t].at # 0 <=> row[t].at # 0
  BY <1>0, <1>1, <1>2, TransitionIs
<1>4. /\ op' \in Operations /\ op'.kind = "destroy" /\ op'.s = s /\ op'.pc = "kill"
      /\ StepsFit' /\ CompositorsFit' /\ SessionsFit' /\ SiblingsFit'
      /\ UnitsEnabled => UnitsFit'
  BY <1>1, <1>3, OperationBegins
<1>5. SwayTyped' BY <1>0, <1>1, <1>3, <1>4 DEF SwayTyped
<1>6. Ordered(row)' BY <1>3 DEF Ordered
<1>7. daemon.todo = <<>> BY <1>0, <1>1 DEF RecoveryFits
<1>8. \A t \in Surfaces : /\ ~Unreconciled(t) /\ ~Reconciling(t) /\ ~BeingStopped(t) /\ ~OpOf(t)
                          /\ ~Unreconciled(t)' /\ ~Reconciling(t)' /\ ~BeingStopped(t)'
  BY <1>1, <1>4, <1>7 DEF Unreconciled, Reconciling, BeingStopped, OpOf
<1>9. RowsFit' BY <1>0, <1>3, <1>1, <1>4, <1>8 DEF RowsFit
<1>10. RecoveryFits' BY <1>0, <1>1, <1>4, <1>8 DEF RecoveryFits
<1>11. \A t \in Surfaces : HoldsPlace(t)' => HoldsPlace(t) BY <1>1, <1>3, <1>8 DEF HoldsPlace
<1>12. PlacesFit' BY <1>0, <1>11, PlacesShrink
<1>13. ReadyIsHeld' BY <1>0, <1>1, <1>3, <1>8 DEF ReadyIsHeld
<1> QED BY <1>4, <1>5, <1>6, <1>9, <1>10, <1>12, <1>13 DEF SwayIInv

\* The next row is reconciled.
LEMMA ReconcileBeginsKeeps ==
  ASSUME SwayAssumption, SwayIInv, ReconcileBegins
  PROVE  SwayIInv'
<1>0. /\ SwayTyped /\ Ordered(row) /\ RowsFit /\ RecoveryFits /\ PlacesFit /\ ReadyIsHeld
  BY DEF SwayIInv
<1>1. /\ daemon.state = "recovering" /\ op.kind = "none" /\ daemon.todo # <<>>
      /\ Begin("reconcile", Head(daemon.todo), "reattach")
      /\ daemon' = [daemon EXCEPT !.todo = Tail(@)]
      /\ UNCHANGED <<row, mem, computer, files, desktops, sway>>
  BY DEF ReconcileBegins, NoOp
<1>2. PICK todo \in Seq(Surfaces) : todo = daemon.todo BY <1>0 DEF SwayTyped
<1>3. PICK s \in Surfaces : s = Head(todo) BY <1>1, <1>2
<1>4. /\ 1 \in DOMAIN todo /\ todo[1] = s
      /\ Tail(todo) \in Seq(Surfaces)
      /\ \A i \in DOMAIN Tail(todo) :
           i + 1 \in DOMAIN todo /\ Tail(todo)[i] = todo[i + 1] /\ i \in Nat
      /\ \A i \in DOMAIN todo \ {1} : i - 1 \in DOMAIN Tail(todo) /\ Tail(todo)[i - 1] = todo[i]
  BY <1>1, <1>2, <1>3
<1>5. /\ daemon' \in [state : {"up", "recovering", "down"}, todo : Seq(Surfaces),
                      restarts : 0..MaxRestarts]
      /\ daemon'.state = "recovering" /\ daemon'.todo = Tail(todo)
      /\ daemon'.restarts = daemon.restarts
  BY <1>0, <1>1, <1>2, <1>4 DEF SwayTyped
<1>6. \A i, j \in DOMAIN todo : i # j => todo[i] # todo[j] BY <1>0, <1>2 DEF RecoveryFits
<1>7. Unreconciled(s) BY <1>2, <1>4 DEF Unreconciled
<1>8. mem[s] = Nothing /\ row[s].state \in {"starting", "ready", "failed"}
  BY <1>0, <1>7 DEF RecoveryFits
<1>9. /\ op' \in Operations /\ op'.kind = "reconcile" /\ op'.s = s /\ op'.pc = "reattach"
      /\ StepsFit' /\ CompositorsFit' /\ SessionsFit' /\ SiblingsFit'
      /\ UnitsEnabled => UnitsFit'
  BY <1>1, <1>2, <1>3, <1>8, OperationBegins
<1>10. /\ ~Unreconciled(s)'
       /\ \A t \in Surfaces \ {s} : Unreconciled(t)' <=> Unreconciled(t)
  <2>1. \A t \in Surfaces : Unreconciled(t) <=> \E i \in DOMAIN todo : todo[i] = t
    BY <1>2 DEF Unreconciled
  <2>2. \A t \in Surfaces : Unreconciled(t)' <=> \E i \in DOMAIN Tail(todo) : Tail(todo)[i] = t
    BY <1>5 DEF Unreconciled
  <2>3. ~Unreconciled(s)' BY <1>4, <1>6, <2>2
  <2>4. \A t \in Surfaces : Unreconciled(t)' => Unreconciled(t) BY <1>4, <2>1, <2>2
  <2>5. \A t \in Surfaces \ {s} : Unreconciled(t) => Unreconciled(t)' BY <1>4, <2>1, <2>2
  <2> QED BY <2>3, <2>4, <2>5
<1>11. \A t \in Surfaces : /\ ~Reconciling(t) /\ ~BeingStopped(t) /\ ~OpOf(t)
                           /\ ~BeingStopped(t)' /\ (Reconciling(t)' <=> t = s)
                           /\ (OpOf(t)' <=> t = s)
  BY <1>1, <1>9 DEF Reconciling, BeingStopped, OpOf
<1>12. SwayTyped' BY <1>0, <1>1, <1>5, <1>9 DEF SwayTyped
<1>13. Ordered(row)' BY <1>0, <1>1 DEF Ordered
<1>14. RowsFit' BY <1>0, <1>1, <1>5, <1>7, <1>8, <1>9, <1>10, <1>11 DEF RowsFit
<1>15. RecoveryFits'
  <2>1. \A i, j \in DOMAIN Tail(todo) : i # j => Tail(todo)[i] # Tail(todo)[j]
    <3> SUFFICES ASSUME NEW i \in DOMAIN Tail(todo), NEW j \in DOMAIN Tail(todo), i # j
                 PROVE  Tail(todo)[i] # Tail(todo)[j]
      OBVIOUS
    <3>1. i + 1 \in DOMAIN todo /\ j + 1 \in DOMAIN todo /\ i + 1 # j + 1 BY <1>4
    <3>2. todo[i + 1] # todo[j + 1] BY <1>6, <3>1
    <3> QED BY <1>4, <3>2
  <2>2. \A i, j \in DOMAIN daemon'.todo : i # j => daemon'.todo[i] # daemon'.todo[j]
    BY <1>5, <2>1
  <2>3. ASSUME NEW t \in Surfaces, Unreconciled(t)'
        PROVE  mem'[t] = Nothing /\ ~OpOf(t)' /\ row'[t].state \in {"starting", "ready", "failed"}
    <3>1. t # s /\ Unreconciled(t) BY <1>10, <2>3
    <3> QED BY <1>0, <1>1, <1>11, <3>1 DEF RecoveryFits
  <2> QED BY <1>5, <1>9, <2>2, <2>3 DEF RecoveryFits
<1>16. \A t \in Surfaces : HoldsPlace(t)' => HoldsPlace(t) BY <1>1, <1>11 DEF HoldsPlace
<1>17. PlacesFit' BY <1>0, <1>16, PlacesShrink
<1>18. ReadyIsHeld' BY <1>0, <1>1, <1>5, <1>10, <1>11 DEF ReadyIsHeld
<1> QED BY <1>9, <1>12, <1>13, <1>14, <1>15, <1>17, <1>18 DEF SwayIInv

-----------------------------------------------------------------------------
\* An operation is over: a step that changes at most the row of its Surface.
LEMMA OperationEnds ==
  ASSUME SwayAssumption, SwayIInv, op.kind # "none", op.pc = "done", op' = NoOp,
         NEW state \in States,
         row' = Transition(row, op.s, state) \/ (row' = row /\ row[op.s].state = state),
         state \in {"stopped", "ready", "failed"},
         state # "stopped" => row[op.s].state \in {"starting", "ready", "failed"},
         state = "stopped" => (UnitsEnabled => RunsNothing(op.s)),
         state = "ready" => mem[op.s] # Nothing /\ row[op.s].state \in {"starting", "ready"},
         state # "ready" => mem[op.s] = Nothing \/ row[op.s].state = "starting",
         UNCHANGED <<mem, computer, files, desktops, sway, daemon>>
  PROVE  SwayIInv'
<1>0. /\ SwayTyped /\ StepsFit /\ CompositorsFit /\ SessionsFit /\ SiblingsFit
      /\ Ordered(row) /\ RowsFit /\ RecoveryFits /\ PlacesFit /\ ReadyIsHeld
      /\ (UnitsEnabled => UnitsFit) /\ row \in Rows /\ op.s \in Surfaces
  BY SwayFacts DEF SwayIInv
<1>1. op' \in Operations /\ op'.kind = "none" /\ op'.pc = "idle" /\ op'.failed = FALSE
  BY NothingIsNone DEF SwayAssumption, AnySurface, Operations, NoOp, Kinds, Steps
<1>2. /\ row' \in Rows /\ Ordered(row')
      /\ row'[op.s].state = state /\ row'[op.s].gen = row[op.s].gen
      /\ row[op.s].at # 0 \/ row'[op.s].state # "stopped" => row'[op.s].at # 0
      /\ \A t \in Surfaces \ {op.s} :
           /\ row'[t].state = row[t].state /\ row'[t].gen = row[t].gen
           /\ row'[t].at # 0 <=> row[t].at # 0
  <2>1. CASE row' = Transition(row, op.s, state) BY <1>0, <2>1, TransitionIs
  <2>2. CASE row' = row /\ row[op.s].state = state BY <1>0, <2>2 DEF RowsFit
  <2> QED BY <2>1, <2>2
<1>3. \A t \in Surfaces : /\ Unreconciled(t)' = Unreconciled(t) /\ ~Reconciling(t)'
                          /\ ~BeingStopped(t)' /\ ~OpOf(t)'
                          /\ (OpOf(t) <=> t = op.s)
                          /\ (Reconciling(t) => t = op.s) /\ (BeingStopped(t) => t = op.s)
  BY <1>1 DEF Unreconciled, Reconciling, BeingStopped, OpOf
<1>4. SwayTyped' BY <1>0, <1>1, <1>2 DEF SwayTyped
<1>5. StepsFit' BY <1>1 DEF StepsFit
<1>6. CompositorsFit' BY <1>0, <1>1 DEF CompositorsFit
<1>7. SessionsFit' BY <1>0, <1>1 DEF SessionsFit
<1>8. SiblingsFit' BY <1>0, <1>1 DEF Attached, SiblingsFit
<1>9. Ordered(row)' BY <1>2 DEF Ordered
<1>10. RowsFit'
  <2>1. \A t \in Surfaces : /\ row'[t].gen = row[t].gen
                            /\ row'[t].state # "stopped" => row'[t].at # 0
    BY <1>0, <1>2 DEF RowsFit
  <2>2. \A t \in Surfaces : row'[t].state \in {"starting", "ready", "failed"} => row'[t].gen # 0
    BY <1>0, <1>2 DEF RowsFit
  <2>3. daemon' = daemon OBVIOUS
  <2> QED BY <1>0, <1>1, <1>3, <2>1, <2>2, <2>3 DEF RowsFit
<1>11. RecoveryFits'
  <2>1. ~Unreconciled(op.s) BY <1>0, <1>3 DEF RecoveryFits
  <2>2. daemon.state # "down" BY <1>0 DEF RecoveryFits, NoOp
  <2>3. ASSUME NEW t \in Surfaces, Unreconciled(t)'
        PROVE  mem'[t] = Nothing /\ ~OpOf(t)' /\ row'[t].state \in {"starting", "ready", "failed"}
    <3>1. t # op.s /\ Unreconciled(t) BY <1>3, <2>1, <2>3
    <3> QED BY <1>0, <1>2, <1>3, <3>1 DEF RecoveryFits
  <2>4. daemon' = daemon OBVIOUS
  <2> QED BY <1>0, <1>1, <2>2, <2>3, <2>4 DEF RecoveryFits
<1>12. \A t \in Surfaces : HoldsPlace(t)' => HoldsPlace(t)
  <2> SUFFICES ASSUME NEW t \in Surfaces, HoldsPlace(t)' PROVE HoldsPlace(t) OBVIOUS
  <2>1. row'[t].state \in {"starting", "ready"} \/ mem[t] # Nothing BY <1>3 DEF HoldsPlace
  <2>2. CASE t = op.s
    <3>1. row[t].state \in {"starting", "ready"} BY <1>2, <2>1, <2>2
    <3> QED BY <3>1 DEF HoldsPlace
  <2>3. CASE t # op.s BY <1>2, <1>3, <2>1, <2>3 DEF HoldsPlace
  <2> QED BY <2>2, <2>3
<1>13. PlacesFit' BY <1>0, <1>12, PlacesShrink
<1>14. ReadyIsHeld'
  <2> SUFFICES ASSUME NEW t \in Surfaces, row'[t].state = "ready"
               PROVE  (mem[t] # Nothing \/ daemon.state = "down" \/ Unreconciled(t))
    BY <1>3 DEF ReadyIsHeld
  <2>1. CASE t = op.s BY <1>2, <2>1
  <2>2. CASE t # op.s BY <1>0, <1>2, <1>3, <2>2 DEF ReadyIsHeld
  <2> QED BY <2>1, <2>2
<1>15. UnitsEnabled => UnitsFit'
  <2> SUFFICES ASSUME UnitsEnabled PROVE UnitsFit' OBVIOUS
  <2>1. \A t \in Surfaces : row'[t].state = "stopped" => RunsNothing(t)
    BY <1>0, <1>2 DEF UnitsFit
  <2>2. \A t \in Surfaces : RunsNothing(t)' = RunsNothing(t) BY DEF RunsNothing
  <2> QED BY <1>0, <1>1, <2>1, <2>2 DEF UnitsFit
<1> QED BY <1>4, <1>5, <1>6, <1>7, <1>8, <1>9, <1>10, <1>11, <1>13, <1>14, <1>15 DEF SwayIInv

\* An operation is answered.
LEMMA DoneKeeps ==
  ASSUME SwayAssumption, SwayIInv, Done
  PROVE  SwayIInv'
<1>0. /\ StepsFit /\ SessionsFit /\ RowsFit /\ (UnitsEnabled => UnitsFit) /\ op.s \in Surfaces
      /\ op.kind \in Kinds
  BY SwayFacts DEF SwayIInv
<1>1. /\ op.pc = "done" /\ op.kind # "reconcile" /\ op' = NoOp
      /\ row' = CASE op.kind = "start" -> Transition(row, op.s, IF op.failed THEN "failed"
                                                                ELSE "ready")
                  [] op.kind = "cleanup" -> row
                  [] OTHER -> Transition(row, op.s, "stopped")
      /\ UNCHANGED <<mem, computer, files, desktops, sway, daemon>>
  BY DEF Done
<1>2. op.kind # "none" BY <1>0, <1>1 DEF StepsFit, NoOp
<1>3. {"stopped", "ready", "failed"} \subseteq States BY DEF States
<1>4. CASE op.kind = "start" /\ op.failed
  <2>1. row' = Transition(row, op.s, "failed") BY <1>1, <1>4
  <2>2. row[op.s].state = "starting" BY <1>0, <1>4 DEF RowsFit
  <2> QED BY <1>1, <1>2, <1>3, <2>1, <2>2, OperationEnds
<1>5. CASE op.kind = "start" /\ ~op.failed
  <2>1. row' = Transition(row, op.s, "ready") BY <1>1, <1>5
  <2>2. row[op.s].state = "starting" /\ mem[op.s] # Nothing
    BY <1>0, <1>1, <1>5 DEF RowsFit, SessionsFit
  <2> QED BY <1>1, <1>2, <1>3, <2>1, <2>2, OperationEnds
<1>6. CASE op.kind = "cleanup"
  <2>1. row' = row BY <1>1, <1>6
  <2>2. row[op.s].state = "failed" /\ mem[op.s] = Nothing
    BY <1>0, <1>1, <1>6 DEF RowsFit, SessionsFit
  <2> QED BY <1>1, <1>2, <1>3, <2>1, <2>2, OperationEnds
<1>7. CASE op.kind \in {"stop", "destroy"}
  <2>1. row' = Transition(row, op.s, "stopped") BY <1>1, <1>7
  <2>2. mem[op.s] = Nothing BY <1>0, <1>1, <1>7 DEF SessionsFit
  <2>3. UnitsEnabled => RunsNothing(op.s) BY <1>0, <1>1, <1>7 DEF UnitsFit
  <2> QED BY <1>1, <1>2, <1>3, <2>1, <2>2, <2>3, OperationEnds
<1> QED BY <1>0, <1>1, <1>2, <1>4, <1>5, <1>6, <1>7 DEF Kinds

-----------------------------------------------------------------------------
\* A Surface that is reconciled and has not failed still has its place: the others leave one.
LEMMA ReconciledHasItsPlace ==
  ASSUME SwayAssumption, SwayIInv, op.kind = "reconcile", row[op.s].state # "failed"
  PROVE  Reserved(op.s) < Capacity
<1> DEFINE R == {t \in Surfaces \ {op.s} :
                   \/ mem[t] # Nothing \/ BeingStopped(t)
                   \/ row[t].state = "starting" /\ ~Unreconciled(t)}
           H == {t \in Surfaces : HoldsPlace(t)}
<1>1. row[op.s].state \in {"starting", "ready"} /\ op.s \in Surfaces
  BY SwayFacts DEF SwayIInv, RowsFit
<1>2. \A t \in R : t \in H BY DEF BeingStopped, HoldsPlace, OpOf
<1>3. op.s \in H /\ op.s \notin R BY <1>1 DEF HoldsPlace
<1>4. IsFiniteSet(R) /\ IsFiniteSet(H) BY FS_Subset DEF SwayAssumption
<1>5. Cardinality(H) <= Capacity BY DEF SwayIInv, PlacesFit
<1>6. Reserved(op.s) = Cardinality(R) BY DEF Reserved
<1> HIDE DEF R, H
<1>7. Cardinality(R \cup {op.s}) = IF op.s \in R THEN Cardinality(R) ELSE Cardinality(R) + 1
  BY <1>4, FS_AddElement
<1>8. R \cup {op.s} \in SUBSET H BY <1>2, <1>3
<1>9. Cardinality(R \cup {op.s}) <= Cardinality(H) BY <1>4, <1>8, FS_Subset
<1>10. Cardinality(R) \in Nat /\ Cardinality(H) \in Nat /\ Capacity \in Nat
  BY <1>4, FS_CardinalityType DEF SwayAssumption
<1>11. Cardinality(R) + 1 <= Cardinality(H) BY <1>3, <1>7, <1>9
<1>12. Cardinality(R) < Capacity BY <1>5, <1>10, <1>11
<1> QED BY <1>6, <1>12

\* What was found of a Surface that had failed is stopped again.
LEMMA FoundIsStopped ==
  ASSUME SwayAssumption, SwayIInv, op.kind = "reconcile", op.pc = "done", mem[op.s] # Nothing,
         row[op.s].state = "failed",
         op' = [op EXCEPT !.kind = "cleanup", !.pc = "stopCurrent", !.tree = mem[op.s]],
         UNCHANGED <<row, mem, computer, files, desktops, sway, daemon>>
  PROVE  SwayIInv'
<1>0. /\ SwayTyped /\ StepsFit /\ CompositorsFit /\ SessionsFit /\ SiblingsFit
      /\ Ordered(row) /\ RowsFit /\ RecoveryFits /\ PlacesFit /\ ReadyIsHeld
      /\ (UnitsEnabled => UnitsFit) /\ row \in Rows /\ op.s \in Surfaces /\ op \in Operations
      /\ daemon.state = "recovering"
  BY SwayFacts DEF SwayIInv, RecoveryFits
<1>2. mem[op.s] \in Trees BY <1>0, NothingIsNone DEF SwayTyped
<1>3. /\ op' \in Operations /\ op'.kind = "cleanup" /\ op'.s = op.s /\ op'.pc = "stopCurrent"
      /\ op'.tree = mem[op.s] /\ op'.failed = op.failed
  BY <1>0, <1>2 DEF Operations, Kinds, Steps
<1>4. \A t \in Surfaces : /\ Unreconciled(t)' = Unreconciled(t) /\ ~Reconciling(t)'
                          /\ (OpOf(t)' <=> t = op.s) /\ (OpOf(t) <=> t = op.s)
                          /\ ~BeingStopped(t)
                          /\ (BeingStopped(t)' <=> t = op.s)
                          /\ (Reconciling(t) <=> t = op.s)
  BY <1>3 DEF Unreconciled, Reconciling, BeingStopped, OpOf
<1>5. SwayTyped' BY <1>0, <1>3 DEF SwayTyped
<1>6. StepsFit' BY <1>0, <1>3 DEF StepsFit
<1>7. CompositorsFit' BY <1>0, <1>3 DEF CompositorsFit
<1>8. SessionsFit' BY <1>0, <1>3 DEF SessionsFit
<1>9. SiblingsFit' BY <1>0, <1>3 DEF Attached, SiblingsFit
<1>10. Ordered(row)' BY <1>0 DEF Ordered
<1>11. RowsFit' BY <1>0, <1>3, <1>4 DEF RowsFit
<1>12. RecoveryFits' BY <1>0, <1>3, <1>4 DEF RecoveryFits
<1>13. \A t \in Surfaces : HoldsPlace(t)' => HoldsPlace(t) BY <1>0, <1>4 DEF HoldsPlace
<1>14. PlacesFit' BY <1>0, <1>13, PlacesShrink
<1>15. ReadyIsHeld' BY <1>0, <1>4 DEF ReadyIsHeld
<1>16. UnitsEnabled => UnitsFit' BY <1>0, <1>3 DEF UnitsFit, RunsNothing
<1> QED BY <1>5, <1>6, <1>7, <1>8, <1>9, <1>10, <1>11, <1>12, <1>14, <1>15, <1>16 DEF SwayIInv

\* A Surface of which nothing was found is started afresh.
LEMMA LostIsStarted ==
  ASSUME SwayAssumption, SwayIInv, op.kind = "reconcile", op.pc = "done", mem[op.s] = Nothing,
         row[op.s].state # "failed", row' = Starting(row, op.s),
         op' = [op EXCEPT !.kind = "start", !.pc = "stopUnits", !.tree = mem[op.s]],
         UNCHANGED <<mem, computer, files, desktops, sway, daemon>>
  PROVE  SwayIInv'
<1>0. /\ SwayTyped /\ StepsFit /\ CompositorsFit /\ SessionsFit /\ SiblingsFit
      /\ Ordered(row) /\ RowsFit /\ RecoveryFits /\ PlacesFit /\ ReadyIsHeld
      /\ (UnitsEnabled => UnitsFit) /\ row \in Rows /\ op.s \in Surfaces /\ op \in Operations
      /\ daemon.state = "recovering" /\ row[op.s].state \in {"starting", "ready"}
  BY SwayFacts DEF SwayIInv, RecoveryFits, RowsFit
<1>1. /\ daemon.restarts \in Nat /\ daemon.restarts <= MaxRestarts /\ MaxRestarts \in Nat
      /\ MaxGeneration \in Nat /\ row[op.s].gen \in Nat
  BY <1>0 DEF SwayTyped, SwayAssumption, Rows
<1>2. row[op.s].gen + MaxRestarts < MaxGeneration + daemon.restarts
  BY <1>0 DEF RowsFit, Reconciling
<1>3. row[op.s].gen + 1 \in 0..MaxGeneration BY <1>1, <1>2
<1>4. /\ row' \in Rows /\ Ordered(row')
      /\ row'[op.s].state = "starting" /\ row'[op.s].gen = row[op.s].gen + 1 /\ row'[op.s].at # 0
      /\ \A t \in Surfaces \ {op.s} :
           /\ row'[t].state = row[t].state /\ row'[t].gen = row[t].gen
           /\ row'[t].at # 0 <=> row[t].at # 0
  BY <1>0, <1>3, StartingIs
<1>5. /\ op' \in Operations /\ op'.kind = "start" /\ op'.s = op.s /\ op'.pc = "stopUnits"
      /\ op'.tree = Nothing /\ op'.failed = op.failed
  BY <1>0, NothingIsNone DEF Operations, Kinds, Steps
<1>6. \A t \in Surfaces : /\ Unreconciled(t)' = Unreconciled(t) /\ ~Reconciling(t)'
                          /\ (OpOf(t)' <=> t = op.s) /\ (OpOf(t) <=> t = op.s)
                          /\ ~BeingStopped(t) /\ ~BeingStopped(t)'
                          /\ (Reconciling(t) <=> t = op.s)
  BY <1>5 DEF Unreconciled, Reconciling, BeingStopped, OpOf
<1>7. ~Unreconciled(op.s) BY <1>0, <1>6 DEF RecoveryFits
<1>8. SwayTyped' BY <1>0, <1>4, <1>5 DEF SwayTyped
<1>9. StepsFit' BY <1>0, <1>5 DEF StepsFit
<1>10. CompositorsFit' BY <1>0, <1>5 DEF CompositorsFit
<1>11. SessionsFit' BY <1>0, <1>5 DEF SessionsFit
<1>12. SiblingsFit' BY <1>0, <1>5 DEF Attached, SiblingsFit
<1>13. Ordered(row)' BY <1>4 DEF Ordered
<1>14. RowsFit'
  <2>1. daemon' = daemon OBVIOUS
  <2>2. ASSUME NEW t \in Surfaces, row'[t].gen # 0
        PROVE  /\ row'[t].gen + MaxRestarts <= MaxGeneration + daemon.restarts
               /\ Unreconciled(t)' => row'[t].gen + MaxRestarts < MaxGeneration + daemon.restarts
    <3>1. CASE t = op.s BY <1>1, <1>2, <1>4, <1>6, <1>7, <3>1
    <3>2. CASE t # op.s BY <1>0, <1>4, <1>6, <2>2, <3>2 DEF RowsFit
    <3> QED BY <3>1, <3>2
  <2>3. \A t \in Surfaces : row'[t].state # "stopped" => row'[t].at # 0
    BY <1>0, <1>4 DEF RowsFit
  <2>4. ASSUME NEW t \in Surfaces, row'[t].state \in {"starting", "ready", "failed"}
        PROVE  row'[t].gen # 0
    <3>1. CASE t = op.s BY <1>1, <1>4, <3>1
    <3>2. CASE t # op.s BY <1>0, <1>4, <2>4, <3>2 DEF RowsFit
    <3> QED BY <3>1, <3>2
  <2> QED BY <1>0, <1>4, <1>5, <1>6, <2>1, <2>2, <2>3, <2>4 DEF RowsFit
<1>15. RecoveryFits'
  <2>1. ASSUME NEW t \in Surfaces, Unreconciled(t)'
        PROVE  mem'[t] = Nothing /\ ~OpOf(t)' /\ row'[t].state \in {"starting", "ready", "failed"}
    <3>1. t # op.s /\ Unreconciled(t) BY <1>6, <1>7, <2>1
    <3> QED BY <1>0, <1>4, <1>6, <3>1 DEF RecoveryFits
  <2>2. daemon' = daemon OBVIOUS
  <2> QED BY <1>0, <1>5, <2>1, <2>2 DEF RecoveryFits
<1>16. \A t \in Surfaces : HoldsPlace(t)' => HoldsPlace(t)
  <2> SUFFICES ASSUME NEW t \in Surfaces, HoldsPlace(t)' PROVE HoldsPlace(t) OBVIOUS
  <2>1. CASE t = op.s BY <1>0, <2>1 DEF HoldsPlace
  <2>2. CASE t # op.s BY <1>4, <1>6, <2>2 DEF HoldsPlace
  <2> QED BY <2>1, <2>2
<1>17. PlacesFit' BY <1>0, <1>16, PlacesShrink
<1>18. ReadyIsHeld'
  <2> SUFFICES ASSUME NEW t \in Surfaces, row'[t].state = "ready"
               PROVE  (mem[t] # Nothing \/ daemon.state = "down" \/ Unreconciled(t))
    BY <1>6 DEF ReadyIsHeld
  <2>1. t # op.s BY <1>4
  <2> QED BY <1>0, <1>4, <1>6, <2>1 DEF ReadyIsHeld
<1>19. UnitsEnabled => UnitsFit' BY <1>0, <1>4, <1>5 DEF UnitsFit, RunsNothing
<1> QED BY <1>8, <1>9, <1>10, <1>11, <1>12, <1>13, <1>14, <1>15, <1>17, <1>18, <1>19
        DEF SwayIInv

\* What recover does with what was found.
LEMMA ReconciledKeeps ==
  ASSUME SwayAssumption, SwayIInv, Reconciled
  PROVE  SwayIInv'
<1>0. /\ op.kind = "reconcile" /\ op.pc = "done" /\ op.tree = mem[op.s]
      /\ row[op.s].state \in {"starting", "ready", "failed"}
      /\ UNCHANGED <<mem, computer, files, desktops, sway, daemon>>
  BY DEF Reconciled, SwayIInv, SessionsFit, RowsFit
<1>1. {"ready", "failed"} \subseteq States BY DEF States
<1>2. row[op.s].state # "failed" => ~(Reserved(op.s) >= Capacity)
  <2>1. SUFFICES ASSUME row[op.s].state # "failed" PROVE ~(Reserved(op.s) >= Capacity) OBVIOUS
  <2>2. Reserved(op.s) < Capacity BY <1>0, <2>1, ReconciledHasItsPlace
  <2>3. IsFiniteSet({t \in Surfaces \ {op.s} :
                       \/ mem[t] # Nothing \/ BeingStopped(t)
                       \/ row[t].state = "starting" /\ ~Unreconciled(t)})
    BY FS_Subset DEF SwayAssumption
  <2>4. Reserved(op.s) \in Nat /\ Capacity \in Nat
    BY <2>3, FS_CardinalityType DEF Reserved, SwayAssumption
  <2> QED BY <2>2, <2>4
<1>3. CASE row[op.s].state = "failed" /\ op.tree # Nothing
  <2>1. /\ op' = [op EXCEPT !.kind = "cleanup", !.pc = "stopCurrent", !.tree = mem[op.s]]
        /\ UNCHANGED row
    BY <1>0, <1>3 DEF Reconciled
  <2> QED BY <1>0, <1>3, <2>1, FoundIsStopped
<1>4. CASE row[op.s].state = "failed" /\ op.tree = Nothing
  <2>1. op' = NoOp /\ row' = Transition(row, op.s, "failed") BY <1>0, <1>4 DEF Reconciled
  <2> QED BY <1>0, <1>1, <1>4, <2>1, OperationEnds
<1>5. CASE row[op.s].state # "failed" /\ op.tree # Nothing
  <2>1. row' = Transition(row, op.s, "ready") /\ op' = NoOp BY <1>0, <1>2, <1>5 DEF Reconciled
  <2> QED BY <1>0, <1>1, <1>5, <2>1, OperationEnds
<1>6. CASE row[op.s].state # "failed" /\ op.tree = Nothing
  <2>1. /\ row' = Starting(row, op.s)
        /\ op' = [op EXCEPT !.kind = "start", !.pc = "stopUnits", !.tree = mem[op.s]]
    BY <1>0, <1>2, <1>6 DEF Reconciled
  <2> QED BY <1>0, <1>6, <2>1, LostIsStarted
<1> QED BY <1>3, <1>4, <1>5, <1>6

-----------------------------------------------------------------------------
\* The members of L, the one whose row changed longest ago first.
Ranked(L, rows) ==
  [i \in 1..Cardinality(L) |->
     CHOOSE s \in L : Cardinality({t \in L : rows[t].at < rows[s].at}) = i - 1]

\* A finite set listed by rank: every member is listed, and once.
LEMMA RankedList ==
  ASSUME NEW L, IsFiniteSet(L), NEW rows, \A s \in L : rows[s].at \in Nat,
         \A s, t \in L : s # t => rows[s].at # rows[t].at,
         NEW list, list = Ranked(L, rows)
  PROVE  /\ list \in Seq(L)
         /\ \A i, j \in DOMAIN list : i # j => list[i] # list[j]
         /\ \A s \in L : \E i \in DOMAIN list : list[i] = s
<1> DEFINE B(s) == {t \in L : rows[t].at < rows[s].at}
           n == Cardinality(L)
           rank == [s \in L |-> Cardinality(B(s)) + 1]
<1>1. n \in Nat BY FS_CardinalityType
<1>2. \A s \in L : B(s) \in SUBSET L OBVIOUS
<1>3. \A s \in L : IsFiniteSet(B(s)) /\ Cardinality(B(s)) \in Nat
  BY <1>2, FS_Subset, FS_CardinalityType
<1>4. \A s \in L : Cardinality(B(s)) < n
  <2> SUFFICES ASSUME NEW s \in L PROVE Cardinality(B(s)) < n OBVIOUS
  <2>1. s \notin B(s) OBVIOUS
  <2> HIDE DEF B
  <2>2. B(s) # L BY <2>1
  <2>3. Cardinality(B(s)) <= n /\ (n = Cardinality(B(s)) => L = B(s)) BY <1>2, FS_Subset
  <2> QED BY <1>1, <1>3, <2>2, <2>3
<1>5. \A s, u \in L : rows[s].at < rows[u].at => Cardinality(B(s)) < Cardinality(B(u))
  <2> SUFFICES ASSUME NEW s \in L, NEW u \in L, rows[s].at < rows[u].at
               PROVE  Cardinality(B(s)) < Cardinality(B(u))
    OBVIOUS
  <2>1. s \in B(u) /\ s \notin B(s) OBVIOUS
  <2>2. B(s) \in SUBSET B(u) OBVIOUS
  <2> HIDE DEF B
  <2>3. B(s) # B(u) BY <2>1
  <2>4. /\ Cardinality(B(s)) <= Cardinality(B(u))
        /\ Cardinality(B(u)) = Cardinality(B(s)) => B(u) = B(s)
    BY <1>3, <2>2, FS_Subset
  <2> QED BY <1>3, <2>3, <2>4
<1> HIDE DEF B
<1>6. rank \in [L -> 1..n] BY <1>1, <1>3, <1>4
<1>7. \A s, u \in L : rank[s] = rank[u] => s = u
  <2> SUFFICES ASSUME NEW s \in L, NEW u \in L, s # u PROVE rank[s] # rank[u] OBVIOUS
  <2>1. rows[s].at < rows[u].at \/ rows[u].at < rows[s].at OBVIOUS
  <2> QED BY <1>3, <1>5, <2>1
<1>8. rank \in Injection(L, 1..n) BY <1>6, <1>7 DEF Injection, IsInjective
<1>9. IsFiniteSet(1..n) /\ Cardinality(1..n) = n BY <1>1, FS_Interval
<1>10. rank \in Surjection(L, 1..n) BY <1>8, <1>9, FS_Injection
<1>11. \A i \in 1..n : \E s \in L : rank[s] = i BY <1>10 DEF Surjection
<1>12. \A i \in 1..n : \E s \in L : Cardinality(B(s)) = i - 1 BY <1>3, <1>11
<1>13. list = [i \in 1..n |-> CHOOSE s \in L : Cardinality(B(s)) = i - 1] BY DEF B, Ranked
<1>14. \A i \in 1..n : list[i] \in L /\ Cardinality(B(list[i])) = i - 1 BY <1>12, <1>13
<1>15. DOMAIN list = 1..n BY <1>13
<1>16. list \in Seq(L)
  <2>1. list \in [1..n -> L] BY <1>13, <1>14
  <2> HIDE DEF n
  <2> QED BY <1>1, <2>1
<1>17. \A i, j \in DOMAIN list : i # j => list[i] # list[j]
  <2> SUFFICES ASSUME NEW i \in 1..n, NEW j \in 1..n, list[i] = list[j] PROVE i = j BY <1>15
  <2>1. i - 1 = Cardinality(B(list[i])) /\ j - 1 = Cardinality(B(list[j])) BY <1>14
  <2>2. i \in Nat /\ j \in Nat BY <1>1
  <2>3. i - 1 = j - 1 BY <2>1
  <2> QED BY <2>2, <2>3
<1>18. ASSUME NEW s \in L PROVE \E i \in DOMAIN list : list[i] = s
  <2>1. rank[s] \in 1..n BY <1>6
  <2>2. list[rank[s]] \in L /\ Cardinality(B(list[rank[s]])) = rank[s] - 1 BY <1>14, <2>1
  <2>3. rank[list[rank[s]]] = rank[s] BY <1>1, <1>3, <2>1, <2>2
  <2>4. list[rank[s]] = s BY <1>7, <2>2, <2>3
  <2> QED BY <1>15, <2>1, <2>4
<1> QED BY <1>16, <1>17, <1>18

\* The next daemon lists the rows to reconcile.
LEMMA DaemonStartsKeeps ==
  ASSUME SwayAssumption, SwayIInv, DaemonStarts
  PROVE  SwayIInv'
<1>0. /\ SwayTyped /\ StepsFit /\ CompositorsFit /\ SessionsFit /\ SiblingsFit
      /\ Ordered(row) /\ RowsFit /\ RecoveryFits /\ PlacesFit /\ ReadyIsHeld
      /\ (UnitsEnabled => UnitsFit) /\ row \in Rows
  BY DEF SwayIInv, SwayTyped
<1> DEFINE L == {s \in Surfaces : row[s].state \notin {"stopped", "deleting"}}
<1>1. /\ daemon.state = "down" /\ UNCHANGED <<row, mem, computer, files, desktops, sway, op>>
      /\ daemon' = [daemon EXCEPT !.state = "recovering", !.todo = Ranked(L, row)]
  BY DEF DaemonStarts, Ranked
<1>2. op = NoOp /\ op.kind = "none" /\ \A s \in Surfaces : mem[s] = Nothing
  BY <1>0, <1>1 DEF RecoveryFits, NoOp
<1>3. IsFiniteSet(L) BY FS_Subset DEF SwayAssumption
<1>4. (\A s \in L : row[s].at \in Nat) /\ \A s, t \in L : s # t => row[s].at # row[t].at
  <2>1. \A s \in Surfaces : row[s].at \in Nat BY <1>0 DEF Rows
  <2>2. \A s \in L : row[s].at # 0 BY <1>0 DEF RowsFit
  <2>3. \A s, t \in L : s # t => row[s].at # row[t].at BY <1>0, <2>2 DEF Ordered
  <2> QED BY <2>1, <2>3
<1>6. PICK list : list = Ranked(L, row) OBVIOUS
<1>7. /\ list \in Seq(L)
      /\ \A i, j \in DOMAIN list : i # j => list[i] # list[j]
      /\ \A s \in L : \E i \in DOMAIN list : list[i] = s
  <2> HIDE DEF L
  <2> QED BY <1>3, <1>4, <1>6, RankedList
<1>8. list \in Seq(Surfaces) /\ \A i \in DOMAIN list : list[i] \in L
  <2>1. L \subseteq Surfaces OBVIOUS
  <2> HIDE DEF L
  <2> QED BY <1>7, <2>1
<1>9. /\ daemon' \in [state : {"up", "recovering", "down"}, todo : Seq(Surfaces),
                      restarts : 0..MaxRestarts]
      /\ daemon'.state = "recovering" /\ daemon'.todo = list
      /\ daemon'.restarts = daemon.restarts
  <2>1. daemon' = [daemon EXCEPT !.state = "recovering", !.todo = list] BY <1>1, <1>6
  <2> HIDE DEF L
  <2> QED BY <1>0, <1>8, <2>1 DEF SwayTyped
<1>10. \A s \in Surfaces : Unreconciled(s)' <=> s \in L
  BY <1>7, <1>8, <1>9 DEF Unreconciled
<1>11. \A s \in Surfaces : /\ ~Reconciling(s) /\ ~BeingStopped(s) /\ ~OpOf(s)
                           /\ ~Reconciling(s)' /\ ~BeingStopped(s)' /\ ~OpOf(s)'
  BY <1>1, <1>2 DEF Reconciling, BeingStopped, OpOf
<1>12. \A s \in L : row[s].state \in {"starting", "ready", "failed"} BY <1>0 DEF Rows
<1>13. SwayTyped' BY <1>0, <1>1, <1>9 DEF SwayTyped
<1>14. Ordered(row)' BY <1>0, <1>1 DEF Ordered
<1>15. RowsFit' BY <1>0, <1>1, <1>2, <1>9, <1>11 DEF RowsFit
<1>16. RecoveryFits'
  <2>1. ASSUME NEW t \in Surfaces, Unreconciled(t)'
        PROVE  mem'[t] = Nothing /\ ~OpOf(t)' /\ row'[t].state \in {"starting", "ready", "failed"}
    BY <1>1, <1>2, <1>10, <1>11, <1>12, <2>1
  <2>2. \A i, j \in DOMAIN daemon'.todo : i # j => daemon'.todo[i] # daemon'.todo[j]
    BY <1>7, <1>9
  <2> QED BY <1>1, <1>2, <1>9, <2>1, <2>2 DEF RecoveryFits
<1>17. \A s \in Surfaces : HoldsPlace(s)' => HoldsPlace(s) BY <1>1, <1>11 DEF HoldsPlace
<1>18. PlacesFit' BY <1>0, <1>17, PlacesShrink
<1>19. ReadyIsHeld' BY <1>1, <1>10 DEF ReadyIsHeld
<1>20. UnitsEnabled => UnitsFit' BY <1>0, <1>1 DEF UnitsFit, RunsNothing
<1> QED BY <1>1, <1>13, <1>14, <1>15, <1>16, <1>18, <1>19, <1>20, MachineStays DEF SwayIInv

-----------------------------------------------------------------------------
\* Every step keeps the invariant.
LEMMA SwayKeeps ==
  ASSUME SwayAssumption, SwayIInv, [SwayNext]_swayVars
  PROVE  SwayIInv'
<1>1. CASE UNCHANGED swayVars
  <2>1. /\ desktops' \subseteq desktops /\ sway' = sway
        /\ UNCHANGED <<row, mem, computer, files, op, daemon>>
    BY <1>1 DEF swayVars
  <2>2. \A d \in desktops' : d.comp \in sway'.alive BY <2>1 DEF SwayIInv, CompositorsFit
  <2>3. sway' \in SwayStates BY <2>1, SwayFacts
  <2> QED BY <2>1, <2>2, <2>3, ProcessesEnd
<1>2. ASSUME NEW s \in Surfaces,
             Open(s) \/ StartBegins(s) \/ RuntimeFails(s) \/ StopBegins(s) \/ DestroyBegins(s)
      PROVE  SwayIInv'
  BY <1>2, OpenKeeps, StartBeginsKeeps, RuntimeFailsKeeps, StopBeginsKeeps, DestroyBeginsKeeps
<1>3. CASE OpStep
  BY <1>3, StopCurrentKeeps, RemoveFilesKeeps, StopComputerKeeps, RemoveComputerKeeps,
     StopUnitsKeeps, KillKeeps, EnsureComputerKeeps, SpawnSwayKeeps, SwayReadyKeeps,
     AllocateKeeps, DesktopReadyKeeps, DoneKeeps, ReattachKeeps, ReattachSurfaceKeeps,
     DiscardSurfaceKeeps, ReconciledKeeps
  DEF OpStep
<1>4. CASE ReconcileBegins \/ Recovered \/ DesktopExits \/ DaemonEnds \/ DaemonStarts
  BY <1>4, ReconcileBeginsKeeps, RecoveredKeeps, DesktopExitsKeeps, DaemonEndsKeeps,
     DaemonStartsKeeps
<1>5. ASSUME NEW c \in Computers, CompositorExits(c) PROVE SwayIInv'
  BY <1>5, CompositorExitsKeeps
<1> QED BY <1>1, <1>2, <1>3, <1>4, <1>5 DEF SwayNext

\* An operation that goes on, begins or ends leaves every desktop that is attached, but that of
\* the Surface whose session it forgets.
LEMMA SiblingStays ==
  ASSUME SwayAssumption, SwayIInv, SwayNext, op' # op,
         NEW s \in Surfaces, Attached(s), mem'[s] = mem[s]
  PROVE  Attached(s)'
<1>1. PICK d \in desktops : d = Desktop(s, mem[s]) BY DEF Attached
<1>2. d.s = s /\ mem[s] # Nothing /\ mem'[s] = mem[s] BY <1>1 DEF Attached, Desktop
<1>3. computer.gen # 0 BY <1>2, NothingIsNone DEF SwayIInv, SwayTyped, SiblingsFit
<1>4. s = op.s => op.pc \in {"idle", "stopCurrent", "done"} BY <1>2 DEF SwayIInv, SessionsFit
<1>5. op.pc # "stopComputer" BY DEF SwayIInv, SiblingsFit
<1>6. mem \in [Surfaces -> Real \cup {Nothing}] BY SwayFacts
<1> SUFFICES d \in desktops' BY <1>1, <1>2 DEF Attached
<1>7. CASE desktops \subseteq desktops' BY <1>1, <1>7
<1>8. CASE StopCurrent
  <2>1. s # op.s BY <1>6, <1>8, <1>2 DEF StopCurrent
  <2>2. Desktop(op.s, op.tree).s = op.s BY DEF Desktop
  <2> QED BY <1>1, <1>2, <1>8, <2>1, <2>2 DEF StopCurrent
<1>9. CASE StopUnits \/ Kill
  <2>1. s # op.s BY <1>4, <1>9 DEF StopUnits, Kill
  <2> QED BY <1>1, <1>2, <1>9, <2>1 DEF StopUnits, Kill
<1>10. CASE DesktopReady
  <2>1. s # op.s BY <1>4, <1>10 DEF DesktopReady
  <2>2. Desktop(op.s, op.tree).s = op.s BY DEF Desktop
  <2>3. desktops' = desktops \/ desktops' = desktops \ {Desktop(op.s, op.tree)}
    BY <1>10 DEF DesktopReady
  <2> QED BY <1>1, <1>2, <2>1, <2>2, <2>3
<1>11. CASE DiscardSurface
  <2>1. s # op.s BY <1>4, <1>11 DEF DiscardSurface
  <2>2. Desktop(op.s, files.surface[op.s]).s = op.s BY DEF Desktop
  <2> QED BY <1>1, <1>2, <1>11, <2>1, <2>2 DEF DiscardSurface
<1>12. CASE EnsureComputer \/ Reattach
  <2>1. desktops' = desktops BY <1>3, <1>12 DEF EnsureComputer, Reattach
  <2> QED BY <1>1, <2>1
<1>13. CASE StopComputer BY <1>5, <1>13 DEF StopComputer
<1>14. CASE RemoveFiles \/ RemoveComputer \/ SpawnSway \/ SwayReady \/ Allocate \/ Done
            \/ ReattachSurface \/ Reconciled
  <2>1. desktops \subseteq desktops'
    BY <1>14 DEF RemoveFiles, RemoveComputer, SpawnSway, SwayReady, Allocate, Done,
                 ReattachSurface, Reconciled
  <2> QED BY <1>7, <2>1
<1>15. CASE OpStep
  BY <1>8, <1>9, <1>10, <1>11, <1>12, <1>13, <1>14, <1>15 DEF OpStep
<1>16. ASSUME NEW t \in Surfaces,
              Open(t) \/ StartBegins(t) \/ RuntimeFails(t) \/ StopBegins(t) \/ DestroyBegins(t)
       PROVE  d \in desktops'
  BY <1>1, <1>16 DEF Open, StartBegins, RuntimeFails, StopBegins, DestroyBegins
<1>17. CASE ReconcileBegins \/ DaemonEnds
  BY <1>1, <1>17 DEF ReconcileBegins, DaemonEnds
<1>18. ~(Recovered \/ DesktopExits \/ DaemonStarts) /\ \A c \in Computers : ~CompositorExits(c)
  BY DEF Recovered, DesktopExits, DaemonStarts, CompositorExits
<1> QED BY <1>15, <1>16, <1>17, <1>18 DEF SwayNext

\* A daemon that ends at any moment can be replaced: its successor finds what runs, gives each
\* output once, and runs nothing that nobody shows, for every number of Surfaces, outputs,
\* compositors and restarts (swayBotScreenRuntime.ts and recover of botScreenManager.ts).
THEOREM DaemonsAreReplaceable == SwaySpec => []ReplaceableDaemon
<1>1. SwayInit => SwayIInv BY SwayAssumption, SwayStart
<1>2. SwayIInv /\ [SwayNext]_swayVars => SwayIInv' BY SwayAssumption, SwayKeeps
<1>3. SwayIInv => ReplaceableDaemon BY SwayAssumption, SwayShown
<1> QED BY <1>1, <1>2, <1>3, PTL DEF SwaySpec

\* No lifecycle operation takes the compositor, or its desktop, from another Screen that is
\* attached (#stopSession and #stopComputer, whoever of start, stop and reconcile calls them).
THEOREM SiblingsAreKept == SwaySpec => SiblingsKeepTheirComputer
<1>1. SwayInit => SwayIInv BY SwayAssumption, SwayStart
<1>2. SwayIInv /\ [SwayNext]_swayVars => SwayIInv' BY SwayAssumption, SwayKeeps
<1>3. SwayIInv /\ [SwayNext]_swayVars =>
        [op' # op => \A s \in Surfaces : Attached(s) /\ mem'[s] = mem[s] => Attached(s)']_swayVars
  BY SwayAssumption, SiblingStays
<1> QED BY <1>1, <1>2, <1>3, PTL DEF SwaySpec, SiblingsKeepTheirComputer
=============================================================================
