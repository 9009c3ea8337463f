-------------------------- MODULE ComputerControl --------------------------
(***************************************************************************)
(* Who controls one Bot Screen: ComputerBroker (broker.ts) composed with   *)
(* the input controllers of ScreenProjectionService (screenProjection.ts)  *)
(* and the operation queue of the Surface in BotScreenManager.             *)
(*                                                                         *)
(* A call c is one computer tool call of the Agent, a session s one open   *)
(* projection, a controller k one claim of Web Control, named by its epoch.*)
(* JavaScript runs to completion: an external event is taken only when no  *)
(* continuation is ready (Quiet), and continuations run in any order.      *)
(***************************************************************************)
EXTENDS Naturals, Sequences, FiniteSets

CONSTANTS Sessions,   \* viewers with an open control socket
          Nobody,     \* no session
          MaxCalls,   \* computer tool calls
          MaxClaims,  \* claims of Web Control
          MaxInputs   \* inputs queued at a controller

ASSUME ControlAssumption == /\ IsFiniteSet(Sessions) /\ Nobody \notin Sessions
                            /\ MaxCalls \in Nat \ {0}
                            /\ MaxClaims \in Nat \ {0}
                            /\ MaxInputs \in Nat \ {0}

Calls == 1..MaxCalls
Claims == 1..MaxClaims

VARIABLES desk,   \* the broker: pending, webOwner, authority and the calls
          web,    \* the projection's controllers of the Surface
          view,   \* mode and inputSuspended of each session
          line,   \* #surfaceOperations: calls in order
          ops,    \* #operations of the Surface
          busy,   \* the head of ops runs
          screen, \* "up" or "down"
          held    \* the runtime's seat: the epoch it obeys, and whether keys are down

controlVars == <<desk, web, view, line, ops, busy, screen, held>>

Phases == {"running", "takeover-requested", "held", "completing", "waiting", "settled"}
Human == {"held", "completing", "waiting"}

-----------------------------------------------------------------------------
(* Records and their initial values. *)

NewCall == [at |-> "none", phase |-> "running", aborted |-> FALSE, cancelled |-> FALSE,
            failed |-> FALSE, taking |-> FALSE, activated |-> "open", completion |-> "open",
            gate |-> 0, back |-> "no", backGate |-> 0, stop |-> "no", stopGate |-> 0]

NewController == [session |-> Nobody, force |-> FALSE, after |-> 0, prior |-> 0, claim |-> "none",
                  release |-> "none", revoked |-> FALSE, active |-> FALSE, provisioned |-> FALSE,
                  announced |-> FALSE, inputs |-> 0, sending |-> FALSE]

ControlTypeOK ==
  /\ desk \in [pending : 0..MaxCalls, webOwner : BOOLEAN,
               authority : {"idle", "agent", "web", "takeover"},
               call : [Calls -> [at : {"none", "queued", "revoking", "acting", "recording",
                                       "activating", "completing", "ended"},
                                 phase : Phases, aborted : BOOLEAN, cancelled : BOOLEAN,
                                 failed : BOOLEAN, taking : BOOLEAN,
                                 activated : {"open", "yes", "no"},
                                 completion : {"open", "yes", "no"},
                                 gate : 0..MaxClaims,
                                 back : {"no", "revoking", "observing", "recording", "restoring"},
                                 backGate : 0..MaxClaims,
                                 stop : {"no", "revoking", "done"}, stopGate : 0..MaxClaims]]]
  /\ web \in [now : 0..MaxClaims, last : 0..MaxClaims, barrier : 0..MaxClaims,
              ctl : [Claims -> [session : Sessions \cup {Nobody}, force : BOOLEAN,
                                after : 0..MaxClaims, prior : 0..MaxClaims,
                                claim : {"none", "barred", "asking", "settled", "failed", "back"},
                                release : {"none", "waiting", "queued", "done", "failed"},
                                revoked : BOOLEAN, active : BOOLEAN, provisioned : BOOLEAN,
                                announced : BOOLEAN, inputs : 0..MaxInputs, sending : BOOLEAN]]]
  /\ view \in [Sessions -> [mode : {"idle", "expanded", "closed"}, suspended : BOOLEAN]]
  /\ line \in Seq(Calls)
  /\ ops \in Seq([op : {"claim", "release", "input", "act", "observe"}, by : Nat])
  /\ busy \in BOOLEAN
  /\ screen \in {"up", "down"}
  /\ held \in [epoch : 0..MaxClaims, keys : BOOLEAN]

ControlInit ==
  /\ desk = [pending |-> 0, webOwner |-> FALSE, authority |-> "idle",
             call |-> [c \in Calls |-> NewCall]]
  /\ web = [now |-> 0, last |-> 0, barrier |-> 0, ctl |-> [k \in Claims |-> NewController]]
  /\ view = [s \in Sessions |-> [mode |-> "idle", suspended |-> FALSE]]
  /\ line = <<>>
  /\ ops = <<>>
  /\ busy = FALSE
  /\ screen = "up"
  /\ held = [epoch |-> 0, keys |-> FALSE]

-----------------------------------------------------------------------------
(* Controllers (screenProjection.ts). Each operator returns the state of   *)
(* the controllers after one synchronous function.                         *)

ReleaseOver(k) == k \in Claims => web.ctl[k].release \in {"done", "failed"}
ReleaseFailed(k) == k \in Claims /\ web.ctl[k].release = "failed"

\* #revokeInput: at once no input of k is taken; its release waits for its activation and
\* for the release before it.
Revoked(w, k) ==
  IF k = 0 \/ w.ctl[k].revoked THEN w
  ELSE [w EXCEPT !.now = IF @ = k THEN 0 ELSE @,
                 !.barrier = k,
                 !.ctl[k] = [@ EXCEPT !.revoked = TRUE, !.active = FALSE, !.inputs = 0,
                                      !.release = "waiting", !.prior = w.barrier]]

\* #revokeInputFor
RevokedFor(w, s) == IF w.now # 0 /\ w.ctl[w.now].session = s THEN Revoked(w, w.now) ELSE w

\* #claimInput up to its first await: the newest viewer takes the place of the previous one.
Claimed(w, s, force) ==
  LET r == Revoked(w, w.now)
      k == w.last + 1
  IN [r EXCEPT !.now = k, !.last = k,
               !.ctl[k] = [NewController EXCEPT !.session = s, !.force = force,
                                                !.claim = "barred", !.after = r.barrier]]

-----------------------------------------------------------------------------
(* The broker (broker.ts). *)

\* Mutant: a viewer may claim while the Bot works.
CanAcceptAlways(d) == TRUE

\* canAcceptWebControl
CanAccept(d) == d.pending = 0 \/ d.call[d.pending].phase \in {"held", "waiting"}

\* The conditions of #claimInput.
MayClaim(d, w, v, s, force) ==
  /\ v[s].mode = "expanded"
  /\ force \/ CanAccept(d)
  /\ w.now = 0 \/ w.ctl[w.now].session # s
  /\ ~v[s].suspended

\* webControlClaimed
WebClaimed(d) ==
  IF d.pending = 0 THEN [d EXCEPT !.webOwner = TRUE, !.authority = "web"]
  ELSE LET p == d.pending IN
       IF d.call[p].phase = "waiting"
         THEN [d EXCEPT !.call[p].phase = "held", !.authority = "takeover"]
       ELSE IF d.call[p].phase \in {"held", "completing"}
         THEN [d EXCEPT !.authority = "takeover"]
       ELSE d

\* webControlReleased
WebReleased(d) ==
  LET p == d.pending
      phase == IF p = 0 THEN "settled" ELSE d.call[p].phase
      left == IF phase = "held" THEN [d EXCEPT !.call[p].phase = "waiting"] ELSE d
  IN [left EXCEPT !.webOwner = FALSE,
                  !.authority = CASE phase = "running" -> "agent"
                                  [] phase \in {"takeover-requested", "completing"} -> "takeover"
                                  [] OTHER -> "idle"]

\* Mutant: the completion of a call that is cancelled stays open.
RejectedHalf(t) == [t EXCEPT !.activated = IF @ = "open" THEN "no" ELSE @, !.stop = "done"]

Rejected(t) == [t EXCEPT !.activated = IF @ = "open" THEN "no" ELSE @,
                         !.completion = IF @ = "open" THEN "no" ELSE @,
                         !.stop = "done"]

Cancellable(d, c) == ~d.call[c].cancelled /\ d.call[c].phase # "settled"

\* #cancelPending up to its await: one that a human holds is first taken from the human.
Cancelled(d, c, k) ==
  IF ~Cancellable(d, c) THEN d
  ELSE LET t == [d.call[c] EXCEPT !.cancelled = TRUE, !.phase = "settled"] IN
       [d EXCEPT !.authority = "idle",
                 !.call[c] = IF d.call[c].phase \in Human
                             THEN [t EXCEPT !.stop = "revoking", !.stopGate = k]
                             ELSE Rejected(t)]

\* The last finally of agentToolAct.
Ended(d, c) ==
  LET e == [d EXCEPT !.call[c].at = "ended"]
  IN IF d.pending = c THEN [e EXCEPT !.pending = 0, !.authority = "idle"] ELSE e

\* revokeControl: every session of the Surface is suspended, the controller is revoked.
Suspended(v) == [s \in Sessions |-> [v[s] EXCEPT !.suspended = TRUE]]

\* A screen that fails or stops: the broker cancels its pending call (revoking if a human
\* holds it), then the projection closes every session.
Lost(d, w) ==
  /\ screen' = "down"
  /\ held' = [epoch |-> 0, keys |-> FALSE]
  /\ web' = Revoked(w, w.now)
  /\ view' = [s \in Sessions |-> [mode |-> "closed", suspended |-> view[s].suspended]]
  /\ desk' = IF d.pending = 0 THEN d ELSE Cancelled(d, d.pending, w.now)

-----------------------------------------------------------------------------
(* Continuations. *)

ClaimStartsReady(k) == web.ctl[k].claim = "barred" /\ ReleaseOver(web.ctl[k].after)
ClaimReturnsReady(k) == web.ctl[k].claim \in {"settled", "failed"}
ReleaseStartsReady(k) == /\ web.ctl[k].release = "waiting"
                         /\ web.ctl[k].claim \in {"settled", "failed", "back"}
                         /\ ReleaseOver(web.ctl[k].prior)
SendReady(k) == web.ctl[k].active /\ ~web.ctl[k].sending /\ web.ctl[k].inputs > 0
CallStartsReady(c) == line # <<>> /\ Head(line) = c /\ desk.call[c].at = "queued"
CallRevokedReadyEarly(c) == desk.call[c].at = "revoking"  \* Mutant: keys may still be down.
CallRevokedReady(c) == desk.call[c].at = "revoking" /\ ReleaseOver(desk.call[c].gate)
CallActivatedReady(c) == desk.call[c].at = "activating" /\ desk.call[c].activated # "open"
CallCompletedReady(c) == desk.call[c].at = "completing" /\ desk.call[c].completion # "open"
TakeOverReady(c) == desk.call[c].taking /\ desk.call[c].at \notin {"revoking", "acting"}
CancelRevertsReady(c) == desk.call[c].stop = "revoking" /\ ReleaseOver(desk.call[c].stopGate)
BackRevokedReady(c) == desk.call[c].back = "revoking" /\ ReleaseOver(desk.call[c].backGate)
RestoredReady(c) == desk.call[c].back = "restoring" /\ web.ctl[desk.call[c].backGate].claim = "back"

OperationReady == ops # <<>> /\ ~busy

Quiet ==
  /\ ~OperationReady
  /\ \A k \in Claims : ~(\/ ClaimStartsReady(k) \/ ClaimReturnsReady(k)
                         \/ ReleaseStartsReady(k) \/ SendReady(k))
  /\ \A c \in Calls : ~(\/ CallStartsReady(c) \/ CallRevokedReady(c) \/ CallActivatedReady(c)
                        \/ CallCompletedReady(c) \/ TakeOverReady(c) \/ CancelRevertsReady(c)
                        \/ BackRevokedReady(c) \/ RestoredReady(c))

\* #serialize: the next operation of the Surface starts once the one before it is over.
OperationStarts ==
  /\ OperationReady
  /\ busy' = TRUE
  /\ UNCHANGED <<desk, web, view, line, ops, screen, held>>

\* The start of a controller's activation: after the release barrier, unless it was revoked.
ClaimStarts(k) ==
  /\ ClaimStartsReady(k)
  /\ IF ReleaseFailed(web.ctl[k].after)
       THEN web' = [web EXCEPT !.ctl[k].claim = "failed"] /\ UNCHANGED ops
     ELSE IF web.ctl[k].revoked
       THEN web' = [web EXCEPT !.ctl[k].claim = "settled"] /\ UNCHANGED ops
     ELSE /\ web' = [web EXCEPT !.ctl[k].claim = "asking"]
          /\ ops' = Append(ops, [op |-> "claim", by |-> k])
  /\ UNCHANGED <<desk, view, line, busy, screen, held>>

\* The rest of #claimInput: a claim that failed, or came too late, is revoked.
ClaimReturns(k) ==
  /\ ClaimReturnsReady(k)
  /\ LET useless == ~web.ctl[k].active
                    /\ (web.ctl[k].claim = "failed" \/ web.ctl[k].provisioned)
         w == IF useless THEN Revoked(web, k) ELSE web
     IN web' = [w EXCEPT !.ctl[k].claim = "back"]
  /\ UNCHANGED <<desk, view, line, ops, busy, screen, held>>

\* The release of a revoked controller: the runtime is asked only if it knows the epoch.
ReleaseStarts(k) ==
  /\ ReleaseStartsReady(k)
  /\ IF web.ctl[k].provisioned
       THEN /\ web' = [web EXCEPT !.ctl[k].release = "queued"]
            /\ ops' = Append(ops, [op |-> "release", by |-> k])
       ELSE /\ web' = [web EXCEPT !.ctl[k].release = "done",
                                  !.barrier = IF @ = k THEN 0 ELSE @]
            /\ UNCHANGED ops
  /\ UNCHANGED <<desk, view, line, busy, screen, held>>

\* #drainInput hands the next queued input to the Surface's queue and awaits it.
SendInput(k) ==
  /\ SendReady(k)
  /\ web' = [web EXCEPT !.ctl[k].inputs = @ - 1, !.ctl[k].sending = TRUE]
  /\ ops' = Append(ops, [op |-> "input", by |-> k])
  /\ UNCHANGED <<desk, view, line, busy, screen, held>>

\* agentToolAct once the earlier calls of the Surface are over.
CallStarts(c) ==
  /\ CallStartsReady(c)
  /\ IF desk.call[c].aborted
       THEN /\ desk' = [desk EXCEPT !.call[c].at = "ended"]
            /\ line' = Tail(line)
            /\ UNCHANGED <<web, view>>
       ELSE /\ desk' = [desk EXCEPT !.pending = c, !.webOwner = FALSE, !.authority = "agent",
                                    !.call[c] = [@ EXCEPT !.at = "revoking", !.gate = web.now]]
            /\ web' = Revoked(web, web.now)
            /\ view' = Suspended(view)
            /\ UNCHANGED line
  /\ UNCHANGED <<ops, busy, screen, held>>

\* Web Control is revoked: the action is queued on the Surface, or the call fails.
CallRevoked(c) ==
  /\ CallRevokedReady(c)
  /\ IF ReleaseFailed(desk.call[c].gate) \/ desk.call[c].aborted
       THEN /\ desk' = Ended([desk EXCEPT !.call[c].failed = TRUE], c)
            /\ line' = Tail(line)
            /\ UNCHANGED ops
       ELSE /\ desk' = [desk EXCEPT !.call[c].at = "acting"]
            /\ ops' = Append(ops, [op |-> "act", by |-> c])
            /\ UNCHANGED line
  /\ UNCHANGED <<web, view, busy, screen, held>>

\* A call whose Takeover was requested meets its activation, or its cancellation.
CallActivated(c) ==
  /\ CallActivatedReady(c)
  /\ IF desk.call[c].activated = "no" \/ desk.call[c].cancelled
       THEN desk' = Ended(desk, c) /\ line' = Tail(line)
       ELSE desk' = [desk EXCEPT !.call[c].at = "completing"] /\ UNCHANGED line
  /\ UNCHANGED <<web, view, ops, busy, screen, held>>

\* A call that was taken over ends with the observation of imDone, or is cancelled.
CallCompleted(c) ==
  /\ CallCompletedReady(c)
  /\ desk' = Ended(desk, c)
  /\ line' = Tail(line)
  /\ UNCHANGED <<web, view, ops, busy, screen, held>>

\* takeOver after the action under way is over.
TakeOverContinues(c) ==
  /\ TakeOverReady(c)
  /\ LET t == desk.call[c]
         holds == desk.pending = c /\ ~t.cancelled /\ ~t.failed /\ t.phase = "takeover-requested"
         d == [desk EXCEPT !.call[c].taking = FALSE]
     IN desk' = IF holds
                THEN [d EXCEPT !.authority = "takeover", !.call[c].phase = "held",
                               !.call[c].activated = IF @ = "open" THEN "yes" ELSE @]
                ELSE d
  /\ UNCHANGED <<web, view, line, ops, busy, screen, held>>

\* #cancelPending after the controller is revoked: the call is released with an error.
CancelReverts(c) ==
  /\ CancelRevertsReady(c)
  /\ desk' = [desk EXCEPT !.call[c] = Rejected(@)]
  /\ UNCHANGED <<web, view, line, ops, busy, screen, held>>

\* The catch of imDone: a Takeover that was not cancelled goes back to some expanded session,
\* or waits for one (restoreControl).
BackFails(c, d) ==
  IF d.call[c].cancelled
    THEN /\ desk' = [d EXCEPT !.call[c].back = "no"]
         /\ UNCHANGED <<web, view>>
  ELSE LET open == {s \in Sessions : view[s].mode = "expanded"}
           able == {s \in open : web.now = 0 \/ web.ctl[web.now].session # s}
           completing == [d EXCEPT !.call[c].phase = "completing"]
           waits == [d EXCEPT !.call[c].phase = "waiting", !.call[c].back = "no",
                              !.authority = "idle"]
       IN IF open = {}
            THEN desk' = waits /\ UNCHANGED <<web, view>>
          ELSE \E s \in open :
                 IF s \in able
                   THEN /\ web' = Claimed(web, s, TRUE)
                        /\ view' = [view EXCEPT ![s].suspended = FALSE]
                        /\ desk' = [completing EXCEPT !.call[c].back = "restoring",
                                                      !.call[c].backGate = web.last + 1]
                   ELSE /\ view' = [view EXCEPT ![s].suspended = TRUE]
                        /\ desk' = waits
                        /\ UNCHANGED web

\* imDone after Web Control is revoked: the Screen is observed.
BackRevoked(c) ==
  /\ BackRevokedReady(c)
  /\ IF ReleaseFailed(desk.call[c].backGate) \/ desk.call[c].cancelled
       THEN BackFails(c, desk) /\ UNCHANGED ops
       ELSE /\ desk' = [desk EXCEPT !.call[c].back = "observing"]
            /\ ops' = Append(ops, [op |-> "observe", by |-> c])
            /\ UNCHANGED <<web, view>>
  /\ UNCHANGED <<line, busy, screen, held>>

\* imDone after restoreControl: back with the human, or waiting for a viewer.
Restored(c) ==
  /\ RestoredReady(c)
  /\ LET k == desk.call[c].backGate
         d == [desk EXCEPT !.call[c].back = "no"]
     IN IF web.ctl[k].active
          THEN /\ desk' = [d EXCEPT !.call[c].phase = "held", !.authority = "takeover"]
               /\ UNCHANGED view
          ELSE /\ desk' = [d EXCEPT !.call[c].phase = "waiting", !.authority = "idle"]
               /\ view' = [view EXCEPT ![web.ctl[k].session].suspended = TRUE]
  /\ UNCHANGED <<web, line, ops, busy, screen, held>>

-----------------------------------------------------------------------------
(* Requests and events from outside. *)

\* Bound: a claim is left for every imDone in flight, which may restore one.
RoomForClaim == web.last + Cardinality({c \in Calls : desk.call[c].back # "no"}) < MaxClaims

\* #setMode: leaving the expanded view revokes, entering it claims. A session that asks again
\* for the mode it has claims again if it lost the control.
SetMode(s, mode) ==
  /\ Quiet
  /\ view[s].mode # "closed"
  /\ LET v == [view EXCEPT ![s] = [mode |-> mode, suspended |-> FALSE]]
         w == IF view[s].mode = "expanded" /\ mode # "expanded" THEN RevokedFor(web, s) ELSE web
         claims == MayClaim(desk, w, v, s, FALSE)
     IN /\ claims => RoomForClaim
        /\ view' = v
        /\ web' = IF claims THEN Claimed(w, s, FALSE) ELSE w
  /\ UNCHANGED <<desk, line, ops, busy, screen, held>>

\* #close: the client leaves, breaks the protocol or sends input it has no authority for.
CloseSession(s) ==
  /\ Quiet
  /\ view[s].mode # "closed"
  /\ view' = [view EXCEPT ![s].mode = "closed"]
  /\ web' = RevokedFor(web, s)
  /\ UNCHANGED <<desk, line, ops, busy, screen, held>>

\* #input from the controller: queued, unless the broker does not accept Web Control.
Input(k) ==
  /\ Quiet
  /\ web.ctl[k].active
  /\ web.ctl[k].inputs < MaxInputs
  /\ web' = IF CanAccept(desk) THEN [web EXCEPT !.ctl[k].inputs = @ + 1] ELSE Revoked(web, k)
  /\ UNCHANGED <<desk, view, line, ops, busy, screen, held>>

\* #input of a release-control message.
ReleaseControl(k) ==
  /\ Quiet
  /\ web.ctl[k].active
  /\ web' = Revoked(web, k)
  /\ UNCHANGED <<desk, view, line, ops, busy, screen, held>>

\* agentToolAct: #serializeSurfaceOperation puts the call behind the earlier ones.
AgentToolAct(c) ==
  /\ Quiet
  /\ desk.call[c].at = "none"
  /\ \A e \in Calls : e < c => desk.call[e].at # "none"
  /\ desk' = [desk EXCEPT !.call[c].at = "queued"]
  /\ line' = Append(line, c)
  /\ UNCHANGED <<web, view, ops, busy, screen, held>>

\* The signal of a call is aborted; its listener exists only while the call works.
Abort(c) ==
  /\ Quiet
  /\ desk.call[c].at \notin {"none", "ended"} /\ ~desk.call[c].aborted
  /\ LET d == [desk EXCEPT !.call[c].aborted = TRUE]
         cancels == desk.call[c].at # "queued"
         revokes == cancels /\ Cancellable(desk, c) /\ desk.call[c].phase \in Human
     IN /\ desk' = IF cancels THEN Cancelled(d, c, web.now) ELSE d
        /\ web' = IF revokes THEN Revoked(web, web.now) ELSE web
        /\ view' = IF revokes THEN Suspended(view) ELSE view
  /\ UNCHANGED <<line, ops, busy, screen, held>>

\* takeOver up to the end of the action under way.
TakeOver(c) ==
  /\ Quiet
  /\ desk.pending = c /\ desk.call[c].phase \in {"running", "takeover-requested"}
  /\ ~desk.call[c].taking
  /\ desk' = [desk EXCEPT !.authority = "takeover",
                          !.call[c].phase = "takeover-requested", !.call[c].taking = TRUE]
  /\ UNCHANGED <<web, view, line, ops, busy, screen, held>>

\* imDone: the human is done; Web Control is revoked first.
ImDone(c) ==
  /\ Quiet
  /\ desk.pending = c /\ desk.call[c].phase = "held" /\ desk.call[c].back = "no"
  /\ RoomForClaim
  /\ desk' = [desk EXCEPT !.call[c].phase = "completing", !.call[c].back = "revoking",
                          !.call[c].backGate = web.now]
  /\ web' = Revoked(web, web.now)
  /\ view' = Suspended(view)
  /\ UNCHANGED <<line, ops, busy, screen, held>>

\* Bun writes the image of a result to disk: #recordActionResult, of a call and of imDone.
Recorded(c) ==
  /\ Quiet
  /\ \/ /\ desk.call[c].at = "recording"
        /\ desk' = Ended(desk, c)
        /\ line' = Tail(line)
        /\ UNCHANGED <<web, view>>
     \/ /\ desk.call[c].back = "recording"
        /\ \/ BackFails(c, desk)
           \/ /\ ~desk.call[c].cancelled
              /\ desk' = [desk EXCEPT !.authority = "idle",
                                      !.call[c].phase = "settled", !.call[c].back = "no",
                                      !.call[c].completion = IF @ = "open" THEN "yes" ELSE @]
              /\ UNCHANGED <<web, view>>
        /\ UNCHANGED line
  /\ UNCHANGED <<ops, busy, screen, held>>

-----------------------------------------------------------------------------
(* The Surface's queue: its head ends. The model follows one runtime of the Screen, so that once it *)
(* is down every operation fails. In the code an action of a Bot opens a failed or stopped Screen   *)
(* again (#readyRuntime), as a new generation, which BotScreens models and which no viewer,         *)
(* controller or held key of this one reaches.                                                      *)

Runs(op, by) == Quiet /\ busy /\ Head(ops) = [op |-> op, by |-> by]
OperationOver == ops' = Tail(ops) /\ busy' = FALSE

\* setInputAuthority and the activation that awaits it; an error fails the Screen (#invoke).
ClaimEnds(k) ==
  /\ Runs("claim", k)
  /\ OperationOver
  /\ LET answered == [web EXCEPT !.ctl[k].claim = "settled", !.ctl[k].provisioned = TRUE]
         failed == [web EXCEPT !.ctl[k].claim = "failed"]
         takes == ~web.ctl[k].revoked /\ (web.ctl[k].force \/ CanAccept(desk))
     IN \/ /\ screen = "up"
           /\ held' = [epoch |-> k, keys |-> FALSE]
           /\ web' = IF takes
                     THEN [answered EXCEPT !.ctl[k].active = TRUE, !.ctl[k].announced = TRUE]
                     ELSE answered
           /\ desk' = IF takes THEN WebClaimed(desk) ELSE desk
           /\ UNCHANGED <<view, screen>>
        \/ screen = "up" /\ Lost(desk, failed)
        \/ /\ screen = "down"
           /\ web' = failed
           /\ UNCHANGED <<desk, view, screen, held>>
  /\ UNCHANGED line

\* releaseInput and the finally after it. The helper refuses an epoch it does not hold.
ReleaseEnds(k) ==
  /\ Runs("release", k)
  /\ OperationOver
  /\ \E outcome \in {"done", "failed"} :
       /\ outcome = "done" => screen = "up" /\ held.epoch = k
       /\ web' = [web EXCEPT !.ctl[k].release = outcome, !.ctl[k].announced = FALSE,
                             !.barrier = IF @ = k THEN 0 ELSE @]
       /\ held' = IF held.epoch = k THEN [epoch |-> 0, keys |-> FALSE] ELSE held
  /\ desk' = IF web.ctl[k].announced THEN WebReleased(desk) ELSE desk
  /\ UNCHANGED <<view, line, screen>>

\* runtime.input: refused if the helper obeys another epoch, which fails the session; another
\* error fails the Screen too.
InputEnds(k) ==
  /\ Runs("input", k)
  /\ OperationOver
  /\ LET sent == [web EXCEPT !.ctl[k].sending = FALSE]
         s == web.ctl[k].session
     IN \/ /\ screen = "up" /\ held.epoch = k
           /\ \E keys \in BOOLEAN : held' = [epoch |-> k, keys |-> keys]
           /\ web' = sent
           /\ UNCHANGED <<desk, view, screen>>
        \/ /\ web' = RevokedFor(sent, s)
           /\ view' = [view EXCEPT ![s].mode = "closed", ![s].suspended = TRUE]
           /\ UNCHANGED <<desk, screen, held>>
        \/ screen = "up" /\ Lost(desk, sent)
  /\ UNCHANGED line

\* runtime.act for a call, and what agentToolAct does with its result before it next awaits.
ActEnds(c) ==
  /\ Runs("act", c)
  /\ OperationOver
  /\ \E ok \in BOOLEAN, touches \in BOOLEAN :
       /\ ok => screen = "up"
       /\ held' = IF touches THEN [epoch |-> 0, keys |-> FALSE] ELSE held
       /\ LET t == desk.call[c] IN
          IF ~ok \/ t.aborted
            THEN /\ desk' = Ended([desk EXCEPT !.call[c].failed = TRUE], c)
                 /\ line' = Tail(line)
          ELSE IF t.phase = "running"
            THEN /\ desk' = [desk EXCEPT !.authority = "idle", !.call[c].phase = "settled",
                                         !.call[c].at = "recording"]
                 /\ UNCHANGED line
          ELSE IF t.phase = "takeover-requested"
            THEN /\ desk' = [desk EXCEPT !.call[c].at = "activating"]
                 /\ UNCHANGED line
          ELSE /\ desk' = Ended(desk, c)
               /\ line' = Tail(line)
  /\ UNCHANGED <<web, view, screen>>

\* The observation of imDone.
ObserveEnds(c) ==
  /\ Runs("observe", c)
  /\ OperationOver
  /\ \/ /\ screen = "up" /\ ~desk.call[c].cancelled
        /\ desk' = [desk EXCEPT !.call[c].back = "recording"]
        /\ UNCHANGED <<web, view>>
     \/ BackFails(c, desk)
  /\ UNCHANGED <<line, screen, held>>

\* A process of the Screen exits, or the Screen is stopped.
ScreenLost == /\ Quiet /\ screen = "up"
              /\ Lost(desk, web)
              /\ UNCHANGED <<line, ops, busy>>

-----------------------------------------------------------------------------
Continue == \/ OperationStarts
            \/ \E k \in Claims : \/ ClaimStarts(k) \/ ClaimReturns(k)
                                 \/ ReleaseStarts(k) \/ SendInput(k)
            \/ \E c \in Calls : \/ CallStarts(c) \/ CallRevoked(c) \/ CallActivated(c)
                                \/ CallCompleted(c) \/ TakeOverContinues(c) \/ CancelReverts(c)
                                \/ BackRevoked(c) \/ Restored(c)

OperationEnds == \/ \E k \in Claims : ClaimEnds(k) \/ ReleaseEnds(k) \/ InputEnds(k)
                 \/ \E c \in Calls : ActEnds(c) \/ ObserveEnds(c)

Request == \/ \E s \in Sessions : \/ \E mode \in {"idle", "expanded"} : SetMode(s, mode)
                                  \/ CloseSession(s)
           \/ \E k \in Claims : Input(k) \/ ReleaseControl(k)
           \/ \E c \in Calls : AgentToolAct(c) \/ Abort(c) \/ TakeOver(c) \/ ImDone(c)
           \/ ScreenLost

ControlNext == Continue \/ OperationEnds \/ (\E c \in Calls : Recorded(c)) \/ Request

ControlSpec == ControlInit /\ [][ControlNext]_controlVars

\* Continuations run, operations of the adapter end (they are bounded by timers), files are
\* written. Nothing is assumed of users, Agents or Screens.
ControlFairSpec == /\ ControlSpec
                   /\ WF_controlVars(Continue)
                   /\ WF_controlVars(OperationEnds)
                   /\ WF_controlVars(\E c \in Calls : Recorded(c))

-----------------------------------------------------------------------------
(* Properties. *)

Acting == screen = "up" /\ busy /\ Head(ops).op = "act"
Typing == screen = "up" /\ (held.keys \/ (busy /\ Head(ops).op = "input"))

\* At most one hand is on the Screen, and it changes hands only after a release: no action of
\* the Bot runs while an input of a human, or a key it left down, is on the Screen.
OneHandOnScreen == INSTANCE OneHand
                   WITH hands <- {h \in {"agent", "human"} :
                                    IF h = "agent" THEN Acting ELSE Typing}
HandsOff == OneHandOnScreen!Spec

\* state(): what the web client shows of the Screen.
Takeover == IF desk.pending = 0 THEN "unavailable"
            ELSE LET phase == desk.call[desk.pending].phase IN
                 CASE phase \in Human -> "active"
                   [] phase \in {"running", "takeover-requested"} -> "available"
                   [] OTHER -> "unavailable"
ScreenUse == IF \/ desk.webOwner
                \/ desk.pending # 0 /\ desk.call[desk.pending].phase \in {"held", "completing"}
             THEN "human"
             ELSE IF Takeover = "available" THEN "bot" ELSE "idle"

\* A viewer that may type is shown as the human in control, and with the authority of one:
\* the broker, the projection and the record of the authority agree, whatever is under way.
ControlIsShown ==
  /\ ControlTypeOK
  /\ \A k \in Claims : web.ctl[k].active =>
       ScreenUse = "human" /\ desk.authority \in {"web", "takeover"}

\* A call that was cancelled ends, whatever the humans and the Screen do.
CancelledCallsEnd == \A c \in Calls : desk.call[c].cancelled ~> desk.call[c].at = "ended"
=============================================================================
