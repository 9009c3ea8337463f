---------------------------- MODULE ControlProofs ----------------------------
(* Who controls one Bot Screen (ComputerControl), proved for any number of    *)
(* viewers, calls, claims and queued inputs: the broker, the projection and   *)
(* the queue of the Surface agree on the human in control, and keep the hands *)
(* of the Bot and of a human apart (OneHand).  At the end, who has the input  *)
(* seat all Screens share (InputSeat), for any number of them.                *)
EXTENDS ComputerControl, InputSeat, FiniteSetTheorems, TLAPS
-----------------------------------------------------------------------------
\* Control of one Screen. What a step makes of the broker's record d, of the controllers w,
\* of the line l of calls and of the queue o of the Surface is stated for any four of them.
CallRec == [at : {"none", "queued", "revoking", "acting", "recording",
                  "activating", "completing", "ended"},
            phase : Phases, aborted : BOOLEAN, cancelled : BOOLEAN,
            failed : BOOLEAN, taking : BOOLEAN,
            activated : {"open", "yes", "no"},
            completion : {"open", "yes", "no"},
            gate : 0..MaxClaims,
            back : {"no", "revoking", "observing", "recording", "restoring"},
            backGate : 0..MaxClaims,
            stop : {"no", "revoking", "done"}, stopGate : 0..MaxClaims]
DeskRec == [pending : 0..MaxCalls, webOwner : BOOLEAN,
            authority : {"idle", "agent", "web", "takeover"}, call : [Calls -> CallRec]]
CtlRec == [session : Sessions \cup {Nobody}, force : BOOLEAN,
           after : 0..MaxClaims, prior : 0..MaxClaims,
           claim : {"none", "barred", "asking", "settled", "failed", "back"},
           release : {"none", "waiting", "queued", "done", "failed"},
           revoked : BOOLEAN, active : BOOLEAN, provisioned : BOOLEAN,
           announced : BOOLEAN, inputs : 0..MaxInputs, sending : BOOLEAN]
WebRec == [now : 0..MaxClaims, last : 0..MaxClaims, barrier : 0..MaxClaims,
           ctl : [Claims -> CtlRec]]
OpRec == [op : {"claim", "release", "input", "act", "observe"}, by : Nat]

\* Only the newest claim may be unrevoked, and it is then the one of now.
Newest(w) ==
  /\ w.now \in {0, w.last} /\ w.barrier <= w.last /\ (w.barrier = w.now => w.now = 0)
  /\ \A k \in Claims :
       /\ w.ctl[k].claim = "none" <=> k > w.last
       /\ k <= w.last => (w.ctl[k].revoked <=> k # w.now)
       /\ k > w.last => ~w.ctl[k].revoked /\ ~w.ctl[k].active /\ ~w.ctl[k].sending
       /\ w.ctl[k].revoked <=> w.ctl[k].release # "none"
       /\ w.ctl[k].active => ~w.ctl[k].revoked /\ w.ctl[k].claim \notin {"none", "barred"}

\* Releases follow each other: what a controller waits for covers every release owed before.
Owes(w, k) == w.ctl[k].release \in {"waiting", "queued"}
InOrder(w) ==
  /\ \A j \in Claims : Owes(w, j) => j <= w.barrier
  /\ \A i, j \in Claims : j < i /\ Owes(w, j) =>
       /\ w.ctl[i].revoked => j <= w.ctl[i].prior
       /\ i <= w.last => j <= w.ctl[i].after
       /\ w.ctl[i].release \notin {"queued", "done", "failed"}
       /\ w.ctl[i].claim \in {"none", "barred"}
  /\ \A i \in Claims :
       /\ w.ctl[i].prior < i /\ w.ctl[i].after < i
       /\ w.ctl[i].release \in {"queued", "done", "failed"} =>
            w.ctl[i].claim \in {"settled", "failed", "back"}

\* The broker's pending call is the one at work, the head of the line.
Working == {"revoking", "acting", "recording", "activating", "completing"}
PendingWorks(d, l) ==
  /\ d.pending # 0 => l # <<>> /\ Head(l) = d.pending
  /\ \A c \in Calls : d.call[c].at \in Working <=> d.pending = c

\* A call that a human has, or is giving back, waits for it and stays pending unless it is
\* cancelled; a cancelled call is being released.
GivingBack == {"revoking", "observing", "recording"}
Gone(w, k) == k # 0 => k <= w.last /\ w.ctl[k].revoked
CallFits(d, w, c) ==
  LET t == d.call[c] IN
    /\ t.phase \in Human \/ t.back # "no" => t.at \in {"activating", "completing", "ended"}
    /\ (t.phase \in Human \/ t.back # "no") /\ ~t.cancelled => d.pending = c /\ t.completion = "open"
    /\ t.back # "no" /\ ~t.cancelled => t.phase = "completing"
    /\ t.back \in GivingBack /\ ~t.cancelled => w.now = 0 /\ w.last < MaxClaims
    /\ t.back = "restoring" => /\ t.backGate \in 1..w.last
                               /\ t.cancelled => w.ctl[t.backGate].revoked
    /\ ~t.cancelled => t.stop = "no" /\ t.activated # "no" /\ t.completion # "no"
    /\ t.at = "recording" \/ (~t.cancelled /\ t.completion # "open") => t.phase = "settled"
    /\ t.cancelled => t.stop # "no"
    /\ t.stop = "done" => t.activated # "open" /\ t.completion # "open"
    /\ t.stop = "revoking" => Gone(w, t.stopGate)
CallsFit(d, w) == \A c \in Calls : CallFits(d, w, c)

\* A claim made by imDone restores the pending call, and whoever is active then holds it.
ForcedRestores(d, w) ==
  \A k \in Claims :
    /\ w.ctl[k].force /\ w.now = k /\ w.ctl[k].claim \in {"barred", "asking"} =>
         /\ d.pending # 0 /\ ~d.call[d.pending].cancelled
         /\ d.call[d.pending].back = "restoring" /\ d.call[d.pending].backGate = k
    /\ w.ctl[k].active => \A c \in Calls : d.call[c].back = "restoring" =>
                                             d.call[c].backGate = k /\ ~d.call[c].cancelled

\* Where the human in control is recorded.
HumanIsRecorded(d) ==
  IF d.pending = 0 THEN d.webOwner /\ d.authority = "web"
  ELSE /\ d.call[d.pending].phase \in {"held", "completing"}
       /\ ~d.call[d.pending].cancelled
       /\ d.authority = "takeover"
ActiveIsRecorded(d, w) == \A k \in Claims : w.ctl[k].active => HumanIsRecorded(d)

\* What is queued at the Screen is awaited by the one who queued it, once.
OpIsAwaited(x, d, w) ==
  CASE x.op = "claim" -> x.by \in Claims /\ w.ctl[x.by].claim = "asking"
    [] x.op = "release" -> x.by \in Claims /\ w.ctl[x.by].release = "queued"
    [] x.op = "act" -> x.by \in Calls /\ d.call[x.by].at = "acting"
    [] x.op = "observe" -> x.by \in Calls /\ d.call[x.by].back = "observing"
    [] x.op = "input" -> x.by \in Claims /\ w.ctl[x.by].sending
OpsAreAwaited(o, d, w) ==
  /\ \A i \in DOMAIN o : OpIsAwaited(o[i], d, w)
  /\ \A i, j \in DOMAIN o : o[i] = o[j] => i = j

Fits(d, w, l, o) ==
  /\ d \in DeskRec /\ w \in WebRec /\ l \in Seq(Calls) /\ o \in Seq(OpRec)
  /\ Newest(w) /\ InOrder(w) /\ PendingWorks(d, l) /\ CallsFit(d, w)
  /\ ForcedRestores(d, w) /\ ActiveIsRecorded(d, w) /\ OpsAreAwaited(o, d, w)

RestTyped ==
  /\ view \in [Sessions -> [mode : {"idle", "expanded", "closed"}, suspended : BOOLEAN]]
  /\ busy \in BOOLEAN
  /\ screen \in {"up", "down"}
  /\ held \in [epoch : 0..MaxClaims, keys : BOOLEAN]

ControlIInv == Fits(desk, web, line, ops) /\ RestTyped

-----------------------------------------------------------------------------
\* A step whose new values fit keeps the invariant.
LEMMA ControlPrimed ==
  ASSUME NEW d, NEW w, NEW l, NEW o, d = desk', w = web', l = line', o = ops', Fits(d, w, l, o),
         RestTyped'
  PROVE  ControlIInv'
<1>1. Fits(desk', web', line', ops') OBVIOUS
<1> QED BY <1>1 DEF ControlIInv, Fits, Newest, InOrder, Owes, PendingWorks, CallsFit, CallFits, Gone,
           ForcedRestores, ActiveIsRecorded, HumanIsRecorded, OpsAreAwaited, OpIsAwaited

\* The invariant holds every record within its type.
LEMMA ControlIsTyped == ControlIInv => ControlTypeOK
BY DEF ControlIInv, Fits, RestTyped, ControlTypeOK, DeskRec, CallRec, WebRec, CtlRec, OpRec

\* Controllers change less than by a claim or an answer: some are revoked, no more.
Revoking(w, r) ==
  /\ r.last = w.last /\ r.now \in {0, w.now}
  /\ \A k \in Claims :
       /\ r.ctl[k].claim = w.ctl[k].claim /\ r.ctl[k].force = w.ctl[k].force
       /\ r.ctl[k].sending = w.ctl[k].sending /\ r.ctl[k].session = w.ctl[k].session
       /\ w.ctl[k].revoked => r.ctl[k].revoked
       /\ r.ctl[k].active => w.ctl[k].active
       /\ w.ctl[k].release # "none" => r.ctl[k].release = w.ctl[k].release

\* What revoking a controller leaves: no newer one, and its release behind every earlier one.
LEMMA RevokedIs ==
  ASSUME ControlAssumption, NEW w \in WebRec, Newest(w), InOrder(w), NEW k \in 0..w.last
  PROVE  LET r == Revoked(w, k) IN
         /\ r \in WebRec /\ Newest(r) /\ InOrder(r) /\ Revoking(w, r)
         /\ k = w.now => r.now = 0 /\ \A j \in Claims : ~r.ctl[j].active
         /\ k # 0 => r.ctl[k].revoked
<1>0. /\ MaxClaims \in Nat \ {0} /\ w.last \in 0..MaxClaims /\ w.now \in 0..MaxClaims
      /\ w.barrier \in 0..MaxClaims /\ w.ctl \in [Claims -> CtlRec]
      /\ Claims = 1..MaxClaims
  BY DEF ControlAssumption, WebRec, Claims
<1> DEFINE r == Revoked(w, k)
<1>1. CASE k = 0 \/ w.ctl[k].revoked
  <2>1. Revoked(w, k) = w BY <1>1 DEF Revoked
  <2>2. Revoking(w, w) BY DEF Revoking
  <2>3. k = w.now => w.now = 0 /\ \A j \in Claims : ~w.ctl[j].active
    BY <1>0, <1>1 DEF Newest
  <2>4. k # 0 => w.ctl[k].revoked BY <1>1
  <2> QED BY <2>1, <2>2, <2>3, <2>4
<1>2. CASE k # 0 /\ ~w.ctl[k].revoked
  <2> DEFINE c == [w.ctl[k] EXCEPT !.revoked = TRUE, !.active = FALSE, !.inputs = 0,
                                   !.release = "waiting", !.prior = w.barrier]
  <2>1. k \in Claims /\ k = w.now /\ k = w.last /\ w.ctl[k] \in CtlRec
    BY <1>0, <1>2 DEF Newest
  <2>2. r = [w EXCEPT !.now = 0, !.barrier = k, !.ctl = [w.ctl EXCEPT ![k] = c]]
    BY <1>2, <2>1 DEF Revoked, WebRec
  <2>3. /\ c \in CtlRec /\ c.revoked /\ ~c.active /\ c.release = "waiting" /\ c.prior = w.barrier
        /\ c.claim = w.ctl[k].claim /\ c.force = w.ctl[k].force /\ c.sending = w.ctl[k].sending
        /\ c.session = w.ctl[k].session /\ c.after = w.ctl[k].after
    <3>1. 0 \in 0..MaxInputs BY ControlAssumption DEF ControlAssumption
    <3>2. /\ c.revoked /\ ~c.active /\ c.release = "waiting" /\ c.prior = w.barrier
          /\ c.claim = w.ctl[k].claim /\ c.force = w.ctl[k].force /\ c.sending = w.ctl[k].sending
          /\ c.session = w.ctl[k].session /\ c.after = w.ctl[k].after
      BY <2>1 DEF CtlRec
    <3>3. c \in CtlRec BY <1>0, <2>1, <3>1 DEF CtlRec
    <3> HIDE DEF c
    <3> QED BY <3>2, <3>3
  <2> HIDE DEF c, r
  <2>4. r = [now |-> 0, last |-> w.last, barrier |-> k, ctl |-> [w.ctl EXCEPT ![k] = c]]
    BY <2>2 DEF WebRec
  <2>5. /\ r.now = 0 /\ r.last = w.last /\ r.barrier = k /\ r.ctl \in [Claims -> CtlRec]
        /\ r.ctl[k] = c /\ \A j \in Claims : j # k => r.ctl[j] = w.ctl[j]
    BY <1>0, <2>1, <2>3, <2>4
  <2>6. r \in WebRec BY <1>0, <2>1, <2>4, <2>5 DEF WebRec
  <2>7. Newest(r) BY <1>0, <1>2, <2>1, <2>3, <2>5 DEF Newest
  <2>8. InOrder(r)
    <3>0. \A j \in Claims : w.ctl[j].prior \in Nat /\ w.ctl[j].after \in Nat /\ j \in Nat /\ w.barrier \in Nat
      <4>1. \A x \in 0..MaxClaims : x \in Nat BY <1>0
      <4>2. \A j \in Claims : w.ctl[j] \in CtlRec BY <1>0
      <4>3. \A j \in Claims : w.ctl[j].prior \in 0..MaxClaims /\ w.ctl[j].after \in 0..MaxClaims
        BY <4>2 DEF CtlRec
      <4> QED BY <1>0, <4>1, <4>3
    <3>1. ~Owes(w, k) /\ w.ctl[k].release = "none" BY <1>2, <2>1 DEF Newest, Owes
    <3>2. \A j \in Claims : Owes(r, j) => j <= k
      <4> SUFFICES ASSUME NEW j \in Claims, Owes(r, j), j # k PROVE j <= k OBVIOUS
      <4>1. Owes(w, j) BY <2>5 DEF Owes
      <4> QED BY <1>0, <2>1, <3>0, <4>1 DEF InOrder, Newest
    <3>3. ASSUME NEW i \in Claims, NEW j \in Claims, j < i, Owes(r, j)
          PROVE  /\ r.ctl[i].revoked => j <= r.ctl[i].prior
                 /\ i <= r.last => j <= r.ctl[i].after
                 /\ r.ctl[i].release \notin {"queued", "done", "failed"}
                 /\ r.ctl[i].claim \in {"none", "barred"}
      <4>1. CASE j = k
        <5>1. i > w.last /\ i # k BY <2>1, <3>0, <3>3, <4>1
        <5>2. /\ ~w.ctl[i].revoked /\ w.ctl[i].release = "none" /\ w.ctl[i].claim = "none"
          BY <5>1 DEF Newest
        <5>3. ~(i <= r.last) BY <2>5, <3>0, <5>1, <1>0
        <5> QED BY <2>5, <5>1, <5>2, <5>3
      <4>2. CASE j # k
        <5>1. Owes(w, j) BY <2>5, <3>3, <4>2 DEF Owes
        <5>2. /\ w.ctl[i].revoked => j <= w.ctl[i].prior
              /\ i <= w.last => j <= w.ctl[i].after
              /\ w.ctl[i].release \notin {"queued", "done", "failed"}
              /\ w.ctl[i].claim \in {"none", "barred"}
          BY <3>3, <5>1 DEF InOrder
        <5>3. j <= w.barrier BY <5>1 DEF InOrder
        <5> QED BY <2>3, <2>5, <5>2, <5>3
      <4> QED BY <4>1, <4>2
    <3>4. ASSUME NEW i \in Claims
          PROVE  /\ r.ctl[i].prior < i /\ r.ctl[i].after < i
                 /\ r.ctl[i].release \in {"queued", "done", "failed"} =>
                      r.ctl[i].claim \in {"settled", "failed", "back"}
      <4>1. CASE i = k
        <5>1. w.barrier # k
          BY <1>0, <2>1 DEF Newest
        <5> QED BY <1>0, <2>1, <2>3, <2>5, <3>0, <4>1, <5>1 DEF InOrder, Newest
      <4>2. CASE i # k
        BY <2>5, <4>2 DEF InOrder
      <4> QED BY <4>1, <4>2
    <3> QED BY <2>5, <3>2, <3>3, <3>4 DEF InOrder
  <2>9. Revoking(w, r)
    BY <2>1, <2>3, <2>5, <1>2 DEF Revoking, Newest
  <2>10. \A j \in Claims : ~r.ctl[j].active
    BY <1>0, <1>2, <2>1, <2>3, <2>5 DEF Newest
  <2> QED BY <2>3, <2>5, <2>6, <2>7, <2>8, <2>9, <2>10 DEF r
<1> QED BY <1>1, <1>2
\* Nobody but the revoked is affected by a revocation.
LEMMA RevokingFits ==
  ASSUME NEW d, NEW w, NEW l, NEW o, NEW r, ControlAssumption, Fits(d, w, l, o),
         r \in WebRec, Newest(r), InOrder(r), Revoking(w, r)
  PROVE  Fits(d, r, l, o)
<1>0. /\ d \in DeskRec /\ w \in WebRec /\ l \in Seq(Calls) /\ o \in Seq(OpRec)
      /\ Newest(w) /\ PendingWorks(d, l) /\ CallsFit(d, w)
      /\ ForcedRestores(d, w) /\ ActiveIsRecorded(d, w) /\ OpsAreAwaited(o, d, w)
  BY DEF Fits
<1>1. CallsFit(d, r)
  <2> SUFFICES ASSUME NEW c \in Calls PROVE CallFits(d, r, c) BY DEF CallsFit
  <2>1. CallFits(d, w, c) BY <1>0 DEF CallsFit
  <2>2. d.call[c].stopGate \in 0..MaxClaims /\ d.call[c].backGate \in 0..MaxClaims
        /\ w.last \in 0..MaxClaims /\ MaxClaims \in Nat
    BY <1>0 DEF DeskRec, CallRec, ControlAssumption, WebRec
  <2>3. \A k \in 1..w.last : k \in Claims BY <2>2 DEF Claims
  <2>4. r.last = w.last /\ (w.now = 0 => r.now = 0)
        /\ \A k \in Claims : w.ctl[k].revoked => r.ctl[k].revoked
    BY DEF Revoking
  <2>5. Gone(w, d.call[c].stopGate) => Gone(r, d.call[c].stopGate)
    BY <2>2, <2>4 DEF Gone, Claims
  <2> QED BY <2>1, <2>3, <2>4, <2>5 DEF CallFits
<1>2. ForcedRestores(d, r)
  BY <1>0 DEF ForcedRestores, Revoking, Newest, Claims, ControlAssumption
<1>3. ActiveIsRecorded(d, r) BY <1>0 DEF ActiveIsRecorded, Revoking
<1>4. OpsAreAwaited(o, d, r)
  <2> SUFFICES ASSUME NEW i \in DOMAIN o PROVE OpIsAwaited(o[i], d, r)
    BY <1>0 DEF OpsAreAwaited
  <2>1. OpIsAwaited(o[i], d, w) /\ o[i] \in OpRec BY <1>0 DEF OpsAreAwaited
  <2>2. o[i].op \in {"claim", "release", "input", "act", "observe"} BY <2>1 DEF OpRec
  <2>3. \A k \in Claims : w.ctl[k].release = "queued" => r.ctl[k].release = "queued"
    BY DEF Revoking
  <2>4. \A k \in Claims : w.ctl[k].sending = r.ctl[k].sending /\ w.ctl[k].claim = r.ctl[k].claim
    BY DEF Revoking
  <2> QED BY <2>1, <2>2, <2>3, <2>4 DEF OpIsAwaited
<1> QED BY <1>0, <1>1, <1>2, <1>3, <1>4 DEF Fits

\* Revoking a controller, as the code does it.
LEMMA RevokedFits ==
  ASSUME NEW d, NEW w, NEW l, NEW o, ControlAssumption, Fits(d, w, l, o), NEW k \in 0..w.last
  PROVE  LET r == Revoked(w, k) IN
         /\ Fits(d, r, l, o) /\ Revoking(w, r) /\ r.last = w.last
         /\ k = w.now => r.now = 0 /\ \A j \in Claims : ~r.ctl[j].active
         /\ Gone(r, k)
<1> DEFINE r == Revoked(w, k)
<1>0. w \in WebRec /\ Newest(w) /\ InOrder(w) BY DEF Fits
<1>1. /\ r \in WebRec /\ Newest(r) /\ InOrder(r) /\ Revoking(w, r)
      /\ k = w.now => r.now = 0 /\ \A j \in Claims : ~r.ctl[j].active
      /\ k # 0 => r.ctl[k].revoked
  BY <1>0, RevokedIs
<1> HIDE DEF r
<1>2. Fits(d, r, l, o) BY <1>1, RevokingFits
<1>3. r.last = w.last BY <1>1 DEF Revoking
<1>4. w.last \in Nat BY <1>0 DEF WebRec
<1>5. Gone(r, k) BY <1>1, <1>3, <1>4 DEF Gone
<1> QED BY <1>1, <1>2, <1>3, <1>5 DEF r

-----------------------------------------------------------------------------
(* Revocations. *)

\* The controller of now was claimed, and is one of the controllers.
LEMMA NowIsClaimed ==
  ASSUME ControlAssumption, NEW w \in WebRec, Newest(w)
  PROVE  w.now \in 0..w.last /\ (w.now # 0 => w.now \in Claims)
BY DEF WebRec, Newest, Claims, ControlAssumption

\* #revokeInputFor is a revocation of the one in control, or nothing.
LEMMA RevokedForFits ==
  ASSUME NEW d, NEW w, NEW l, NEW o, ControlAssumption, Fits(d, w, l, o), NEW s
  PROVE  /\ Fits(d, RevokedFor(w, s), l, o)
         /\ RevokedFor(w, s).last = w.last /\ RevokedFor(w, s).now \in {0, w.now}
<1>0. w \in WebRec /\ Newest(w) BY DEF Fits
<1>1. w.now \in 0..w.last BY <1>0, NowIsClaimed
<1>2. Fits(d, Revoked(w, w.now), l, o) /\ Revoked(w, w.now).now = 0 /\ Revoked(w, w.now).last = w.last
  BY <1>1, RevokedFits
<1>3. RevokedFor(w, s) = Revoked(w, w.now) \/ RevokedFor(w, s) = w
  BY DEF RevokedFor
<1> QED BY <1>2, <1>3

\* A new claim: allowed to others than the one that is giving back, and when it restores a
\* call, the pending one.
LEMMA ClaimedFits ==
  ASSUME NEW d, NEW w, NEW l, NEW o, ControlAssumption, Fits(d, w, l, o),
         NEW s \in Sessions, NEW force \in BOOLEAN, w.last < MaxClaims,
         \A c \in Calls : d.call[c].back \in GivingBack => d.call[c].cancelled,
         force => /\ d.pending # 0 /\ ~d.call[d.pending].cancelled
                  /\ d.call[d.pending].back = "restoring"
                  /\ d.call[d.pending].backGate = w.last + 1
  PROVE  Fits(d, Claimed(w, s, force), l, o)
<1> DEFINE v == Revoked(w, w.now)
           k == w.last + 1
           c == [NewController EXCEPT !.session = s, !.force = force,
                                      !.claim = "barred", !.after = v.barrier]
           r == Claimed(w, s, force)
<1>0. w \in WebRec /\ Newest(w) BY DEF Fits
<1>1. w.now \in 0..w.last BY <1>0, NowIsClaimed
<1>2. /\ Fits(d, v, l, o) /\ v.now = 0 /\ v.last = w.last /\ \A j \in Claims : ~v.ctl[j].active
  BY <1>1, RevokedFits
<1> HIDE DEF v
<1>3. /\ v \in WebRec /\ Newest(v) /\ InOrder(v) /\ d \in DeskRec /\ l \in Seq(Calls) /\ o \in Seq(OpRec)
      /\ PendingWorks(d, l) /\ CallsFit(d, v) /\ ForcedRestores(d, v) /\ OpsAreAwaited(o, d, v)
  BY <1>2 DEF Fits
<1>4. /\ MaxClaims \in Nat /\ v.last \in 0..MaxClaims /\ v.barrier \in 0..MaxClaims /\ v.barrier <= v.last
      /\ v.ctl \in [Claims -> CtlRec] /\ Claims = 1..MaxClaims /\ 0 \in 0..MaxInputs /\ 0 \in 0..MaxClaims
  BY <1>3 DEF WebRec, ControlAssumption, Claims, Newest
<1>5. k \in Claims /\ k \in 0..MaxClaims /\ k > v.last /\ k = v.last + 1 BY <1>2, <1>4
<1>6. /\ c.force = force /\ c.claim = "barred" /\ c.after = v.barrier /\ c.prior = 0
      /\ c.release = "none" /\ ~c.revoked /\ ~c.active /\ ~c.sending
  BY DEF NewController
<1>7. c \in CtlRec BY <1>4 DEF NewController, CtlRec
<1> HIDE DEF c
<1>8. r = [v EXCEPT !.now = k, !.last = k, !.ctl[k] = c] BY DEF Claimed, v, c
<1>9. r = [now |-> k, last |-> k, barrier |-> v.barrier, ctl |-> [v.ctl EXCEPT ![k] = c]]
  BY <1>3, <1>8 DEF WebRec
<1> HIDE DEF r, k
<1>10. /\ r.now = k /\ r.last = k /\ r.barrier = v.barrier /\ r.ctl[k] = c
       /\ r.ctl \in [Claims -> CtlRec] /\ \A j \in Claims : j # k => r.ctl[j] = v.ctl[j]
  BY <1>4, <1>5, <1>7, <1>9
<1>11. r \in WebRec BY <1>4, <1>5, <1>9, <1>10 DEF WebRec
<1>12. \A j \in Claims : j \in Nat /\ (j > k <=> j > v.last /\ j # k) /\ (j <= k <=> j <= v.last \/ j = k)
  BY <1>4, <1>5
<1>13. Newest(r)
  <2>1. r.barrier <= r.last /\ r.barrier # r.now BY <1>4, <1>5, <1>10
  <2>2. \A j \in Claims : j <= v.last => v.ctl[j].revoked BY <1>2, <1>3, <1>4 DEF Newest
  <2>3. \A j \in Claims : j <= v.last <=> ~(j > v.last) BY <1>4
  <2> QED BY <1>3, <1>6, <1>10, <1>12, <2>1, <2>2, <2>3 DEF Newest
<1>14. InOrder(r)
  <2>0. \A i \in Claims : v.ctl[i].prior \in Nat /\ v.ctl[i].after \in Nat BY <1>4 DEF CtlRec
  <2>1. \A j \in Claims : Owes(r, j) => Owes(v, j) /\ j # k BY <1>6, <1>10 DEF Owes
  <2>2. \A j \in Claims : Owes(r, j) => j <= r.barrier BY <1>3, <1>10, <2>1 DEF InOrder
  <2>3. ASSUME NEW i \in Claims, NEW j \in Claims, j < i, Owes(r, j)
        PROVE  /\ r.ctl[i].revoked => j <= r.ctl[i].prior
               /\ i <= r.last => j <= r.ctl[i].after
               /\ r.ctl[i].release \notin {"queued", "done", "failed"}
               /\ r.ctl[i].claim \in {"none", "barred"}
    <3>1. CASE i = k
      BY <1>6, <1>10, <2>1, <2>2, <2>3, <3>1
    <3>2. CASE i # k
      BY <1>3, <1>10, <1>12, <2>1, <2>3, <3>2 DEF InOrder
    <3> QED BY <3>1, <3>2
  <2>4. ASSUME NEW i \in Claims
        PROVE  /\ r.ctl[i].prior < i /\ r.ctl[i].after < i
               /\ r.ctl[i].release \in {"queued", "done", "failed"} =>
                    r.ctl[i].claim \in {"settled", "failed", "back"}
    <3>1. CASE i = k
      <4>1. 0 < k /\ v.barrier < k BY <1>4, <1>5
      <4> QED BY <1>6, <1>10, <3>1, <4>1
    <3>2. CASE i # k
      BY <1>3, <1>10, <3>2 DEF InOrder
    <3> QED BY <3>1, <3>2
  <2> QED BY <2>2, <2>3, <2>4 DEF InOrder
<1>15. CallsFit(d, r)
  <2> SUFFICES ASSUME NEW e \in Calls PROVE CallFits(d, r, e) BY DEF CallsFit
  <2>1. CallFits(d, v, e) /\ (d.call[e].back \in GivingBack => d.call[e].cancelled)
    BY <1>3 DEF CallsFit
  <2>2. d.call[e] \in CallRec BY <1>3 DEF DeskRec
  <2>3. \A x \in Nat : x <= v.last => x <= r.last /\ x # k BY <1>4, <1>5, <1>10
  <2>4. \A x \in 1..v.last : x \in 1..r.last /\ x \in Claims /\ x # k BY <1>4, <1>5, <1>10
  <2>5. d.call[e].stopGate \in 0..MaxClaims BY <2>2 DEF CallRec
  <2>6. Gone(v, d.call[e].stopGate) => Gone(r, d.call[e].stopGate)
    BY <1>4, <1>10, <2>3, <2>5 DEF Gone
  <2> HIDE DEF GivingBack
  <2> QED BY <1>10, <2>1, <2>4, <2>6 DEF CallFits
<1>16. ForcedRestores(d, r)
  BY <1>2, <1>6, <1>10 DEF ForcedRestores, k
<1>17. ActiveIsRecorded(d, r) BY <1>2, <1>6, <1>10 DEF ActiveIsRecorded
<1>18. OpsAreAwaited(o, d, r)
  <2> SUFFICES ASSUME NEW i \in DOMAIN o PROVE OpIsAwaited(o[i], d, r)
    BY <1>3 DEF OpsAreAwaited
  <2>1. OpIsAwaited(o[i], d, v) /\ o[i] \in OpRec BY <1>3 DEF OpsAreAwaited
  <2>2. o[i].op \in {"claim", "release", "input", "act", "observe"} BY <2>1 DEF OpRec
  <2>3. v.ctl[k].claim = "none" /\ ~v.ctl[k].sending /\ v.ctl[k].release = "none"
    BY <1>3, <1>5 DEF Newest
  <2> QED BY <1>10, <2>1, <2>2, <2>3 DEF OpIsAwaited
<1> QED BY <1>3, <1>11, <1>13, <1>14, <1>15, <1>16, <1>17, <1>18 DEF Fits, r
\* One controller goes on; its release may be over, and then the barrier may be lifted.
CtlStep(w, r, k) ==
  /\ k <= w.last
  /\ r.now = w.now /\ r.last = w.last
  /\ \A j \in Claims : j # k => r.ctl[j] = w.ctl[j]
  /\ r.ctl[k].force = w.ctl[k].force /\ r.ctl[k].revoked = w.ctl[k].revoked
  /\ r.ctl[k].prior = w.ctl[k].prior /\ r.ctl[k].after = w.ctl[k].after
  /\ r.ctl[k].claim # "none"
  /\ r.ctl[k].claim \in {"barred", "asking"} => w.ctl[k].claim \in {"barred", "asking"}
  /\ r.ctl[k].claim # "barred" => \A j \in Claims : j < k => ~Owes(w, j)
  /\ r.ctl[k].release = "none" <=> w.ctl[k].release = "none"
  /\ Owes(r, k) => Owes(w, k)
  /\ r.ctl[k].release \in {"queued", "done", "failed"} =>
       /\ r.ctl[k].claim \in {"settled", "failed", "back"}
       /\ \A j \in Claims : j < k => ~Owes(w, j)
  /\ \/ r.barrier = w.barrier
     \/ r.barrier = 0 /\ w.barrier = k /\ r.ctl[k].release \in {"done", "failed"}
  /\ r.ctl[k].active => ~r.ctl[k].revoked /\ r.ctl[k].claim # "barred"

\* What a step of one controller leaves of the order of the controllers.
LEMMA CtlStepIs ==
  ASSUME ControlAssumption, NEW w \in WebRec, Newest(w), InOrder(w), NEW k \in Claims,
         NEW r \in WebRec, CtlStep(w, r, k)
  PROVE  Newest(r) /\ InOrder(r)
<1>0. /\ MaxClaims \in Nat /\ w.last \in 0..MaxClaims /\ w.barrier \in 0..MaxClaims
      /\ w.now \in 0..MaxClaims /\ Claims = 1..MaxClaims /\ \A i \in Claims : i \in Nat
  BY DEF WebRec, ControlAssumption, Claims
<1>1. \A i \in Claims : w.ctl[i].prior \in Nat /\ w.ctl[i].after \in Nat
  <2>1. \A x \in 0..MaxClaims : x \in Nat BY <1>0
  <2>2. \A j \in Claims : w.ctl[j] \in CtlRec BY DEF WebRec
  <2> QED BY <2>1, <2>2 DEF CtlRec
<1>2. k <= w.last /\ k >= 1 BY <1>0 DEF CtlStep
<1>3. Newest(r)
  <2>1. /\ r.now \in {0, r.last} /\ r.barrier <= r.last /\ (r.barrier = r.now => r.now = 0)
    BY <1>0 DEF CtlStep, Newest
  <2>2. ASSUME NEW j \in Claims
        PROVE  /\ r.ctl[j].claim = "none" <=> j > r.last
               /\ j <= r.last => (r.ctl[j].revoked <=> j # r.now)
               /\ j > r.last => ~r.ctl[j].revoked /\ ~r.ctl[j].active /\ ~r.ctl[j].sending
               /\ r.ctl[j].revoked <=> r.ctl[j].release # "none"
               /\ r.ctl[j].active => ~r.ctl[j].revoked /\ r.ctl[j].claim \notin {"none", "barred"}
    <3>1. CASE j # k BY <3>1 DEF CtlStep, Newest
    <3>2. CASE j = k
      <4>1. ~(k > w.last) BY <1>0, <1>2
      <4> QED BY <3>2, <4>1 DEF CtlStep, Newest
    <3> QED BY <3>1, <3>2
  <2> QED BY <2>1, <2>2 DEF Newest
<1>4. InOrder(r)
  <2>1. \A j \in Claims : Owes(r, j) => Owes(w, j) BY DEF CtlStep, Owes
  <2>2. \A j \in Claims : Owes(r, j) => j <= r.barrier
    <3> SUFFICES ASSUME NEW j \in Claims, Owes(r, j) PROVE j <= r.barrier OBVIOUS
    <3>1. Owes(w, j) /\ j <= w.barrier BY <2>1 DEF InOrder
    <3>2. CASE r.barrier = w.barrier BY <3>1, <3>2
    <3>3. CASE r.barrier = 0 /\ w.barrier = k /\ r.ctl[k].release \in {"done", "failed"}
      <4>1. j # k BY <3>3 DEF Owes
      <4>2. j < k BY <1>0, <3>1, <3>3, <4>1
      <4> QED BY <3>1, <3>3, <4>2 DEF CtlStep
    <3> QED BY <3>2, <3>3 DEF CtlStep
  <2>3. ASSUME NEW i \in Claims, NEW j \in Claims, j < i, Owes(r, j)
        PROVE  /\ r.ctl[i].revoked => j <= r.ctl[i].prior
               /\ i <= r.last => j <= r.ctl[i].after
               /\ r.ctl[i].release \notin {"queued", "done", "failed"}
               /\ r.ctl[i].claim \in {"none", "barred"}
    <3>1. /\ w.ctl[i].revoked => j <= w.ctl[i].prior
          /\ i <= w.last => j <= w.ctl[i].after
          /\ w.ctl[i].release \notin {"queued", "done", "failed"}
          /\ w.ctl[i].claim \in {"none", "barred"}
      BY <2>1, <2>3 DEF InOrder
    <3>2. CASE i # k BY <3>1, <3>2 DEF CtlStep
    <3>3. CASE i = k
      <4>1. Owes(w, j) BY <2>1, <2>3
      <4> QED BY <2>3, <3>1, <3>3, <4>1 DEF CtlStep
    <3> QED BY <3>2, <3>3
  <2>4. ASSUME NEW i \in Claims
        PROVE  /\ r.ctl[i].prior < i /\ r.ctl[i].after < i
               /\ r.ctl[i].release \in {"queued", "done", "failed"} =>
                    r.ctl[i].claim \in {"settled", "failed", "back"}
    BY DEF InOrder, CtlStep
  <2> QED BY <2>2, <2>3, <2>4 DEF InOrder
<1> QED BY <1>3, <1>4

\* A controller that goes on leaves the broker's record fitting; one that becomes active is
\* already recorded as the human in control.
LEMMA CtlStepFits ==
  ASSUME ControlAssumption, NEW d, NEW w, NEW l, NEW o, NEW o2, Fits(d, w, l, o), NEW k \in Claims,
         NEW r \in WebRec, CtlStep(w, r, k),
         r.ctl[k].active => \/ w.ctl[k].active
                            \/ /\ HumanIsRecorded(d)
                               /\ \A c \in Calls : d.call[c].back = "restoring" =>
                                                    d.call[c].backGate = k /\ ~d.call[c].cancelled,
         o2 \in Seq(OpRec), OpsAreAwaited(o2, d, r)
  PROVE  Fits(d, r, l, o2)
<1>0. w \in WebRec /\ Newest(w) /\ InOrder(w) /\ CallsFit(d, w) /\ ForcedRestores(d, w)
      /\ ActiveIsRecorded(d, w) /\ d \in DeskRec
  BY DEF Fits
<1>1. Newest(r) /\ InOrder(r) BY <1>0, CtlStepIs
<1>2. r.now = w.now /\ r.last = w.last /\ \A j \in Claims : r.ctl[j].revoked = w.ctl[j].revoked
  BY DEF CtlStep
<1>3. CallsFit(d, r)
  <2> SUFFICES ASSUME NEW c \in Calls PROVE CallFits(d, r, c) BY DEF CallsFit
  <2>1. CallFits(d, w, c) BY <1>0 DEF CallsFit
  <2>2. d.call[c].stopGate \in 0..MaxClaims /\ w.last \in 0..MaxClaims /\ MaxClaims \in Nat
    BY <1>0 DEF DeskRec, CallRec, ControlAssumption, WebRec
  <2>3. \A j \in 1..w.last : j \in Claims BY <2>2 DEF Claims
  <2>4. Gone(w, d.call[c].stopGate) => Gone(r, d.call[c].stopGate)
    BY <1>2, <2>2 DEF Gone, Claims
  <2> QED BY <1>2, <2>1, <2>3, <2>4 DEF CallFits
<1>4. ForcedRestores(d, r)
  BY <1>0, <1>2 DEF ForcedRestores, CtlStep
<1>5. ActiveIsRecorded(d, r)
  BY <1>0 DEF ActiveIsRecorded, CtlStep
<1> QED BY <1>1, <1>3, <1>4, <1>5 DEF Fits

\* The broker's record of one call changes.
LEMMA DeskStepFits ==
  ASSUME ControlAssumption, NEW d, NEW w, NEW l, NEW o, NEW d2, NEW l2, NEW o2, Fits(d, w, l, o),
         NEW c \in Calls, d2 \in DeskRec, l2 \in Seq(Calls), o2 \in Seq(OpRec),
         \A j \in Calls : j # c => d2.call[j] = d.call[j] /\ (d2.pending = j <=> d.pending = j),
         CallFits(d2, w, c), PendingWorks(d2, l2), ForcedRestores(d2, w), ActiveIsRecorded(d2, w),
         OpsAreAwaited(o2, d2, w)
  PROVE  Fits(d2, w, l2, o2)
<1>0. w \in WebRec /\ Newest(w) /\ InOrder(w) /\ CallsFit(d, w)
  BY DEF Fits
<1>1. CallsFit(d2, w)
  <2> SUFFICES ASSUME NEW j \in Calls PROVE CallFits(d2, w, j) BY DEF CallsFit
  <2>1. CASE j = c BY <2>1
  <2>2. CASE j # c
    <3>1. CallFits(d, w, j) BY <1>0 DEF CallsFit
    <3> QED BY <2>2, <3>1 DEF CallFits
  <2> QED BY <2>1, <2>2
<1> QED BY <1>0, <1>1 DEF Fits

\* The queue of the Surface: what stays in it is awaited as before.
LEMMA OpsStay ==
  ASSUME NEW o, NEW d, NEW w, NEW d2, NEW w2, o \in Seq(OpRec), OpsAreAwaited(o, d, w),
         \A x \in OpRec : OpIsAwaited(x, d, w) => OpIsAwaited(x, d2, w2)
  PROVE  OpsAreAwaited(o, d2, w2)
<1>1. \A i \in DOMAIN o : o[i] \in OpRec OBVIOUS
<1> QED BY <1>1 DEF OpsAreAwaited

\* An operation that its controller or call awaits joins the queue, once.
LEMMA OpsAppended ==
  ASSUME NEW o, NEW d, NEW w, NEW d2, NEW w2, o \in Seq(OpRec), OpsAreAwaited(o, d, w),
         NEW x \in OpRec, ~OpIsAwaited(x, d, w), OpIsAwaited(x, d2, w2),
         \A y \in OpRec : OpIsAwaited(y, d, w) => OpIsAwaited(y, d2, w2)
  PROVE  Append(o, x) \in Seq(OpRec) /\ OpsAreAwaited(Append(o, x), d2, w2)
<1> DEFINE p == Append(o, x)
<1>1. /\ Len(o) \in Nat /\ DOMAIN o = 1..Len(o) /\ p \in Seq(OpRec)
      /\ DOMAIN p = 1..(Len(o) + 1) /\ p[Len(o) + 1] = x
      /\ \A i \in 1..Len(o) : p[i] = o[i] /\ o[i] \in OpRec
  OBVIOUS
<1> HIDE DEF p
<1>2. \A i \in DOMAIN p : (i \in DOMAIN o /\ p[i] = o[i]) \/ (i = Len(o) + 1 /\ p[i] = x)
  BY <1>1
<1>3. \A i \in DOMAIN o : o[i] # x /\ o[i] \in OpRec /\ OpIsAwaited(o[i], d, w)
  BY <1>1 DEF OpsAreAwaited
<1>4. \A i \in DOMAIN p : OpIsAwaited(p[i], d2, w2)
  BY <1>2, <1>3
<1>5. \A i, j \in DOMAIN p : p[i] = p[j] => i = j
  BY <1>2, <1>3 DEF OpsAreAwaited
<1> QED BY <1>1, <1>4, <1>5 DEF OpsAreAwaited, p

\* The head of the queue goes with the wait for it.
LEMMA OpsDropped ==
  ASSUME NEW o, NEW d, NEW w, NEW d2, NEW w2, o \in Seq(OpRec), OpsAreAwaited(o, d, w), o # <<>>,
         \A y \in OpRec : y # Head(o) /\ OpIsAwaited(y, d, w) => OpIsAwaited(y, d2, w2)
  PROVE  Tail(o) \in Seq(OpRec) /\ OpsAreAwaited(Tail(o), d2, w2)
<1> DEFINE p == Tail(o)
<1>1. /\ Len(o) \in Nat /\ DOMAIN o = 1..Len(o) /\ p \in Seq(OpRec) /\ 1 \in DOMAIN o
      /\ DOMAIN p = 1..(Len(o) - 1) /\ Head(o) = o[1]
      /\ \A i \in 1..(Len(o) - 1) : p[i] = o[i + 1]
      /\ \A i \in 1..Len(o) : o[i] \in OpRec
  OBVIOUS
<1> HIDE DEF p
<1>2. \A i \in DOMAIN p : i + 1 \in DOMAIN o /\ i + 1 # 1 /\ p[i] = o[i + 1] /\ i \in Nat
  BY <1>1
<1>3. \A i \in DOMAIN p : p[i] # Head(o) /\ p[i] \in OpRec /\ OpIsAwaited(p[i], d, w)
  BY <1>1, <1>2 DEF OpsAreAwaited
<1>4. \A i \in DOMAIN p : OpIsAwaited(p[i], d2, w2)
  BY <1>3
<1>5. \A i, j \in DOMAIN p : p[i] = p[j] => i = j BY <1>2 DEF OpsAreAwaited
<1> QED BY <1>1, <1>4, <1>5 DEF OpsAreAwaited, p
-----------------------------------------------------------------------------
(* Controllers and viewers. *)

\* What one controller, or one call, makes of the whole.
CtlWith(w, k, c, b) ==
  [now |-> w.now, last |-> w.last, barrier |-> b, ctl |-> [w.ctl EXCEPT ![k] = c]]
CallWith(d, c, t, p, b, a) ==
  [pending |-> p, webOwner |-> b, authority |-> a, call |-> [d.call EXCEPT ![c] = t]]

\* The controllers with a new record of one of them.
LEMMA CtlWithIs ==
  ASSUME ControlAssumption, NEW w \in WebRec, NEW k \in Claims, NEW c \in CtlRec, NEW b \in 0..MaxClaims
  PROVE  LET r == CtlWith(w, k, c, b) IN
         /\ r \in WebRec /\ r.now = w.now /\ r.last = w.last /\ r.barrier = b /\ r.ctl[k] = c
         /\ \A j \in Claims : j # k => r.ctl[j] = w.ctl[j]
BY DEF CtlWith, WebRec, ControlAssumption

\* The broker with a new record of one call.
LEMMA CallWithIs ==
  ASSUME ControlAssumption, NEW d \in DeskRec, NEW c \in Calls, NEW t \in CallRec, NEW p \in 0..MaxCalls,
         NEW b \in BOOLEAN, NEW a \in {"idle", "agent", "web", "takeover"}
  PROVE  LET r == CallWith(d, c, t, p, b, a) IN
         /\ r \in DeskRec /\ r.pending = p /\ r.webOwner = b /\ r.authority = a /\ r.call[c] = t
         /\ \A j \in Calls : j # c => r.call[j] = d.call[j]
BY DEF CallWith, DeskRec

\* The types of the parts.
LEMMA PartsTyped ==
  ASSUME ControlAssumption, NEW d, NEW w, NEW l, NEW o, Fits(d, w, l, o)
  PROVE  /\ d \in DeskRec /\ w \in WebRec /\ l \in Seq(Calls) /\ o \in Seq(OpRec)
         /\ Newest(w) /\ InOrder(w)
         /\ d.pending \in 0..MaxCalls /\ d.webOwner \in BOOLEAN
         /\ d.authority \in {"idle", "agent", "web", "takeover"}
         /\ \A c \in Calls : d.call[c] \in CallRec
         /\ w.now \in 0..MaxClaims /\ w.last \in 0..MaxClaims /\ w.barrier \in 0..MaxClaims
         /\ \A k \in Claims : w.ctl[k] \in CtlRec /\ k \in Nat /\ k >= 1
         /\ MaxClaims \in Nat /\ Claims = 1..MaxClaims /\ Calls = 1..MaxCalls /\ MaxCalls \in Nat
         /\ \A k \in Claims : w.ctl[k].claim # "none" => k \in 0..w.last /\ k <= w.last
         /\ w.now \in 0..w.last
BY DEF Fits, DeskRec, WebRec, ControlAssumption, Claims, Calls, Newest

\* Once what a controller waits for is over, no earlier release is owed.
LEMMA BarrierOver ==
  ASSUME ControlAssumption, NEW w \in WebRec, InOrder(w), NEW k \in Claims, NEW g \in 0..MaxClaims,
         g \in Claims => w.ctl[g].release \in {"done", "failed"},
         \A j \in Claims : j < k /\ Owes(w, j) => j <= g
  PROVE  \A j \in Claims : j < k => ~Owes(w, j)
<1> SUFFICES ASSUME NEW j \in Claims, j < k, Owes(w, j) PROVE FALSE OBVIOUS
<1>1. j <= g /\ j >= 1 BY DEF Claims, ControlAssumption
<1>2. g \in Claims /\ j \in Nat BY <1>1 DEF Claims, ControlAssumption
<1>3. j # g BY <1>2 DEF Owes
<1>4. j < g BY <1>1, <1>2, <1>3 DEF Claims, ControlAssumption
<1> QED BY <1>2, <1>4 DEF InOrder

\* A controller that is activated waits for no earlier release.
LEMMA OlderOver ==
  ASSUME NEW w, InOrder(w), NEW k \in Claims, w.ctl[k].claim \notin {"none", "barred"}
  PROVE  \A j \in Claims : j < k => ~Owes(w, j)
BY DEF InOrder

\* Nothing but the record of the controllers and the queue changes.
LEMMA WebKeeps ==
  ASSUME ControlAssumption, ControlIInv, NEW w2, NEW o2, w2 = web', o2 = ops',
         Fits(desk, w2, line, o2), UNCHANGED <<desk, line>>, RestTyped'
  PROVE  ControlIInv'
BY ControlPrimed

\* The start of an activation (#claimInput after its barrier) keeps the invariant.
LEMMA ClaimStartsKeeps ==
  ASSUME ControlAssumption, ControlIInv, NEW k \in Claims, ClaimStarts(k)
  PROVE  ControlIInv'
<1>0. Fits(desk, web, line, ops) /\ RestTyped BY DEF ControlIInv
<1>1. /\ web \in WebRec /\ Newest(web) /\ InOrder(web) /\ web.ctl[k] \in CtlRec
      /\ web.barrier \in 0..MaxClaims
      /\ k <= web.last /\ web.ctl[k].claim = "barred" /\ ReleaseOver(web.ctl[k].after)
      /\ OpsAreAwaited(ops, desk, web) /\ ops \in Seq(OpRec)
  BY <1>0, PartsTyped DEF ClaimStarts, ClaimStartsReady, Fits
<1>2. \A j \in Claims : j < k => ~Owes(web, j) BY <1>1, BarrierOver DEF CtlRec, InOrder, ReleaseOver
<1>3. RestTyped' BY <1>0 DEF RestTyped, ClaimStarts
<1>4. ASSUME NEW a \in {"settled", "failed", "asking"}, web' = [web EXCEPT !.ctl[k].claim = a],
             \/ a # "asking" /\ ops' = ops
             \/ a = "asking" /\ ops' = Append(ops, [op |-> "claim", by |-> k])
      PROVE  ControlIInv'
  <2> DEFINE c == [web.ctl[k] EXCEPT !.claim = a]
             r == CtlWith(web, k, c, web.barrier)
  <2>1. web' = r BY <1>1, <1>4 DEF CtlWith, WebRec
  <2>2. c \in CtlRec BY <1>1, <1>4 DEF CtlRec
  <2>3. /\ c.claim = a /\ c.active = web.ctl[k].active /\ c.release = web.ctl[k].release
        /\ c.force = web.ctl[k].force /\ c.revoked = web.ctl[k].revoked /\ c.sending = web.ctl[k].sending
        /\ c.prior = web.ctl[k].prior /\ c.after = web.ctl[k].after
    BY <1>1 DEF CtlRec
  <2> HIDE DEF c
  <2>4. /\ r \in WebRec /\ r.now = web.now /\ r.last = web.last /\ r.barrier = web.barrier /\ r.ctl[k] = c
        /\ \A j \in Claims : j # k => r.ctl[j] = web.ctl[j]
    BY <1>1, <2>2, CtlWithIs
  <2> HIDE DEF r
  <2>5. ~web.ctl[k].active /\ web.ctl[k].release \notin {"queued", "done", "failed"}
    BY <1>1 DEF Newest, InOrder
  <2>6. CtlStep(web, r, k) BY <1>1, <1>2, <1>4, <2>3, <2>4, <2>5 DEF CtlStep, Owes
  <2>7. \A x \in OpRec : OpIsAwaited(x, desk, web) => OpIsAwaited(x, desk, r)
    BY ZenonT(60), <1>1, <2>3, <2>4 DEF OpIsAwaited, OpRec
  <2>8. ops' \in Seq(OpRec) /\ OpsAreAwaited(ops', desk, r)
    <3>1. CASE a # "asking" BY <1>1, <1>4, <2>7, <3>1, OpsStay
    <3>2. CASE a = "asking"
      <4> DEFINE x == [op |-> "claim", by |-> k]
      <4>1. x \in OpRec /\ x.op = "claim" /\ x.by = k BY <1>0, PartsTyped DEF OpRec
      <4> HIDE DEF x
      <4>2. ~OpIsAwaited(x, desk, web) BY <1>1, <4>1 DEF OpIsAwaited
      <4>3. OpIsAwaited(x, desk, r) BY <2>3, <2>4, <3>2, <4>1 DEF OpIsAwaited
      <4>4. ops' = Append(ops, x) BY <1>4, <3>2 DEF x
      <4> QED BY <1>1, <2>7, <4>1, <4>2, <4>3, <4>4, OpsAppended
    <3> QED BY <3>1, <3>2
  <2>9. r.ctl[k].active => web.ctl[k].active BY <2>3, <2>4
  <2>10. PICK o2 : o2 = ops' OBVIOUS
  <2>11. Fits(desk, r, line, o2) BY <1>0, <2>4, <2>6, <2>8, <2>9, <2>10, CtlStepFits
  <2> QED BY <1>3, <2>1, <2>10, <2>11, WebKeeps DEF ClaimStarts
<1> QED BY <1>4 DEF ClaimStarts

\* The end of #claimInput keeps the invariant.
LEMMA ClaimReturnsKeeps ==
  ASSUME ControlAssumption, ControlIInv, NEW k \in Claims, ClaimReturns(k)
  PROVE  ControlIInv'
<1>0. Fits(desk, web, line, ops) /\ RestTyped BY DEF ControlIInv
<1>1. web.ctl[k].claim \in {"settled", "failed"} /\ k \in 0..web.last
  BY <1>0, PartsTyped DEF ClaimReturns, ClaimReturnsReady
<1>2. RestTyped' BY <1>0 DEF RestTyped, ClaimReturns
<1>3. PICK w : /\ Fits(desk, w, line, ops) /\ w.ctl[k].claim = web.ctl[k].claim
               /\ web' = [w EXCEPT !.ctl[k].claim = "back"]
  <2>1. /\ Fits(desk, Revoked(web, k), line, ops)
        /\ Revoked(web, k).ctl[k].claim = web.ctl[k].claim
    BY <1>0, <1>1, RevokedFits DEF Revoking
  <2> QED BY <1>0, <2>1 DEF ClaimReturns
<1>4. /\ w \in WebRec /\ Newest(w) /\ InOrder(w) /\ w.ctl[k] \in CtlRec
      /\ w.barrier \in 0..MaxClaims
      /\ k <= w.last /\ w.ctl[k].claim \in {"settled", "failed"}
      /\ OpsAreAwaited(ops, desk, w) /\ ops \in Seq(OpRec)
  BY <1>1, <1>3, PartsTyped DEF Fits
<1>5. \A j \in Claims : j < k => ~Owes(w, j) BY <1>4, OlderOver
<1> DEFINE c == [w.ctl[k] EXCEPT !.claim = "back"]
           r == CtlWith(w, k, c, w.barrier)
<1>6. web' = r BY <1>3, <1>4 DEF CtlWith, WebRec
<1>7. c \in CtlRec BY <1>4 DEF CtlRec
<1>8. /\ c.claim = "back" /\ c.active = w.ctl[k].active /\ c.release = w.ctl[k].release
      /\ c.force = w.ctl[k].force /\ c.revoked = w.ctl[k].revoked /\ c.sending = w.ctl[k].sending
      /\ c.prior = w.ctl[k].prior /\ c.after = w.ctl[k].after
  BY <1>4 DEF CtlRec
<1> HIDE DEF c
<1>9. /\ r \in WebRec /\ r.now = w.now /\ r.last = w.last /\ r.barrier = w.barrier /\ r.ctl[k] = c
      /\ \A j \in Claims : j # k => r.ctl[j] = w.ctl[j]
  BY <1>4, <1>7, CtlWithIs
<1> HIDE DEF r
<1>10. CtlStep(w, r, k) BY <1>4, <1>5, <1>8, <1>9 DEF CtlStep, Owes, Newest
<1>11. \A x \in OpRec : OpIsAwaited(x, desk, w) => OpIsAwaited(x, desk, r)
  BY ZenonT(60), <1>4, <1>8, <1>9 DEF OpIsAwaited, OpRec
<1>12. OpsAreAwaited(ops, desk, r) BY <1>4, <1>11, OpsStay
<1>13. r.ctl[k].active => w.ctl[k].active BY <1>8, <1>9
<1>14. Fits(desk, r, line, ops) BY <1>3, <1>4, <1>9, <1>10, <1>12, <1>13, CtlStepFits
<1> QED BY <1>2, <1>6, <1>14, WebKeeps DEF ClaimReturns

\* The release of a revoked controller, once the one before it is over, keeps the invariant.
LEMMA ReleaseStartsKeeps ==
  ASSUME ControlAssumption, ControlIInv, NEW k \in Claims, ReleaseStarts(k)
  PROVE  ControlIInv'
<1>0. Fits(desk, web, line, ops) /\ RestTyped BY DEF ControlIInv
<1>1. /\ web \in WebRec /\ Newest(web) /\ InOrder(web) /\ web.ctl[k] \in CtlRec
      /\ web.barrier \in 0..MaxClaims
      /\ web.ctl[k].claim \in {"settled", "failed", "back"} /\ ReleaseOver(web.ctl[k].prior)
      /\ k <= web.last /\ web.ctl[k].release = "waiting"
      /\ OpsAreAwaited(ops, desk, web) /\ ops \in Seq(OpRec)
  BY <1>0, PartsTyped DEF ReleaseStarts, ReleaseStartsReady, Fits
<1>2. \A j \in Claims : j < k => ~Owes(web, j) BY <1>1, OlderOver
<1>3. RestTyped' BY <1>0 DEF RestTyped, ReleaseStarts
<1>4. ASSUME NEW a \in {"queued", "done"}, NEW b \in {0, web.barrier},
             web' = [web EXCEPT !.ctl[k].release = a, !.barrier = b],
             \/ a = "done" /\ ops' = ops /\ (b # web.barrier => web.barrier = k)
             \/ a = "queued" /\ ops' = Append(ops, [op |-> "release", by |-> k]) /\ b = web.barrier
      PROVE  ControlIInv'
  <2> DEFINE c == [web.ctl[k] EXCEPT !.release = a]
             r == CtlWith(web, k, c, b)
  <2>1. web' = r BY <1>1, <1>4 DEF CtlWith, WebRec
  <2>2. c \in CtlRec BY <1>1, <1>4 DEF CtlRec
  <2>3. /\ c.release = a /\ c.active = web.ctl[k].active /\ c.claim = web.ctl[k].claim
        /\ c.force = web.ctl[k].force /\ c.revoked = web.ctl[k].revoked /\ c.sending = web.ctl[k].sending
        /\ c.prior = web.ctl[k].prior /\ c.after = web.ctl[k].after
    BY <1>1 DEF CtlRec
  <2> HIDE DEF c
  <2>4. /\ r \in WebRec /\ r.now = web.now /\ r.last = web.last /\ r.barrier = b /\ r.ctl[k] = c
        /\ \A j \in Claims : j # k => r.ctl[j] = web.ctl[j]
    <3>1. b \in 0..MaxClaims BY <1>0, <1>4, PartsTyped
    <3> QED BY <1>1, <2>2, <3>1, CtlWithIs
  <2> HIDE DEF r
  <2>5. ~web.ctl[k].active /\ web.ctl[k].revoked
    BY <1>1 DEF Newest
  <2>6. CtlStep(web, r, k) BY <1>1, <1>2, <1>4, <2>3, <2>4, <2>5 DEF CtlStep, Owes
  <2>7. \A x \in OpRec : OpIsAwaited(x, desk, web) => OpIsAwaited(x, desk, r)
    BY ZenonT(60), <1>1, <2>3, <2>4 DEF OpIsAwaited, OpRec
  <2>8. ops' \in Seq(OpRec) /\ OpsAreAwaited(ops', desk, r)
    <3>1. CASE a # "queued" BY <1>1, <1>4, <2>7, <3>1, OpsStay
    <3>2. CASE a = "queued"
      <4> DEFINE x == [op |-> "release", by |-> k]
      <4>1. x \in OpRec /\ x.op = "release" /\ x.by = k BY <1>0, PartsTyped DEF OpRec
      <4> HIDE DEF x
      <4>2. ~OpIsAwaited(x, desk, web) BY <1>1, <4>1 DEF OpIsAwaited
      <4>3. OpIsAwaited(x, desk, r) BY <2>3, <2>4, <3>2, <4>1 DEF OpIsAwaited
      <4>4. ops' = Append(ops, x) BY <1>4, <3>2 DEF x
      <4> QED BY <1>1, <2>7, <4>1, <4>2, <4>3, <4>4, OpsAppended
    <3> QED BY <3>1, <3>2
  <2>9. r.ctl[k].active => web.ctl[k].active BY <2>3, <2>4
  <2>10. PICK o2 : o2 = ops' OBVIOUS
  <2>11. Fits(desk, r, line, o2) BY <1>0, <2>4, <2>6, <2>8, <2>9, <2>10, CtlStepFits
  <2> QED BY <1>3, <2>1, <2>10, <2>11, WebKeeps DEF ReleaseStarts
<1>5. CASE web.ctl[k].provisioned
  <2>1. web' = [web EXCEPT !.ctl[k].release = "queued", !.barrier = web.barrier]
    BY <1>1, <1>5 DEF ReleaseStarts, WebRec
  <2> QED BY <1>4, <1>5, <2>1 DEF ReleaseStarts
<1>6. CASE ~web.ctl[k].provisioned
  <2>1. web' = [web EXCEPT !.ctl[k].release = "done", !.barrier = IF web.barrier = k THEN 0 ELSE web.barrier]
    BY <1>1, <1>6 DEF ReleaseStarts, WebRec
  <2> QED BY <1>4, <1>6, <2>1 DEF ReleaseStarts
<1> QED BY <1>5, <1>6

\* An input sent to the Screen keeps the invariant.
LEMMA SendInputKeeps ==
  ASSUME ControlAssumption, ControlIInv, NEW k \in Claims, SendInput(k)
  PROVE  ControlIInv'
<1>0. Fits(desk, web, line, ops) /\ RestTyped BY DEF ControlIInv
<1>1. /\ web \in WebRec /\ Newest(web) /\ InOrder(web) /\ web.ctl[k] \in CtlRec
      /\ web.barrier \in 0..MaxClaims
      /\ web.ctl[k].active /\ ~web.ctl[k].sending /\ web.ctl[k].inputs > 0
      /\ OpsAreAwaited(ops, desk, web) /\ ops \in Seq(OpRec)
  BY <1>0, PartsTyped DEF SendInput, SendReady, Fits
<1>2. /\ web.ctl[k].claim \notin {"none", "barred"} /\ ~web.ctl[k].revoked
      /\ k <= web.last /\ web.ctl[k].release = "none"
  BY <1>0, <1>1, PartsTyped DEF Newest
<1>3. \A j \in Claims : j < k => ~Owes(web, j) BY <1>1, <1>2, OlderOver
<1>4. RestTyped' BY <1>0 DEF RestTyped, SendInput
<1> DEFINE n == web.ctl[k].inputs - 1
<1>5. n \in 0..MaxInputs BY <1>1 DEF CtlRec, ControlAssumption
<1> HIDE DEF n
<1> DEFINE c == [web.ctl[k] EXCEPT !.inputs = n, !.sending = TRUE]
           r == CtlWith(web, k, c, web.barrier)
           x == [op |-> "input", by |-> k]
<1>6. web' = r BY <1>1 DEF CtlWith, WebRec, SendInput, n
<1>7. c \in CtlRec BY <1>1, <1>5 DEF CtlRec
<1>8. /\ c.sending /\ c.active = web.ctl[k].active /\ c.claim = web.ctl[k].claim
      /\ c.force = web.ctl[k].force /\ c.revoked = web.ctl[k].revoked /\ c.release = web.ctl[k].release
      /\ c.prior = web.ctl[k].prior /\ c.after = web.ctl[k].after
  BY <1>1 DEF CtlRec
<1> HIDE DEF c
<1>9. /\ r \in WebRec /\ r.now = web.now /\ r.last = web.last /\ r.barrier = web.barrier /\ r.ctl[k] = c
      /\ \A j \in Claims : j # k => r.ctl[j] = web.ctl[j]
  BY <1>1, <1>7, CtlWithIs
<1> HIDE DEF r
<1>10. CtlStep(web, r, k) BY <1>1, <1>2, <1>3, <1>8, <1>9 DEF CtlStep, Owes
<1>11. \A y \in OpRec : OpIsAwaited(y, desk, web) => OpIsAwaited(y, desk, r)
  <2>1. \A j \in Claims : r.ctl[j].claim = web.ctl[j].claim /\ r.ctl[j].release = web.ctl[j].release
    BY <1>8, <1>9
  <2>2. \A j \in Claims : web.ctl[j].sending => r.ctl[j].sending BY <1>8, <1>9
  <2> QED BY <2>1, <2>2 DEF OpIsAwaited, OpRec
<1>12. x \in OpRec /\ x.op = "input" /\ x.by = k BY <1>0, PartsTyped DEF OpRec
<1>13. ops' = Append(ops, x) BY DEF SendInput
<1> HIDE DEF x
<1>14. ~OpIsAwaited(x, desk, web) BY <1>1, <1>12 DEF OpIsAwaited
<1>15. OpIsAwaited(x, desk, r) BY <1>8, <1>9, <1>12 DEF OpIsAwaited
<1>16. ops' \in Seq(OpRec) /\ OpsAreAwaited(ops', desk, r)
  BY <1>1, <1>11, <1>12, <1>13, <1>14, <1>15, OpsAppended
<1>17. r.ctl[k].active => web.ctl[k].active BY <1>8, <1>9
<1>18. PICK o2 : o2 = ops' OBVIOUS
<1>19. Fits(desk, r, line, o2) BY <1>0, <1>9, <1>10, <1>16, <1>17, <1>18, CtlStepFits
<1> QED BY <1>4, <1>6, <1>18, <1>19, WebKeeps DEF SendInput

\* The next operation of the Surface keeps the invariant.
LEMMA OperationStartsKeeps ==
  ASSUME ControlIInv, OperationStarts
  PROVE  ControlIInv'
<1>1. Fits(desk, web, line, ops) /\ RestTyped BY DEF ControlIInv
<1>2. RestTyped' BY <1>1 DEF RestTyped, OperationStarts
<1> QED BY <1>1, <1>2, ControlPrimed DEF OperationStarts
\* The requests that change the controllers only.
LEMMA RoomIsLeft ==
  ASSUME ControlAssumption, web.last \in Nat, RoomForClaim
  PROVE  web.last < MaxClaims
<1> DEFINE S == {c \in Calls : desk.call[c].back # "no"}
<1>1. IsFiniteSet(Calls) BY FS_Interval DEF Calls, ControlAssumption
<1>2. IsFiniteSet(S) BY <1>1, FS_Subset
<1>3. Cardinality(S) \in Nat BY <1>2, FS_CardinalityType
<1>4. web.last + Cardinality(S) < MaxClaims BY DEF RoomForClaim
<1> HIDE DEF S
<1> QED BY <1>3, <1>4 DEF ControlAssumption

\* A viewer that changes its mode keeps the invariant.
LEMMA SetModeKeeps ==
  ASSUME ControlAssumption, ControlIInv, NEW s \in Sessions, NEW mode \in {"idle", "expanded"},
         SetMode(s, mode)
  PROVE  ControlIInv'
<1>0. Fits(desk, web, line, ops) /\ RestTyped BY DEF ControlIInv
<1> DEFINE v == [view EXCEPT ![s] = [mode |-> mode, suspended |-> FALSE]]
           w == IF view[s].mode = "expanded" /\ mode # "expanded" THEN RevokedFor(web, s) ELSE web
           claims == MayClaim(desk, w, v, s, FALSE)
<1>1. /\ claims => RoomForClaim
      /\ view' = v /\ web' = IF claims THEN Claimed(w, s, FALSE) ELSE w
      /\ UNCHANGED <<desk, line, ops, busy, screen, held>>
  BY DEF SetMode
<1>2. RestTyped'
  <2>1. v \in [Sessions -> [mode : {"idle", "expanded", "closed"}, suspended : BOOLEAN]]
    BY <1>0 DEF RestTyped
  <2> HIDE DEF v
  <2> QED BY <1>0, <1>1, <2>1 DEF RestTyped
<1>3. Fits(desk, w, line, ops) /\ w.last = web.last
  BY <1>0, RevokedForFits
<1>4. claims => CanAccept(desk) BY DEF MayClaim
<1> HIDE DEF v, w, claims
<1>5. CASE claims
  <2>1. w.last < MaxClaims BY <1>0, PartsTyped, <1>1, <1>3, <1>5, RoomIsLeft DEF ControlAssumption
  <2>2. ASSUME NEW c \in Calls, desk.call[c].back \in GivingBack PROVE desk.call[c].cancelled
    <3>1. CallFits(desk, w, c) /\ CanAccept(desk) /\ c # 0
      BY <1>3, <1>4, <1>5, PartsTyped DEF Fits, CallsFit
    <3> QED BY <2>2, <3>1 DEF CallFits, CanAccept, GivingBack
  <2>3. Fits(desk, Claimed(w, s, FALSE), line, ops)
    BY <1>3, <2>1, <2>2, ClaimedFits
  <2> QED BY <1>1, <1>2, <1>5, <2>3, WebKeeps
<1>6. CASE ~claims
  BY <1>1, <1>2, <1>3, <1>6, WebKeeps
<1> QED BY <1>5, <1>6

\* A viewer that goes keeps the invariant.
LEMMA CloseSessionKeeps ==
  ASSUME ControlAssumption, ControlIInv, NEW s \in Sessions, CloseSession(s)
  PROVE  ControlIInv'
<1>0. Fits(desk, web, line, ops) /\ RestTyped BY DEF ControlIInv
<1>1. RestTyped' BY <1>0 DEF RestTyped, CloseSession
<1>2. Fits(desk, RevokedFor(web, s), line, ops) BY <1>0, RevokedForFits
<1> QED BY <1>1, <1>2, WebKeeps DEF CloseSession

\* A viewer that gives the control up keeps the invariant.
LEMMA ReleaseControlKeeps ==
  ASSUME ControlAssumption, ControlIInv, NEW k \in Claims, ReleaseControl(k)
  PROVE  ControlIInv'
<1>0. Fits(desk, web, line, ops) /\ RestTyped BY DEF ControlIInv
<1>1. RestTyped' BY <1>0 DEF RestTyped, ReleaseControl
<1>2. k \in 0..web.last BY <1>0, PartsTyped DEF ReleaseControl, Newest
<1>3. Fits(desk, Revoked(web, k), line, ops) BY <1>0, <1>2, RevokedFits
<1> QED BY <1>1, <1>3, WebKeeps DEF ReleaseControl

\* An input, taken or refused, keeps the invariant.
LEMMA InputKeeps ==
  ASSUME ControlAssumption, ControlIInv, NEW k \in Claims, Input(k)
  PROVE  ControlIInv'
<1>0. Fits(desk, web, line, ops) /\ RestTyped BY DEF ControlIInv
<1>1. RestTyped' BY <1>0 DEF RestTyped, Input
<1>2. /\ web \in WebRec /\ Newest(web) /\ InOrder(web) /\ web.ctl[k] \in CtlRec
      /\ web.barrier \in 0..MaxClaims
      /\ web.ctl[k].active /\ web.ctl[k].inputs < MaxInputs
      /\ OpsAreAwaited(ops, desk, web) /\ ops \in Seq(OpRec)
  BY <1>0, PartsTyped DEF Input, Fits
<1>3. /\ web.ctl[k].claim \notin {"none", "barred"} /\ ~web.ctl[k].revoked
      /\ k <= web.last /\ web.ctl[k].release = "none" /\ k \in 0..web.last
  BY <1>0, <1>2, PartsTyped DEF Newest
<1>4. CASE ~CanAccept(desk)
  <2>1. Fits(desk, Revoked(web, k), line, ops) BY <1>0, <1>3, RevokedFits
  <2> QED BY <1>1, <1>4, <2>1, WebKeeps DEF Input
<1>5. CASE CanAccept(desk)
  <2>1. \A j \in Claims : j < k => ~Owes(web, j) BY <1>2, <1>3, OlderOver
  <2> DEFINE n == web.ctl[k].inputs + 1
  <2>2. n \in 0..MaxInputs BY <1>2 DEF CtlRec, ControlAssumption
  <2> HIDE DEF n
  <2> DEFINE c == [web.ctl[k] EXCEPT !.inputs = n]
             r == CtlWith(web, k, c, web.barrier)
  <2>3. web' = r BY <1>2, <1>5 DEF CtlWith, WebRec, Input, n
  <2>4. c \in CtlRec BY <1>2, <2>2 DEF CtlRec
  <2>5. /\ c.sending = web.ctl[k].sending /\ c.active = web.ctl[k].active /\ c.claim = web.ctl[k].claim
        /\ c.force = web.ctl[k].force /\ c.revoked = web.ctl[k].revoked
        /\ c.release = web.ctl[k].release
        /\ c.prior = web.ctl[k].prior /\ c.after = web.ctl[k].after
    BY <1>2 DEF CtlRec
  <2> HIDE DEF c
  <2>6. /\ r \in WebRec /\ r.now = web.now /\ r.last = web.last /\ r.barrier = web.barrier /\ r.ctl[k] = c
        /\ \A j \in Claims : j # k => r.ctl[j] = web.ctl[j]
    BY <1>2, <2>4, CtlWithIs
  <2> HIDE DEF r
  <2>7. CtlStep(web, r, k) BY <1>2, <1>3, <2>1, <2>5, <2>6 DEF CtlStep, Owes
  <2>8. \A y \in OpRec : OpIsAwaited(y, desk, web) => OpIsAwaited(y, desk, r)
    BY <2>5, <2>6 DEF OpIsAwaited, OpRec
  <2>9. OpsAreAwaited(ops, desk, r) BY <1>2, <2>8, OpsStay
  <2>10. r.ctl[k].active => web.ctl[k].active BY <2>5, <2>6
  <2>11. Fits(desk, r, line, ops) BY <1>0, <1>2, <2>6, <2>7, <2>9, <2>10, CtlStepFits
  <2> QED BY <1>1, <2>3, <2>11, WebKeeps DEF Input
<1> QED BY <1>4, <1>5

-----------------------------------------------------------------------------
(* Calls. *)

\* What changes in the record of a call.
LEMMA CallChanges ==
  ASSUME ControlAssumption, NEW d, NEW w, NEW l, NEW o, Fits(d, w, l, o), NEW c \in Calls,
         NEW t \in CallRec, NEW p \in {d.pending, 0, c}, {p, d.pending} \subseteq {p, 0, c},
         d.pending = p \/ (d.pending \in {0, c} /\ p \in {0, c}),
         NEW b \in BOOLEAN, NEW a \in {"idle", "agent", "web", "takeover"},
         NEW r, r = CallWith(d, c, t, p, b, a), NEW l2 \in Seq(Calls), NEW o2 \in Seq(OpRec),
         CallFits(r, w, c), PendingWorks(r, l2), ForcedRestores(r, w), ActiveIsRecorded(r, w),
         OpsAreAwaited(o2, r, w)
  PROVE  Fits(r, w, l2, o2)
<1>1. d \in DeskRec /\ p \in 0..MaxCalls /\ 0 \notin Calls
  BY PartsTyped
<1>2. /\ r \in DeskRec /\ r.pending = p
      /\ \A j \in Calls : j # c => r.call[j] = d.call[j]
  BY <1>1, CallWithIs
<1>3. \A j \in Calls : j # c => (r.pending = j <=> d.pending = j)
  BY <1>1, <1>2
<1> QED BY <1>2, <1>3, DeskStepFits

\* A call goes on, in the place it has and with what it gives back.
LEMMA CallGoesOn ==
  ASSUME ControlAssumption, NEW d, NEW w, NEW l, NEW o, Fits(d, w, l, o), NEW c \in Calls,
         NEW t \in CallRec,
         NEW a \in {"idle", "agent", "web", "takeover"},
         NEW r, r = CallWith(d, c, t, d.pending, d.webOwner, a),
         t.at \in Working <=> d.call[c].at \in Working, d.call[c].at = "acting" => t.at = "acting",
         t.back = d.call[c].back, t.backGate = d.call[c].backGate, t.cancelled = d.call[c].cancelled,
         CallFits(r, w, c), ActiveIsRecorded(r, w)
  PROVE  Fits(r, w, l, o)
<1>1. /\ d \in DeskRec /\ d.pending \in 0..MaxCalls /\ d.webOwner \in BOOLEAN /\ w \in WebRec
      /\ l \in Seq(Calls) /\ o \in Seq(OpRec)
      /\ PendingWorks(d, l) /\ ForcedRestores(d, w) /\ OpsAreAwaited(o, d, w)
  BY PartsTyped DEF Fits
<1>2. /\ r.pending = d.pending /\ r.call[c] = t
      /\ \A j \in Calls : j # c => r.call[j] = d.call[j]
  BY <1>1 DEF CallWith, DeskRec
<1>3. PendingWorks(r, l) BY <1>1, <1>2 DEF PendingWorks
<1>4. ForcedRestores(r, w)
  <2>1. \A j \in Calls : /\ r.call[j].back = d.call[j].back /\ r.call[j].backGate = d.call[j].backGate
                         /\ r.call[j].cancelled = d.call[j].cancelled
    BY <1>2
  <2>2. d.pending # 0 => d.pending \in Calls BY <1>1 DEF Calls
  <2> QED BY <1>1, <1>2, <2>1, <2>2 DEF ForcedRestores
<1>5. OpsAreAwaited(o, r, w)
  <2>1. \A x \in OpRec : OpIsAwaited(x, d, w) => OpIsAwaited(x, r, w)
    BY ZenonT(60), <1>2 DEF OpIsAwaited, OpRec
  <2> QED BY <1>1, <2>1, OpsStay
<1> QED BY <1>1, <1>3, <1>4, <1>5, CallChanges

\* A call that no human has is over.
LEMMA EndedFits ==
  ASSUME ControlAssumption, NEW d, NEW w, NEW l, NEW o, Fits(d, w, l, o), NEW c \in Calls,
         d.pending = c, NEW t \in CallRec, NEW u, u = d.call[c], t.at = "ended",
         t.phase = u.phase, t.back = u.back, t.backGate = u.backGate, t.cancelled = u.cancelled,
         t.activated = u.activated, t.completion = u.completion, t.stop = u.stop,
         t.stopGate = u.stopGate,
         u.cancelled \/ (u.phase \notin Human /\ u.back = "no"),
         NEW o2, \/ o2 = o /\ u.at # "acting"
                 \/ o # <<>> /\ Head(o) = [op |-> "act", by |-> c] /\ o2 = Tail(o),
         NEW r, r = CallWith(d, c, t, 0, d.webOwner, "idle")
  PROVE  Fits(r, w, Tail(l), o2)
<1>1. /\ d \in DeskRec /\ d.webOwner \in BOOLEAN /\ w \in WebRec
      /\ l \in Seq(Calls) /\ o \in Seq(OpRec) /\ c # 0 /\ 0 \in 0..MaxCalls
      /\ PendingWorks(d, l) /\ ForcedRestores(d, w) /\ OpsAreAwaited(o, d, w)
      /\ CallFits(d, w, c) /\ ActiveIsRecorded(d, w)
  BY PartsTyped DEF Fits, CallsFit
<1>2. /\ r.pending = 0 /\ r.call[c] = t
      /\ \A j \in Calls : j # c => r.call[j] = d.call[j]
  BY <1>1, CallWithIs
<1>3. l # <<>> /\ Tail(l) \in Seq(Calls) BY <1>1 DEF PendingWorks
<1>4. \A k \in Claims : ~w.ctl[k].active
  BY <1>1 DEF ActiveIsRecorded, HumanIsRecorded, Human
<1>5. PendingWorks(r, Tail(l))
  <2>1. \A j \in Calls : j # c => d.call[j].at \notin Working /\ j # 0
    BY <1>1, PartsTyped DEF PendingWorks
  <2>2. r.call[c].at \notin Working BY <1>2 DEF Working
  <2> QED BY <1>1, <1>2, <2>1, <2>2 DEF PendingWorks
<1>6. ForcedRestores(r, w) BY <1>1, <1>2, <1>4 DEF ForcedRestores
<1>7. ActiveIsRecorded(r, w) BY <1>4 DEF ActiveIsRecorded
<1>8. CallFits(r, w, c) BY <1>1, <1>2 DEF CallFits
<1>9. o2 \in Seq(OpRec) /\ OpsAreAwaited(o2, r, w)
  <2>0. \A j \in Calls : /\ r.call[j].back = d.call[j].back
                         /\ j # c => r.call[j].at = d.call[j].at
    BY <1>2
  <2>1. CASE o2 = o /\ u.at # "acting"
    <3>1. \A x \in OpRec : OpIsAwaited(x, d, w) => OpIsAwaited(x, r, w)
      BY ZenonT(60), <2>0, <2>1 DEF OpIsAwaited, OpRec
    <3> QED BY <1>1, <2>1, <3>1, OpsStay
  <2>2. CASE o # <<>> /\ Head(o) = [op |-> "act", by |-> c] /\ o2 = Tail(o)
    <3>1. \A x \in OpRec : x # Head(o) /\ OpIsAwaited(x, d, w) => OpIsAwaited(x, r, w)
      <4> SUFFICES ASSUME NEW x \in OpRec, x # Head(o), OpIsAwaited(x, d, w)
                   PROVE  OpIsAwaited(x, r, w)
        OBVIOUS
      <4>1. x.op = "act" => x.by # c BY <2>2 DEF OpRec
      <4> QED BY <2>0, <4>1 DEF OpIsAwaited, OpRec
    <3> QED BY <1>1, <2>2, <3>1, OpsDropped
  <2> QED BY <2>1, <2>2
<1> QED BY ZenonT(60), <1>1, <1>2, <1>3, <1>5, <1>6, <1>7, <1>8, <1>9, CallChanges
\* What the invariant says of one call, with the types of its record.
LEMMA CallFacts ==
  ASSUME ControlAssumption, NEW d, NEW w, NEW l, NEW o, Fits(d, w, l, o), NEW c \in Calls
  PROVE  /\ d \in DeskRec /\ d.call[c] \in CallRec /\ CallFits(d, w, c) /\ c # 0 /\ c \in 0..MaxCalls
         /\ d.pending \in 0..MaxCalls /\ d.webOwner \in BOOLEAN /\ l \in Seq(Calls) /\ o \in Seq(OpRec)
         /\ d.authority \in {"idle", "agent", "web", "takeover"}
         /\ d.call[c].at \in Working <=> d.pending = c
         /\ d.pending # 0 => l # <<>> /\ Head(l) = d.pending
         /\ ActiveIsRecorded(d, w) /\ OpsAreAwaited(o, d, w) /\ ForcedRestores(d, w) /\ PendingWorks(d, l)
         /\ d.pending = c /\ (d.call[c].phase \notin {"held", "completing"} \/ d.call[c].cancelled) =>
              \A k \in Claims : ~w.ctl[k].active
BY PartsTyped DEF Fits, CallsFit, PendingWorks, ActiveIsRecorded, HumanIsRecorded

\* A new call keeps the invariant.
LEMMA AgentToolActKeeps ==
  ASSUME ControlAssumption, ControlIInv, NEW c \in Calls, AgentToolAct(c)
  PROVE  ControlIInv'
<1>0. Fits(desk, web, line, ops) /\ RestTyped BY DEF ControlIInv
<1>1. RestTyped' BY <1>0 DEF RestTyped, AgentToolAct
<1> DEFINE u == desk.call[c]
           t == [u EXCEPT !.at = "queued"]
           r == CallWith(desk, c, t, desk.pending, desk.webOwner, desk.authority)
<1>2. /\ desk \in DeskRec /\ u \in CallRec /\ CallFits(desk, web, c) /\ u.at = "none" /\ c # 0
      /\ desk.pending \in 0..MaxCalls /\ desk.webOwner \in BOOLEAN /\ line \in Seq(Calls)
      /\ desk.authority \in {"idle", "agent", "web", "takeover"} /\ ops \in Seq(OpRec)
      /\ ActiveIsRecorded(desk, web) /\ OpsAreAwaited(ops, desk, web)
      /\ ForcedRestores(desk, web) /\ PendingWorks(desk, line)
  BY <1>0, CallFacts DEF AgentToolAct
<1>3. desk' = r /\ line' = Append(line, c) /\ UNCHANGED <<web, ops>>
  BY <1>2 DEF CallWith, DeskRec, AgentToolAct
<1>4. /\ t \in CallRec /\ t.at = "queued" /\ t.back = u.back /\ t.phase = u.phase
      /\ t.cancelled = u.cancelled /\ t.backGate = u.backGate /\ t.activated = u.activated
      /\ t.completion = u.completion /\ t.stop = u.stop /\ t.stopGate = u.stopGate
  BY <1>2 DEF CallRec
<1> HIDE DEF t, u
<1>5. /\ r.pending = desk.pending /\ r.webOwner = desk.webOwner /\ r.authority = desk.authority
      /\ r.call[c] = t /\ \A j \in Calls : j # c => r.call[j] = desk.call[j]
  BY <1>2 DEF CallWith, DeskRec
<1>6. desk.pending # c BY <1>2 DEF PendingWorks, Working, u
<1> HIDE DEF r
<1>7. CallFits(r, web, c) BY <1>2, <1>4, <1>5, <1>6 DEF CallFits, u
<1>8. PendingWorks(r, Append(line, c)) /\ Append(line, c) \in Seq(Calls)
  <2>1. line # <<>> => Head(Append(line, c)) = Head(line) BY <1>2
  <2>2. Append(line, c) # <<>> /\ Append(line, c) \in Seq(Calls) BY <1>2
  <2> HIDE DEF Working
  <2>3. \A j \in Calls : r.call[j].at \in Working <=> r.pending = j
    BY <1>2, <1>4, <1>5, <1>6 DEF PendingWorks, Working
  <2> QED BY <1>2, <1>5, <2>1, <2>2, <2>3 DEF PendingWorks
<1>9. ForcedRestores(r, web) BY <1>4, <1>5, <1>2 DEF u, Calls, ControlAssumption, ForcedRestores
<1>10. ActiveIsRecorded(r, web)
  BY <1>2, <1>5, <1>6 DEF Calls, ControlAssumption, ActiveIsRecorded, HumanIsRecorded
<1>11. OpsAreAwaited(ops, r, web)
  <2>1. \A j \in Calls : /\ r.call[j].back = desk.call[j].back
                         /\ desk.call[j].at = "acting" => r.call[j].at = "acting"
    BY <1>2, <1>4, <1>5 DEF u
  <2>2. \A x \in OpRec : OpIsAwaited(x, desk, web) => OpIsAwaited(x, r, web)
    BY <2>1 DEF OpIsAwaited, OpRec
  <2> QED BY <1>2, <2>2, OpsStay
<1>12. Fits(r, web, Append(line, c), ops)
  BY ZenonT(60), <1>0, <1>2, <1>4, <1>7, <1>8, <1>9, <1>10, <1>11, CallChanges DEF r
<1> QED BY <1>1, <1>3, <1>12, ControlPrimed

\* takeOver keeps the invariant.
LEMMA TakeOverKeeps ==
  ASSUME ControlAssumption, ControlIInv, NEW c \in Calls, TakeOver(c)
  PROVE  ControlIInv'
<1>0. Fits(desk, web, line, ops) /\ RestTyped BY DEF ControlIInv
<1>1. RestTyped' BY <1>0 DEF RestTyped, TakeOver
<1> DEFINE u == desk.call[c]
           t == [u EXCEPT !.phase = "takeover-requested", !.taking = TRUE]
           r == CallWith(desk, c, t, desk.pending, desk.webOwner, "takeover")
<1>2. /\ desk \in DeskRec /\ u \in CallRec /\ CallFits(desk, web, c)
      /\ desk.pending = c /\ u.phase \in {"running", "takeover-requested"}
      /\ \A k \in Claims : ~web.ctl[k].active
  BY <1>0, CallFacts DEF TakeOver
<1>3. desk' = r /\ UNCHANGED <<web, line, ops>>
  BY <1>2 DEF CallWith, DeskRec, TakeOver
<1>4. /\ t \in CallRec /\ t.at = u.at /\ t.back = u.back /\ t.phase = "takeover-requested"
      /\ t.cancelled = u.cancelled /\ t.backGate = u.backGate /\ t.activated = u.activated
      /\ t.completion = u.completion /\ t.stop = u.stop /\ t.stopGate = u.stopGate
  <2>1. [u EXCEPT !.phase = "takeover-requested"] \in CallRec BY <1>2 DEF CallRec, Phases
  <2>2. t \in CallRec BY <2>1 DEF CallRec
  <2> QED BY <1>2, <2>2 DEF CallRec
<1> HIDE DEF t, u
<1>5. r.pending = desk.pending /\ r.call[c] = t
  BY <1>2 DEF CallWith, DeskRec
<1> HIDE DEF r
<1>6. CallFits(r, web, c) BY <1>2, <1>4, <1>5 DEF CallFits, Human, u
<1>7. ActiveIsRecorded(r, web) BY <1>2 DEF ActiveIsRecorded
<1>8. Fits(r, web, line, ops) BY <1>0, <1>4, <1>6, <1>7, CallGoesOn DEF r, u
<1> QED BY <1>1, <1>3, <1>8, ControlPrimed

\* takeOver after the action it waited for keeps the invariant.
LEMMA TakeOverContinuesKeeps ==
  ASSUME ControlAssumption, ControlIInv, NEW c \in Calls, TakeOverContinues(c)
  PROVE  ControlIInv'
<1>0. Fits(desk, web, line, ops) /\ RestTyped BY DEF ControlIInv
<1>1. RestTyped' BY <1>0 DEF RestTyped, TakeOverContinues
<1> DEFINE u == desk.call[c]
           holds == desk.pending = c /\ ~u.cancelled /\ ~u.failed /\ u.phase = "takeover-requested"
           n == IF u.activated = "open" THEN "yes" ELSE u.activated
           t == IF holds THEN [u EXCEPT !.taking = FALSE, !.phase = "held", !.activated = n]
                         ELSE [u EXCEPT !.taking = FALSE]
           a == IF holds THEN "takeover" ELSE desk.authority
           r == CallWith(desk, c, t, desk.pending, desk.webOwner, a)
<1>2. /\ desk \in DeskRec /\ u \in CallRec /\ CallFits(desk, web, c)
      /\ u.at \notin {"revoking", "acting"} /\ (u.at \in Working <=> desk.pending = c)
      /\ ActiveIsRecorded(desk, web) /\ desk.authority \in {"idle", "agent", "web", "takeover"}
      /\ holds => \A k \in Claims : ~web.ctl[k].active
  BY <1>0, CallFacts DEF TakeOverContinues, TakeOverReady
<1>3. desk' = r /\ UNCHANGED <<web, line, ops>>
  <2>1. UNCHANGED <<web, line, ops>> BY DEF TakeOverContinues
  <2>2. CASE holds
    <3>1. desk' = [[desk EXCEPT !.call[c].taking = FALSE] EXCEPT !.authority = "takeover",
                      !.call[c].phase = "held",
                      !.call[c].activated = IF @ = "open" THEN "yes" ELSE @]
      BY <2>2 DEF TakeOverContinues
    <3> QED BY ZenonT(60), <1>2, <2>1, <2>2, <3>1 DEF CallWith, DeskRec, CallRec
  <2>3. CASE ~holds
    <3>1. desk' = [desk EXCEPT !.call[c].taking = FALSE]
      BY <2>3 DEF TakeOverContinues
    <3> QED BY <1>2, <2>1, <2>3, <3>1 DEF CallWith, DeskRec
  <2> QED BY <2>2, <2>3
<1>4. /\ t \in CallRec /\ t.at = u.at /\ t.back = u.back
      /\ t.phase = IF holds THEN "held" ELSE u.phase
      /\ t.cancelled = u.cancelled /\ t.backGate = u.backGate
      /\ t.activated = IF holds THEN n ELSE u.activated
      /\ t.completion = u.completion /\ t.stop = u.stop /\ t.stopGate = u.stopGate
  BY <1>2 DEF CallRec, Phases
<1> HIDE DEF t, a
<1>5. r.pending = desk.pending /\ r.call[c] = t /\ r.webOwner = desk.webOwner /\ r.authority = a
      /\ \A j \in Calls : j # c => r.call[j] = desk.call[j]
  BY <1>2 DEF CallWith, DeskRec
<1> HIDE DEF r
<1>6. CallFits(r, web, c)
  <2>1. CASE holds
    <3>1. u.at \in {"recording", "activating", "completing"} BY <1>2, <2>1 DEF Working
    <3>2. u.at # "recording" /\ u.completion = "open" BY <1>2, <2>1 DEF CallFits, CallRec
    <3>3. u.back = "no" BY <1>2, <2>1 DEF CallFits
    <3> QED BY <1>2, <1>4, <1>5, <2>1, <3>1, <3>2, <3>3 DEF CallFits
  <2>2. CASE ~holds BY <1>2, <1>4, <1>5, <2>2 DEF CallFits
  <2> QED BY <2>1, <2>2
<1>7. ActiveIsRecorded(r, web)
  <2>1. CASE holds BY <1>2, <2>1 DEF ActiveIsRecorded
  <2>2. CASE ~holds
    <3>1. desk.pending # 0 => desk.pending \in Calls BY <1>0, PartsTyped
    <3> QED BY <1>2, <1>4, <1>5, <2>2, <3>1 DEF ActiveIsRecorded, HumanIsRecorded, a
  <2> QED BY <2>1, <2>2
<1>8. a \in {"idle", "agent", "web", "takeover"} BY <1>2 DEF a
<1> HIDE DEF holds, n
<1>9. Fits(r, web, line, ops) BY <1>0, <1>4, <1>6, <1>7, <1>8, CallGoesOn DEF r
<1> QED BY <1>1, <1>3, <1>9, ControlPrimed

\* A rejected call is settled and no more than that.
LEMMA RejectedIs ==
  ASSUME NEW u \in CallRec
  PROVE  LET t == Rejected(u) IN
         /\ t \in CallRec /\ t.at = u.at /\ t.phase = u.phase /\ t.back = u.back
         /\ t.backGate = u.backGate /\ t.cancelled = u.cancelled /\ t.stopGate = u.stopGate
         /\ t.stop = "done" /\ t.activated # "open" /\ t.completion # "open"
BY ZenonT(60) DEF Rejected, CallRec

\* The end of a cancellation keeps the invariant.
LEMMA CancelRevertsKeeps ==
  ASSUME ControlAssumption, ControlIInv, NEW c \in Calls, CancelReverts(c)
  PROVE  ControlIInv'
<1>0. Fits(desk, web, line, ops) /\ RestTyped BY DEF ControlIInv
<1>1. RestTyped' BY <1>0 DEF RestTyped, CancelReverts
<1> DEFINE u == desk.call[c]
           t == Rejected(u)
           r == CallWith(desk, c, t, desk.pending, desk.webOwner, desk.authority)
<1>2. /\ desk \in DeskRec /\ u \in CallRec /\ CallFits(desk, web, c) /\ u.stop = "revoking"
      /\ ActiveIsRecorded(desk, web) /\ desk.authority \in {"idle", "agent", "web", "takeover"}
  BY <1>0, CallFacts DEF CancelReverts, CancelRevertsReady
<1>3. desk' = r /\ UNCHANGED <<web, line, ops>>
  BY <1>2 DEF CallWith, DeskRec, CancelReverts
<1>4. /\ t \in CallRec /\ t.at = u.at /\ t.phase = u.phase /\ t.back = u.back
      /\ t.backGate = u.backGate /\ t.cancelled = u.cancelled /\ t.stopGate = u.stopGate
      /\ t.stop = "done" /\ t.activated # "open" /\ t.completion # "open"
  BY <1>2, RejectedIs
<1> HIDE DEF t
<1>5. r.pending = desk.pending /\ r.call[c] = t /\ r.webOwner = desk.webOwner
      /\ r.authority = desk.authority /\ \A j \in Calls : j # c => r.call[j] = desk.call[j]
  BY <1>2 DEF CallWith, DeskRec
<1> HIDE DEF r
<1>6. u.cancelled BY <1>2 DEF CallFits
<1>7. CallFits(r, web, c) BY <1>2, <1>4, <1>5, <1>6 DEF CallFits
<1>8. ActiveIsRecorded(r, web)
  <2>1. desk.pending = 0 \/ desk.pending \in Calls
    <3>1. desk.pending \in 0..MaxCalls /\ Calls = 1..MaxCalls /\ MaxCalls \in Nat BY <1>0, PartsTyped
    <3> QED BY <3>1
  <2>2. HumanIsRecorded(desk) => HumanIsRecorded(r)
    BY <2>1, <1>4, <1>5 DEF HumanIsRecorded
  <2> QED BY <1>2, <2>2 DEF ActiveIsRecorded
<1>9. Fits(r, web, line, ops) BY <1>0, <1>2, <1>4, <1>7, <1>8, CallGoesOn DEF r
<1> QED BY <1>1, <1>3, <1>9, ControlPrimed

\* How the record looks once a call has ended.
LEMMA EndedIs ==
  ASSUME NEW d \in DeskRec, NEW c \in Calls, d.pending = c, NEW e \in DeskRec,
         NEW u \in CallRec, u.at = d.call[c].at, e = [d EXCEPT !.call = [d.call EXCEPT ![c] = u]]
  PROVE  Ended(e, c) = CallWith(d, c, [u EXCEPT !.at = "ended"], 0, d.webOwner, "idle")
BY DEF Ended, CallWith, DeskRec

\* A call that goes on after its activation keeps the invariant.
LEMMA CallActivatedKeeps ==
  ASSUME ControlAssumption, ControlIInv, NEW c \in Calls, CallActivated(c)
  PROVE  ControlIInv'
<1>0. Fits(desk, web, line, ops) /\ RestTyped BY DEF ControlIInv
<1>1. RestTyped' BY <1>0 DEF RestTyped, CallActivated
<1> DEFINE u == desk.call[c]
<1>2. /\ desk \in DeskRec /\ u \in CallRec /\ CallFits(desk, web, c) /\ u.at = "activating"
      /\ ActiveIsRecorded(desk, web) /\ desk.authority \in {"idle", "agent", "web", "takeover"}
      /\ desk.pending = c
  BY <1>0, CallFacts DEF CallActivated, CallActivatedReady, Working
<1>3. CASE u.activated = "no" \/ u.cancelled
  <2> DEFINE t == [u EXCEPT !.at = "ended"]
             r == CallWith(desk, c, t, 0, desk.webOwner, "idle")
  <2>1. desk' = r /\ line' = Tail(line) /\ UNCHANGED <<web, ops>>
    BY <1>2, <1>3, EndedIs DEF DeskRec, CallActivated
  <2>2. /\ t \in CallRec /\ t.at = "ended" /\ t.phase = u.phase /\ t.back = u.back
        /\ t.backGate = u.backGate /\ t.cancelled = u.cancelled /\ t.activated = u.activated
        /\ t.completion = u.completion /\ t.stop = u.stop /\ t.stopGate = u.stopGate
    BY <1>2 DEF CallRec
  <2>3. u.cancelled BY <1>2, <1>3 DEF CallFits
  <2> HIDE DEF t
  <2>4. Fits(r, web, Tail(line), ops) BY <1>0, <1>2, <2>2, <2>3, EndedFits
  <2> HIDE DEF r
  <2> QED BY <1>1, <2>1, <2>4, ControlPrimed
<1>4. CASE ~(u.activated = "no" \/ u.cancelled)
  <2> DEFINE t == [u EXCEPT !.at = "completing"]
             r == CallWith(desk, c, t, desk.pending, desk.webOwner, desk.authority)
  <2>1. desk' = r /\ UNCHANGED <<web, line, ops>>
    BY <1>2, <1>4 DEF CallActivated, CallWith, DeskRec
  <2>2. /\ t \in CallRec /\ t.at = "completing" /\ t.phase = u.phase /\ t.back = u.back
        /\ t.backGate = u.backGate /\ t.cancelled = u.cancelled /\ t.activated = u.activated
        /\ t.completion = u.completion /\ t.stop = u.stop /\ t.stopGate = u.stopGate
    BY <1>2 DEF CallRec
  <2> HIDE DEF t
  <2>3. r.pending = desk.pending /\ r.call[c] = t /\ r.authority = desk.authority
    BY <1>2 DEF CallWith, DeskRec
  <2> HIDE DEF r
  <2>4. CallFits(r, web, c) BY <1>2, <2>2, <2>3 DEF CallFits
  <2>5. ActiveIsRecorded(r, web)
    BY <1>2, <2>2, <2>3, CallFacts, <1>0 DEF ActiveIsRecorded, HumanIsRecorded
  <2>6. Fits(r, web, line, ops) BY <1>0, <1>2, <2>2, <2>4, <2>5, CallGoesOn DEF r, Working
  <2> QED BY <1>1, <2>1, <2>6, ControlPrimed
<1> QED BY <1>3, <1>4

\* A call that goes on after the human is done keeps the invariant.
LEMMA CallCompletedKeeps ==
  ASSUME ControlAssumption, ControlIInv, NEW c \in Calls, CallCompleted(c)
  PROVE  ControlIInv'
<1>0. Fits(desk, web, line, ops) /\ RestTyped BY DEF ControlIInv
<1>1. RestTyped' BY <1>0 DEF RestTyped, CallCompleted
<1> DEFINE u == desk.call[c]
           t == [u EXCEPT !.at = "ended"]
           r == CallWith(desk, c, t, 0, desk.webOwner, "idle")
<1>2. /\ desk \in DeskRec /\ u \in CallRec /\ CallFits(desk, web, c) /\ u.at = "completing"
      /\ desk.pending = c /\ u.completion # "open"
  BY <1>0, CallFacts DEF CallCompleted, CallCompletedReady, Working
<1>3. desk' = r /\ line' = Tail(line) /\ UNCHANGED <<web, ops>>
  BY <1>2, EndedIs DEF DeskRec, CallCompleted
<1>4. /\ t \in CallRec /\ t.at = "ended" /\ t.phase = u.phase /\ t.back = u.back
      /\ t.backGate = u.backGate /\ t.cancelled = u.cancelled /\ t.activated = u.activated
      /\ t.completion = u.completion /\ t.stop = u.stop /\ t.stopGate = u.stopGate
  BY <1>2 DEF CallRec
<1>5. u.cancelled \/ (u.phase \notin Human /\ u.back = "no") BY <1>2 DEF CallFits
<1> HIDE DEF t
<1>6. Fits(r, web, Tail(line), ops) BY <1>0, <1>2, <1>4, <1>5, EndedFits
<1> HIDE DEF r
<1> QED BY <1>1, <1>3, <1>6, ControlPrimed
\* A call that goes on after Web Control was revoked for it keeps the invariant.
LEMMA CallRevokedKeeps ==
  ASSUME ControlAssumption, ControlIInv, NEW c \in Calls, CallRevoked(c)
  PROVE  ControlIInv'
<1>0. Fits(desk, web, line, ops) /\ RestTyped BY DEF ControlIInv
<1>1. RestTyped' BY <1>0 DEF RestTyped, CallRevoked
<1> DEFINE u == desk.call[c]
<1>2. /\ desk \in DeskRec /\ u \in CallRec /\ CallFits(desk, web, c) /\ u.at = "revoking"
      /\ desk.pending = c /\ desk.webOwner \in BOOLEAN /\ ops \in Seq(OpRec) /\ web \in WebRec
      /\ desk.authority \in {"idle", "agent", "web", "takeover"} /\ line \in Seq(Calls)
      /\ PendingWorks(desk, line) /\ ForcedRestores(desk, web) /\ ActiveIsRecorded(desk, web)
      /\ OpsAreAwaited(ops, desk, web) /\ c \in 0..MaxCalls /\ c # 0
  BY <1>0, CallFacts, PartsTyped DEF CallRevoked, CallRevokedReady, Working
<1>3. u.phase \notin Human /\ u.back = "no" BY <1>2 DEF CallFits
<1>4. CASE ReleaseFailed(desk.call[c].gate) \/ desk.call[c].aborted
  <2> DEFINE v == [u EXCEPT !.failed = TRUE]
             t == [v EXCEPT !.at = "ended"]
             e == [desk EXCEPT !.call[c].failed = TRUE]
             r == CallWith(desk, c, t, 0, desk.webOwner, "idle")
  <2>1. v \in CallRec /\ v.at = u.at BY <1>2 DEF CallRec
  <2>2. e = [desk EXCEPT !.call = [desk.call EXCEPT ![c] = v]] /\ e \in DeskRec
    <3>1. e = [desk EXCEPT !.call = [desk.call EXCEPT ![c] = v]] BY <1>2 DEF DeskRec
    <3> HIDE DEF v, e
    <3> QED BY <1>2, <2>1, <3>1 DEF DeskRec
  <2>3. desk' = Ended(e, c) /\ line' = Tail(line) /\ UNCHANGED <<web, ops>>
    BY <1>4 DEF CallRevoked
  <2>4. /\ t \in CallRec /\ t.at = "ended" /\ t.phase = u.phase /\ t.back = u.back
        /\ t.backGate = u.backGate /\ t.cancelled = u.cancelled /\ t.activated = u.activated
        /\ t.completion = u.completion /\ t.stop = u.stop /\ t.stopGate = u.stopGate
    BY <1>2 DEF CallRec
  <2> HIDE DEF v, e
  <2>5. desk' = r BY <1>2, <2>1, <2>2, <2>3, EndedIs
  <2> HIDE DEF t
  <2>6. Fits(r, web, Tail(line), ops) BY <1>0, <1>2, <1>3, <2>4, EndedFits
  <2> HIDE DEF r
  <2> QED BY <1>1, <2>3, <2>5, <2>6, ControlPrimed
<1>5. CASE ~(ReleaseFailed(desk.call[c].gate) \/ desk.call[c].aborted)
  <2> DEFINE t == [u EXCEPT !.at = "acting"]
             r == CallWith(desk, c, t, desk.pending, desk.webOwner, desk.authority)
             x == [op |-> "act", by |-> c]
  <2>1. desk' = r /\ ops' = Append(ops, x) /\ UNCHANGED <<web, line>>
    BY <1>2, <1>5 DEF CallRevoked, CallWith, DeskRec
  <2>2. /\ t \in CallRec /\ t.at = "acting" /\ t.phase = u.phase /\ t.back = u.back
        /\ t.backGate = u.backGate /\ t.cancelled = u.cancelled /\ t.activated = u.activated
        /\ t.completion = u.completion /\ t.stop = u.stop /\ t.stopGate = u.stopGate
    BY <1>2 DEF CallRec
  <2> HIDE DEF t
  <2>3. /\ r.pending = desk.pending /\ r.call[c] = t
        /\ \A j \in Calls : j # c => r.call[j] = desk.call[j]
    BY <1>2 DEF CallWith, DeskRec
  <2>4. x \in OpRec /\ x.op = "act" /\ x.by = c BY <1>2 DEF OpRec, ControlAssumption
  <2> HIDE DEF r, x
  <2>5. CallFits(r, web, c) BY <1>2, <1>3, <2>2, <2>3 DEF CallFits
  <2>6. ActiveIsRecorded(r, web)
    BY <1>2, <1>3 DEF ActiveIsRecorded, HumanIsRecorded, Human
  <2>7. Fits(r, web, line, ops) BY <1>0, <1>2, <2>2, <2>5, <2>6, CallGoesOn DEF r, Working
  <2>8. ~OpIsAwaited(x, desk, web) /\ OpIsAwaited(x, r, web)
    BY <1>2, <2>2, <2>3, <2>4 DEF OpIsAwaited
  <2>9. \A y \in OpRec : OpIsAwaited(y, desk, web) => OpIsAwaited(y, r, web)
    <3>1. \A j \in Calls : /\ r.call[j].back = desk.call[j].back
                           /\ desk.call[j].at = "acting" => r.call[j].at = "acting"
      BY <1>2, <2>2, <2>3
    <3> QED BY <3>1 DEF OpIsAwaited, OpRec
  <2>10. PICK o2 : o2 = ops' OBVIOUS
  <2>11. o2 \in Seq(OpRec) /\ OpsAreAwaited(o2, r, web)
    BY <1>2, <2>1, <2>4, <2>8, <2>9, <2>10, OpsAppended
  <2>12. Fits(r, web, line, o2) BY <2>7, <2>11 DEF Fits
  <2> QED BY <1>1, <2>1, <2>10, <2>12, ControlPrimed
<1> QED BY <1>4, <1>5

\* The first of the line starts, which keeps the invariant.
LEMMA CallStartsKeeps ==
  ASSUME ControlAssumption, ControlIInv, NEW c \in Calls, CallStarts(c)
  PROVE  ControlIInv'
<1>0. Fits(desk, web, line, ops) /\ RestTyped BY DEF ControlIInv
<1> DEFINE u == desk.call[c]
<1>1. /\ desk \in DeskRec /\ u \in CallRec /\ CallFits(desk, web, c) /\ u.at = "queued"
      /\ line # <<>> /\ Head(line) = c /\ desk.webOwner \in BOOLEAN /\ ops \in Seq(OpRec)
      /\ desk.authority \in {"idle", "agent", "web", "takeover"} /\ line \in Seq(Calls)
      /\ PendingWorks(desk, line) /\ ForcedRestores(desk, web) /\ ActiveIsRecorded(desk, web)
      /\ OpsAreAwaited(ops, desk, web) /\ c \in 0..MaxCalls /\ c # 0 /\ web \in WebRec
      /\ web.now \in 0..web.last /\ web.now \in 0..MaxClaims
  BY <1>0, CallFacts, PartsTyped DEF CallStarts, CallStartsReady
<1>2. desk.pending = 0
  BY <1>1 DEF PendingWorks, Working
<1>3. u.phase \notin Human /\ u.back = "no" BY <1>1 DEF CallFits
<1>4. CASE desk.call[c].aborted
  <2> DEFINE t == [u EXCEPT !.at = "ended"]
             r == CallWith(desk, c, t, desk.pending, desk.webOwner, desk.authority)
  <2>1. desk' = r /\ line' = Tail(line) /\ UNCHANGED <<web, view, ops, busy, screen, held>>
    BY <1>1, <1>4 DEF CallStarts, CallWith, DeskRec
  <2>2. /\ t \in CallRec /\ t.at = "ended" /\ t.phase = u.phase /\ t.back = u.back
        /\ t.backGate = u.backGate /\ t.cancelled = u.cancelled /\ t.activated = u.activated
        /\ t.completion = u.completion /\ t.stop = u.stop /\ t.stopGate = u.stopGate
    BY <1>1 DEF CallRec
  <2> HIDE DEF t
  <2>3. /\ r.pending = 0 /\ r.call[c] = t /\ r.webOwner = desk.webOwner /\ r.authority = desk.authority
        /\ \A j \in Calls : j # c => r.call[j] = desk.call[j]
    BY <1>1, <1>2 DEF CallWith, DeskRec
  <2> HIDE DEF r
  <2>4. CallFits(r, web, c) BY <1>1, <1>3, <2>2, <2>3 DEF CallFits
  <2>5. ActiveIsRecorded(r, web)
    BY <1>1, <1>2, <2>3 DEF ActiveIsRecorded, HumanIsRecorded
  <2>6. Fits(r, web, line, ops) BY <1>0, <1>1, <2>2, <2>4, <2>5, CallGoesOn DEF r, Working
  <2>7. Tail(line) \in Seq(Calls) BY <1>1
  <2>8. PendingWorks(r, Tail(line)) BY <2>6, <2>3 DEF Fits, PendingWorks
  <2>9. Fits(r, web, Tail(line), ops) BY <2>6, <2>7, <2>8 DEF Fits
  <2>10. RestTyped' BY <1>0, <2>1 DEF RestTyped
  <2> QED BY <2>1, <2>9, <2>10, ControlPrimed
<1>5. CASE ~desk.call[c].aborted
  <2> DEFINE w == Revoked(web, web.now)
             g == web.now
             t == [u EXCEPT !.at = "revoking", !.gate = g]
             r == CallWith(desk, c, t, c, FALSE, "agent")
  <2>1. /\ desk' = r /\ web' = w /\ view' = Suspended(view)
        /\ UNCHANGED <<line, ops, busy, screen, held>>
    BY <1>1, <1>5 DEF CallStarts, CallWith, DeskRec
  <2>2. Fits(desk, w, line, ops) /\ w.now = 0 /\ \A k \in Claims : ~w.ctl[k].active
    BY <1>0, <1>1, RevokedFits
  <2> HIDE DEF w, g
  <2>3. /\ CallFits(desk, w, c) /\ ForcedRestores(desk, w) /\ OpsAreAwaited(ops, desk, w) /\ w \in WebRec
    BY <2>2, CallFacts DEF Fits
  <2>4. /\ t \in CallRec /\ t.at = "revoking" /\ t.phase = u.phase /\ t.back = u.back
        /\ t.backGate = u.backGate /\ t.cancelled = u.cancelled /\ t.activated = u.activated
        /\ t.completion = u.completion /\ t.stop = u.stop /\ t.stopGate = u.stopGate
    <3>1. [u EXCEPT !.at = "revoking"] \in CallRec BY ZenonT(60), <1>1 DEF CallRec
    <3>2. g \in 0..MaxClaims BY <1>1 DEF g
    <3>3. t \in CallRec BY <3>1, <3>2 DEF CallRec
    <3> QED BY <1>1, <3>3 DEF CallRec
  <2> HIDE DEF t
  <2>5. /\ r.pending = c /\ r.call[c] = t
        /\ \A j \in Calls : j # c => r.call[j] = desk.call[j]
    BY <1>1 DEF CallWith, DeskRec
  <2> HIDE DEF r
  <2>6. CallFits(r, w, c) BY <1>3, <2>3, <2>4, <2>5 DEF CallFits
  <2>7. PendingWorks(r, line)
    <3>1. \A j \in Calls : j # c => r.call[j].at \notin Working
      <4>1. \A j \in Calls : j # 0 BY <1>0, PartsTyped
      <4> QED BY <1>1, <1>2, <2>5, <4>1 DEF PendingWorks
    <3>2. r.call[c].at \in Working BY <2>4, <2>5 DEF Working
    <3> QED BY <1>1, <2>5, <3>1, <3>2 DEF PendingWorks
  <2>8. ForcedRestores(r, w) BY <1>0, PartsTyped, <2>2 DEF ForcedRestores
  <2>9. ActiveIsRecorded(r, w) BY <2>2 DEF ActiveIsRecorded
  <2>10. OpsAreAwaited(ops, r, w)
    <3>1. \A j \in Calls : /\ r.call[j].back = desk.call[j].back
                           /\ desk.call[j].at = "acting" => r.call[j].at = "acting"
      BY <1>1, <2>4, <2>5
    <3>2. \A y \in OpRec : OpIsAwaited(y, desk, w) => OpIsAwaited(y, r, w)
      BY <3>1 DEF OpIsAwaited, OpRec
    <3> QED BY <1>1, <2>3, <3>2, OpsStay
  <2>11. Fits(r, w, line, ops)
    BY <1>1, <1>2, <2>2, <2>4, <2>6, <2>7, <2>8, <2>9, <2>10, CallChanges DEF r
  <2>12. RestTyped' BY <1>0, <2>1 DEF RestTyped, Suspended
  <2> QED BY <2>1, <2>11, <2>12, ControlPrimed
<1> QED BY <1>4, <1>5

\* #cancelPending of the call at work, once nobody is in control if a human has it.
LEMMA CancelledFits ==
  ASSUME ControlAssumption, NEW d, NEW w, NEW l, NEW o, Fits(d, w, l, o), NEW c \in Calls,
         d.pending = c, NEW k \in 0..MaxClaims, Gone(w, k), \A j \in Claims : ~w.ctl[j].active,
         d.call[c].phase \in Human => w.now = 0
  PROVE  Fits(Cancelled(d, c, k), w, l, o)
<1> DEFINE u == d.call[c]
           q == [u EXCEPT !.cancelled = TRUE, !.phase = "settled"]
           t == IF u.phase \in Human THEN [q EXCEPT !.stop = "revoking", !.stopGate = k] ELSE Rejected(q)
           r == CallWith(d, c, t, d.pending, d.webOwner, "idle")
<1>1. CASE ~Cancellable(d, c) BY <1>1 DEF Cancelled
<1>2. CASE Cancellable(d, c)
  <2>1. /\ d \in DeskRec /\ u \in CallRec /\ CallFits(d, w, c) /\ ~u.cancelled /\ w \in WebRec
        /\ Newest(w) /\ OpsAreAwaited(o, d, w) /\ l \in Seq(Calls) /\ o \in Seq(OpRec)
        /\ ForcedRestores(d, w) /\ PendingWorks(d, l) /\ d.webOwner \in BOOLEAN
        /\ c # 0 /\ MaxClaims \in Nat /\ Claims = 1..MaxClaims /\ w.last \in 0..MaxClaims
    BY <1>2, CallFacts, PartsTyped DEF Cancellable
  <2>2. Cancelled(d, c, k) = r BY <1>2, <2>1 DEF Cancelled, CallWith, DeskRec
  <2>3. q \in CallRec /\ q.at = u.at /\ q.back = u.back /\ q.backGate = u.backGate
        /\ q.cancelled /\ q.phase = "settled" /\ q.stopGate = u.stopGate
        /\ q.activated = u.activated /\ q.completion = u.completion
    <3>1. [u EXCEPT !.cancelled = TRUE] \in CallRec BY <2>1 DEF CallRec
    <3>2. q \in CallRec BY ZenonT(60), <3>1 DEF CallRec, Phases
    <3> QED BY <2>1, <3>2 DEF CallRec
  <2> HIDE DEF q
  <2>4. /\ t \in CallRec /\ t.at = u.at /\ t.back = u.back /\ t.backGate = u.backGate
        /\ t.cancelled /\ t.phase = "settled"
        /\ \/ u.phase \in Human /\ t.stop = "revoking" /\ t.stopGate = k
           \/ u.phase \notin Human /\ t.stop = "done" /\ t.activated # "open" /\ t.completion # "open"
    <3>1. CASE u.phase \in Human
      <4>1. [q EXCEPT !.stop = "revoking"] \in CallRec BY <2>3 DEF CallRec
      <4>2. [q EXCEPT !.stop = "revoking", !.stopGate = k] \in CallRec BY <4>1 DEF CallRec
      <4> QED BY <2>3, <3>1, <4>2 DEF CallRec
    <3>2. CASE u.phase \notin Human BY <2>3, <3>2, RejectedIs
    <3> QED BY <3>1, <3>2
  <2> HIDE DEF t
  <2>5. /\ r.pending = c /\ r.call[c] = t
        /\ \A j \in Calls : j # c => r.call[j] = d.call[j]
    BY <2>1 DEF CallWith, DeskRec
  <2> HIDE DEF r
  <2>6. CallFits(r, w, c)
    <3>1. u.back = "restoring" => w.ctl[u.backGate].revoked
      <4> SUFFICES ASSUME u.back = "restoring" PROVE w.ctl[u.backGate].revoked OBVIOUS
      <4>1. u.phase \in Human /\ u.backGate \in 1..w.last BY <2>1 DEF CallFits, Human
      <4> QED BY <2>1, <4>1 DEF Newest
    <3>2. t.phase \notin Human BY <2>4 DEF Human
    <3> QED BY <2>1, <2>4, <2>5, <3>1, <3>2 DEF CallFits
  <2>7. PendingWorks(r, l) BY <2>1, <2>4, <2>5 DEF PendingWorks
  <2>8. ForcedRestores(r, w)
    <3>1. \A j \in Claims : ~(w.ctl[j].force /\ w.now = j /\ w.ctl[j].claim \in {"barred", "asking"})
      <4> SUFFICES ASSUME NEW j \in Claims, w.ctl[j].force, w.now = j, w.ctl[j].claim \in {"barred", "asking"}
                   PROVE  FALSE
        OBVIOUS
      <4>1. u.phase \notin Human BY <2>1
      <4>2. u.back = "restoring" BY <2>1 DEF ForcedRestores
      <4> QED BY <2>1, <4>1, <4>2 DEF CallFits, Human
    <3> QED BY <3>1 DEF ForcedRestores
  <2>9. ActiveIsRecorded(r, w) BY DEF ActiveIsRecorded
  <2>10. OpsAreAwaited(o, r, w)
    <3>1. \A j \in Calls : /\ r.call[j].back = d.call[j].back
                           /\ d.call[j].at = "acting" => r.call[j].at = "acting"
      BY <2>4, <2>5
    <3>2. \A y \in OpRec : OpIsAwaited(y, d, w) => OpIsAwaited(y, r, w)
      BY <3>1 DEF OpIsAwaited, OpRec
    <3> QED BY <2>1, <3>2, OpsStay
  <2>11. Fits(r, w, l, o)
    BY <2>1, <2>4, <2>6, <2>7, <2>8, <2>9, <2>10, CallChanges DEF r
  <2> QED BY <2>2, <2>11
<1> QED BY <1>1, <1>2

\* A Screen is lost.
LEMMA LostKeeps ==
  ASSUME ControlAssumption, NEW w, NEW l, NEW o, Fits(desk, w, l, o), l = line', o = ops',
         view \in [Sessions -> [mode : {"idle", "expanded", "closed"}, suspended : BOOLEAN]],
         busy' \in BOOLEAN, Lost(desk, w)
  PROVE  ControlIInv'
<1>1. w.now \in 0..w.last /\ w.now \in 0..MaxClaims /\ 0 \in 0..MaxClaims
  BY PartsTyped DEF ControlAssumption
<1> DEFINE v == Revoked(w, w.now)
           d == IF desk.pending = 0 THEN desk ELSE Cancelled(desk, desk.pending, w.now)
<1>2. /\ Fits(desk, v, l, o) /\ v.now = 0 /\ Gone(v, w.now) /\ \A j \in Claims : ~v.ctl[j].active
  BY <1>1, RevokedFits
<1>3. web' = v /\ desk' = d BY DEF Lost
<1> HIDE DEF v
<1>4. Fits(d, v, l, o)
  <2>1. CASE desk.pending = 0 BY <1>2, <2>1
  <2>2. CASE desk.pending # 0
    <3>1. desk.pending \in Calls BY <2>2, PartsTyped
    <3> QED BY <1>1, <1>2, <2>2, <3>1, CancelledFits
  <2> QED BY <2>1, <2>2
<1>5. RestTyped' BY <1>1 DEF RestTyped, Lost
<1> HIDE DEF d
<1> QED BY <1>3, <1>4, <1>5, ControlPrimed

\* The loss of the Screen keeps the invariant.
LEMMA ScreenLostKeeps ==
  ASSUME ControlAssumption, ControlIInv, ScreenLost
  PROVE  ControlIInv'
BY LostKeeps DEF ControlIInv, ScreenLost, RestTyped

\* The abort of a call keeps the invariant.
LEMMA AbortKeeps ==
  ASSUME ControlAssumption, ControlIInv, NEW c \in Calls, Abort(c)
  PROVE  ControlIInv'
<1>0. Fits(desk, web, line, ops) /\ RestTyped BY DEF ControlIInv
<1> DEFINE u == desk.call[c]
           t == [u EXCEPT !.aborted = TRUE]
           r == CallWith(desk, c, t, desk.pending, desk.webOwner, desk.authority)
<1>1. /\ desk \in DeskRec /\ u \in CallRec /\ CallFits(desk, web, c) /\ u.at \notin {"none", "ended"}
      /\ ActiveIsRecorded(desk, web) /\ desk.authority \in {"idle", "agent", "web", "takeover"}
      /\ (u.at \in Working <=> desk.pending = c)
      /\ web.now \in 0..web.last /\ web.now \in 0..MaxClaims
  BY <1>0, CallFacts, PartsTyped DEF Abort
<1>2. /\ t \in CallRec /\ t.at = u.at /\ t.phase = u.phase /\ t.back = u.back
      /\ t.backGate = u.backGate /\ t.cancelled = u.cancelled /\ t.activated = u.activated
      /\ t.completion = u.completion /\ t.stop = u.stop /\ t.stopGate = u.stopGate
  BY <1>1 DEF CallRec
<1> DEFINE f == [desk.call EXCEPT ![c] = t]
<1>3. [desk EXCEPT !.call[c].aborted = TRUE] = r
  <2>1. [desk EXCEPT !.call[c].aborted = TRUE] = [desk EXCEPT !.call = f] OBVIOUS
  <2> HIDE DEF f
  <2>2. [desk EXCEPT !.call = f] = [pending |-> desk.pending, webOwner |-> desk.webOwner,
                                    authority |-> desk.authority, call |-> f]
    BY <1>1 DEF DeskRec
  <2> QED BY <2>1, <2>2 DEF CallWith, f
<1> HIDE DEF t
<1>4. r.pending = desk.pending /\ r.call[c] = t /\ r.webOwner = desk.webOwner
      /\ r.authority = desk.authority /\ \A j \in Calls : j # c => r.call[j] = desk.call[j]
  BY <1>1 DEF CallWith, DeskRec
<1> HIDE DEF r
<1>5. CallFits(r, web, c) BY <1>1, <1>2, <1>4 DEF CallFits
<1>6. ActiveIsRecorded(r, web)
  <2>1. desk.pending # 0 => desk.pending \in Calls BY <1>0, PartsTyped
  <2> QED BY <1>1, <1>2, <1>4, <2>1 DEF ActiveIsRecorded, HumanIsRecorded
<1>7. Fits(r, web, line, ops) BY <1>0, <1>1, <1>2, <1>5, <1>6, CallGoesOn DEF r
<1> DEFINE revokes == u.at # "queued" /\ Cancellable(desk, c) /\ u.phase \in Human
<1>8. /\ desk' = (IF u.at # "queued" THEN Cancelled(r, c, web.now) ELSE r)
      /\ web' = (IF revokes THEN Revoked(web, web.now) ELSE web)
      /\ view' = (IF revokes THEN Suspended(view) ELSE view)
      /\ UNCHANGED <<line, ops, busy, screen, held>>
  BY <1>3 DEF Abort
<1>9. RestTyped' BY <1>0, <1>8 DEF RestTyped, Suspended
<1>10. CASE u.at = "queued"
  BY <1>7, <1>8, <1>9, <1>10, ControlPrimed
<1>11. CASE u.at # "queued"
  <2>1. r.pending = c /\ (Cancellable(r, c) <=> Cancellable(desk, c))
    BY <1>1, <1>11, <1>2, <1>4 DEF CallRec, Working, Cancellable
  <2>2. CASE revokes
    <3> DEFINE v == Revoked(web, web.now)
    <3>1. /\ Fits(r, v, line, ops) /\ v.now = 0 /\ Gone(v, web.now) /\ \A j \in Claims : ~v.ctl[j].active
      BY <1>1, <1>7, RevokedFits
    <3>2. web' = v /\ desk' = Cancelled(r, c, web.now) BY <1>8, <1>11, <2>2
    <3> HIDE DEF v
    <3>3. Fits(Cancelled(r, c, web.now), v, line, ops)
      BY <1>1, <2>1, <3>1, CancelledFits
    <3> QED BY <1>8, <1>9, <3>2, <3>3, ControlPrimed
  <2>3. CASE ~revokes
    <3>1. web' = web /\ desk' = Cancelled(r, c, web.now) BY <1>8, <1>11, <2>3
    <3>2. CASE ~Cancellable(r, c)
      <4>1. Cancelled(r, c, web.now) = r BY <3>2 DEF Cancelled
      <4> QED BY <1>7, <1>8, <1>9, <3>1, <4>1, ControlPrimed
    <3>3. CASE Cancellable(r, c)
      <4>1. u.phase \notin Human BY <1>11, <2>1, <2>3, <3>3
      <4>2. \A j \in Claims : ~web.ctl[j].active
        BY <1>0, <2>1, <1>4, <4>1, CallFacts DEF Human
      <4>3. Cancelled(r, c, web.now) = Cancelled(r, c, 0)
        BY <1>2, <1>4, <4>1 DEF Cancelled
      <4>4. Gone(web, 0) /\ 0 \in 0..MaxClaims BY DEF Gone, ControlAssumption
      <4>5. Fits(Cancelled(r, c, 0), web, line, ops)
        BY <1>2, <1>4, <1>7, <2>1, <4>1, <4>2, <4>4, CancelledFits
      <4> QED BY <1>8, <1>9, <3>1, <4>3, <4>5, ControlPrimed
    <3> QED BY <3>2, <3>3
  <2> QED BY <2>2, <2>3
<1> QED BY <1>10, <1>11
\* imDone keeps the invariant.
LEMMA ImDoneKeeps ==
  ASSUME ControlAssumption, ControlIInv, NEW c \in Calls, ImDone(c)
  PROVE  ControlIInv'
<1>0. Fits(desk, web, line, ops) /\ RestTyped BY DEF ControlIInv
<1> DEFINE u == desk.call[c]
           w == Revoked(web, web.now)
           g == web.now
           v == [u EXCEPT !.phase = "completing", !.back = "revoking"]
           t == [v EXCEPT !.backGate = g]
           r == CallWith(desk, c, t, desk.pending, desk.webOwner, desk.authority)
<1>1. /\ desk \in DeskRec /\ u \in CallRec /\ desk.pending = c /\ u.phase = "held" /\ u.back = "no"
      /\ RoomForClaim /\ desk.webOwner \in BOOLEAN /\ ops \in Seq(OpRec) /\ line \in Seq(Calls)
      /\ desk.authority \in {"idle", "agent", "web", "takeover"} /\ PendingWorks(desk, line)
      /\ web.now \in 0..web.last /\ web.now \in 0..MaxClaims /\ web.last \in Nat /\ c # 0
      /\ \A k \in Claims : k # 0
  BY <1>0, CallFacts, PartsTyped DEF ImDone
<1>2. Fits(desk, w, line, ops) /\ w.now = 0 /\ w.last = web.last /\ \A k \in Claims : ~w.ctl[k].active
  BY <1>0, <1>1, RevokedFits
<1>3. w.last < MaxClaims BY <1>1, <1>2, RoomIsLeft
<1>4. /\ desk' = r /\ web' = w /\ view' = Suspended(view)
      /\ UNCHANGED <<line, ops, busy, screen, held>>
  <2>1. /\ web' = w /\ view' = Suspended(view) /\ UNCHANGED <<line, ops, busy, screen, held>>
    BY DEF ImDone
  <2>2. desk' = [desk EXCEPT !.call[c].phase = "completing", !.call[c].back = "revoking",
                             !.call[c].backGate = web.now]
    BY DEF ImDone
  <2> HIDE DEF w
  <2>3. desk' = [desk EXCEPT !.call = [desk.call EXCEPT ![c] = t]]
    BY ZenonT(60), <1>1, <2>2 DEF DeskRec, CallRec
  <2>4. desk' = r BY <1>1, <2>3 DEF DeskRec, CallWith
  <2> QED BY <2>1, <2>4 DEF w
<1> HIDE DEF w, g
<1>5. CallFits(desk, w, c) /\ ForcedRestores(desk, w) /\ OpsAreAwaited(ops, desk, w) /\ w \in WebRec
  BY <1>2, CallFacts DEF Fits
<1>6. /\ t \in CallRec /\ t.at = u.at /\ t.phase = "completing" /\ t.back = "revoking"
      /\ t.cancelled = u.cancelled /\ t.activated = u.activated
      /\ t.completion = u.completion /\ t.stop = u.stop /\ t.stopGate = u.stopGate
  <2>1. [u EXCEPT !.phase = "completing"] \in CallRec BY ZenonT(60), <1>1 DEF CallRec, Phases
  <2>2. v \in CallRec BY <2>1 DEF CallRec
  <2>3. g \in 0..MaxClaims BY <1>1 DEF g
  <2>4. t \in CallRec BY <2>2, <2>3 DEF CallRec
  <2> QED BY <1>1, <2>4 DEF CallRec
<1> HIDE DEF t, v
<1>7. /\ r.pending = desk.pending /\ r.call[c] = t
      /\ \A j \in Calls : j # c => r.call[j] = desk.call[j]
  BY <1>1 DEF CallWith, DeskRec
<1> HIDE DEF r
<1>8. CallFits(r, w, c)
  BY <1>1, <1>2, <1>3, <1>5, <1>6, <1>7 DEF CallFits, Human, GivingBack
<1>9. PendingWorks(r, line) BY <1>1, <1>6, <1>7 DEF PendingWorks
<1>10. ForcedRestores(r, w) BY <1>1, <1>2 DEF ForcedRestores
<1>11. ActiveIsRecorded(r, w) BY <1>2 DEF ActiveIsRecorded
<1>12. OpsAreAwaited(ops, r, w)
  <2>1. \A j \in Calls : /\ desk.call[j].back = "observing" => r.call[j].back = "observing"
                         /\ desk.call[j].at = "acting" => r.call[j].at = "acting"
    BY <1>1, <1>6, <1>7
  <2>2. \A y \in OpRec : OpIsAwaited(y, desk, w) => OpIsAwaited(y, r, w)
    BY <2>1 DEF OpIsAwaited, OpRec
  <2> QED BY <1>1, <1>5, <2>2, OpsStay
<1>13. Fits(r, w, line, ops)
  BY <1>1, <1>2, <1>6, <1>8, <1>9, <1>10, <1>11, <1>12, CallChanges DEF r
<1>14. RestTyped' BY <1>0, <1>4 DEF RestTyped, Suspended
<1> QED BY <1>4, <1>13, <1>14, ControlPrimed

-----------------------------------------------------------------------------
(* The human is done, and the Screen is given back. *)

\* A Takeover that is being given back goes on, is over, or waits for a human again.
LEMMA GiveBackFits ==
  ASSUME ControlAssumption, NEW d, NEW w, NEW l, NEW o, Fits(d, w, l, o), NEW c \in Calls,
         NEW u, u = d.call[c], u.back \in GivingBack, NEW t \in CallRec,
         t.at = u.at, t.backGate = u.backGate, t.cancelled = u.cancelled, t.activated = u.activated,
         t.stop = u.stop, t.stopGate = u.stopGate,
         NEW a \in {"idle", "agent", "web", "takeover"},
         \/ u.cancelled /\ t.back = "no" /\ t.phase = u.phase /\ t.completion = u.completion
                        /\ a = d.authority
         \/ ~u.cancelled /\ t.back \in GivingBack /\ t.phase = u.phase /\ t.completion = u.completion
         \/ ~u.cancelled /\ t.back = "no" /\ t.phase \in {"waiting", "completing"}
                         /\ t.completion = u.completion
         \/ ~u.cancelled /\ t.back = "no" /\ t.phase = "settled" /\ t.completion # "no",
         NEW r, r = CallWith(d, c, t, d.pending, d.webOwner, a),
         NEW o2 \in Seq(OpRec), OpsAreAwaited(o2, r, w)
  PROVE  Fits(r, w, l, o2)
<1>1. /\ d \in DeskRec /\ u \in CallRec /\ CallFits(d, w, c) /\ d.webOwner \in BOOLEAN /\ w \in WebRec
      /\ ForcedRestores(d, w) /\ PendingWorks(d, l) /\ ActiveIsRecorded(d, w) /\ l \in Seq(Calls)
      /\ c # 0 /\ Newest(w) /\ d.pending \in 0..MaxCalls
      /\ \A k \in Claims : k # 0 /\ (w.ctl[k].claim # "none" => k <= w.last)
      /\ (d.pending # 0 => d.pending \in Calls)
  BY CallFacts, PartsTyped
<1>2. /\ r.pending = d.pending /\ r.webOwner = d.webOwner /\ r.authority = a /\ r.call[c] = t
      /\ \A j \in Calls : j # c => r.call[j] = d.call[j]
  BY <1>1 DEF CallWith, DeskRec
<1>3. ~u.cancelled => w.now = 0 /\ \A k \in Claims : ~w.ctl[k].active BY <1>1 DEF CallFits, Newest
<1>4. CallFits(r, w, c)
  BY <1>1, <1>2 DEF CallFits, Human, GivingBack
<1>5. PendingWorks(r, l) BY <1>1, <1>2 DEF PendingWorks
<1>6. ForcedRestores(r, w)
  <2>1. CASE ~u.cancelled BY <1>1, <1>3, <2>1 DEF ForcedRestores
  <2>2. CASE u.cancelled
    <3>1. \A j \in Calls : /\ r.call[j].back = "restoring" =>
                                d.call[j].back = "restoring" /\ r.call[j] = d.call[j]
                           /\ ~d.call[j].cancelled => r.call[j] = d.call[j]
      BY <1>2, <2>2
    <3> QED BY <1>1, <1>2, <3>1 DEF ForcedRestores
  <2> QED BY <2>1, <2>2
<1>7. ActiveIsRecorded(r, w)
  <2>1. CASE ~u.cancelled BY <1>3, <2>1 DEF ActiveIsRecorded
  <2>2. CASE u.cancelled
    BY <1>1, <1>2, <2>2 DEF ActiveIsRecorded, HumanIsRecorded
  <2> QED BY <2>1, <2>2
<1> QED BY <1>1, <1>2, <1>4, <1>5, <1>6, <1>7, CallChanges

\* imDone restores the control of a viewer: the new claim is its own.
LEMMA RestoringFits ==
  ASSUME ControlAssumption, NEW d, NEW w, NEW l, NEW o, Fits(d, w, l, o), NEW c \in Calls,
         NEW u, u = d.call[c], d.pending = c, ~u.cancelled, u.phase = "completing", u.back = "no",
         w.now = 0, w.last < MaxClaims, NEW s \in Sessions,
         NEW t \in CallRec, t.at = u.at, t.phase = u.phase, t.cancelled = u.cancelled,
         t.activated = u.activated, t.completion = u.completion, t.stop = u.stop,
         t.stopGate = u.stopGate, t.back = "restoring", t.backGate = w.last + 1,
         NEW r, r = CallWith(d, c, t, d.pending, d.webOwner, d.authority)
  PROVE  Fits(r, Claimed(w, s, TRUE), l, o)
<1>1. /\ d \in DeskRec /\ u \in CallRec /\ CallFits(d, w, c) /\ d.webOwner \in BOOLEAN /\ w \in WebRec
      /\ PendingWorks(d, l) /\ l \in Seq(Calls) /\ d.authority \in {"idle", "agent", "web", "takeover"}
      /\ c # 0 /\ MaxClaims \in Nat /\ Claims = 1..MaxClaims /\ w.last \in 0..MaxClaims
      /\ \A k \in Claims : k # 0
  BY CallFacts, PartsTyped
<1>2. /\ r.pending = c /\ r.call[c] = t /\ \A j \in Calls : j # c => r.call[j] = d.call[j]
  BY <1>1 DEF CallWith, DeskRec
<1> DEFINE x == Claimed(w, s, FALSE)
           y == Claimed(w, s, TRUE)
           k == w.last + 1
<1>3. k \in Claims BY <1>1
<1>4. Fits(d, x, l, o)
  <2>1. \A j \in Calls : d.call[j].back \in GivingBack => d.call[j].cancelled
    <3> SUFFICES ASSUME NEW j \in Calls, d.call[j].back \in GivingBack, ~d.call[j].cancelled
                 PROVE  FALSE
      OBVIOUS
      <3>1. CallFits(d, w, j) BY CallFacts
    <3>2. d.pending = j BY <3>1 DEF CallFits, GivingBack
    <3> QED BY <3>2 DEF GivingBack
  <2> QED BY <2>1, ClaimedFits
<1>5. /\ y.now = k /\ y.last = k /\ x.now = k /\ x.last = k /\ y.barrier = x.barrier
      /\ y \in WebRec
      /\ ~x.ctl[k].active /\ ~x.ctl[k].force /\ y.ctl[k].force /\ x.ctl[k].claim = "barred"
      /\ \A j \in Claims :
           /\ j # k => y.ctl[j] = x.ctl[j]
           /\ y.ctl[j].claim = x.ctl[j].claim /\ y.ctl[j].after = x.ctl[j].after
           /\ y.ctl[j].prior = x.ctl[j].prior /\ y.ctl[j].release = x.ctl[j].release
           /\ y.ctl[j].revoked = x.ctl[j].revoked /\ y.ctl[j].active = x.ctl[j].active
           /\ y.ctl[j].sending = x.ctl[j].sending
  <2> DEFINE v == Revoked(w, w.now)
             p == [NewController EXCEPT !.session = s, !.force = FALSE, !.claim = "barred", !.after = v.barrier]
             q == [NewController EXCEPT !.session = s, !.force = TRUE, !.claim = "barred", !.after = v.barrier]
  <2>1. v = w BY DEF Revoked
  <2>2. /\ p.claim = q.claim /\ p.after = q.after /\ p.prior = q.prior /\ p.release = q.release
        /\ p.revoked = q.revoked /\ p.active = q.active /\ p.sending = q.sending
        /\ ~p.force /\ q.force /\ ~p.active /\ p.claim = "barred"
    BY DEF NewController
  <2>3. x = [w EXCEPT !.now = k, !.last = k, !.ctl[k] = p] BY <2>1 DEF Claimed
  <2>4. y = [w EXCEPT !.now = k, !.last = k, !.ctl[k] = q] BY <2>1 DEF Claimed
  <2>5. q \in CtlRec
    <3>1. 0 \in 0..MaxInputs /\ 0 \in 0..MaxClaims /\ w.barrier \in 0..MaxClaims
      BY <1>1 DEF ControlAssumption, WebRec
    <3>2. NewController \in CtlRec BY <3>1 DEF NewController, CtlRec
    <3> QED BY <2>1, <3>1, <3>2 DEF CtlRec
  <2> HIDE DEF p, q, x, y, v
  <2>6. x = [now |-> k, last |-> k, barrier |-> w.barrier, ctl |-> [w.ctl EXCEPT ![k] = p]]
    BY <1>1, <2>3 DEF WebRec
  <2>7. y = [now |-> k, last |-> k, barrier |-> w.barrier, ctl |-> [w.ctl EXCEPT ![k] = q]]
    BY <1>1, <2>4 DEF WebRec
  <2>8. k \in 0..MaxClaims /\ w.ctl \in [Claims -> CtlRec] BY <1>1 DEF WebRec
  <2> HIDE DEF k
  <2>9. x.now = k /\ x.last = k /\ x.barrier = w.barrier /\ x.ctl[k] = p
        /\ \A j \in Claims : j # k => x.ctl[j] = w.ctl[j]
    BY <1>3, <2>6, <2>8
  <2>10. y.now = k /\ y.last = k /\ y.barrier = w.barrier /\ y.ctl[k] = q
        /\ \A j \in Claims : j # k => y.ctl[j] = w.ctl[j]
    BY <1>3, <2>7, <2>8
  <2>11. y \in WebRec BY <1>1, <1>3, <2>5, <2>7, <2>8 DEF WebRec
  <2> QED BY ZenonT(60), <1>3, <2>2, <2>9, <2>10, <2>11
<1> HIDE DEF x, y
<1>6. /\ Newest(x) /\ InOrder(x) /\ CallsFit(d, x) /\ ForcedRestores(d, x) /\ OpsAreAwaited(o, d, x)
      /\ ActiveIsRecorded(d, x) /\ o \in Seq(OpRec)
  BY <1>4 DEF Fits
<1> HIDE DEF k
<1>7. Newest(y)
  BY <1>5, <1>6 DEF Newest
<1>8. InOrder(y)
  BY <1>5, <1>6 DEF InOrder, Owes
<1>9. \A j \in Claims : ~y.ctl[j].active
  <2>1. \A j \in Claims : y.ctl[j].active => ~y.ctl[j].revoked /\ j <= y.last
    BY <1>5, <1>7, PartsTyped, <1>4 DEF Newest
  <2>2. \A j \in Claims : y.ctl[j].active => j = k BY <1>5, <1>7, <2>1 DEF Newest
  <2> QED BY <1>5, <2>2
<1>10. r \in DeskRec BY <1>1 DEF CallWith, DeskRec
<1>11. CallsFit(r, y)
  <2> SUFFICES ASSUME NEW j \in Calls PROVE CallFits(r, y, j) BY DEF CallsFit
  <2>1. CASE j = c
    <3>1. y.last = k /\ k \in 1..y.last BY <1>1, <1>3, <1>5
    <3>2. t.backGate = k BY DEF k
    <3> QED BY <1>1, <1>2, <2>1, <3>1, <3>2 DEF CallFits, GivingBack, Human
  <2>2. CASE j # c
    <3>1. CallFits(d, x, j) /\ d.call[j] \in CallRec BY <1>1, <1>4, CallFacts
    <3>2. d.call[j].stopGate \in 0..MaxClaims /\ x.last = k BY <1>5, <3>1 DEF CallRec
    <3>3. \A i \in 1..x.last : i \in Claims BY <1>1, <1>3, <3>2
    <3>4. Gone(x, d.call[j].stopGate) => Gone(y, d.call[j].stopGate)
      BY <1>1, <1>5, <3>2 DEF Gone
    <3> QED BY <1>1, <1>2, <1>5, <2>2, <3>1, <3>3, <3>4 DEF CallFits
  <2> QED BY <2>1, <2>2
<1>12. PendingWorks(r, l) BY <1>1, <1>2 DEF PendingWorks
<1>13. ForcedRestores(r, y) BY <1>5, <1>1, <1>2, <1>9 DEF k, ForcedRestores
<1>14. ActiveIsRecorded(r, y) BY <1>9 DEF ActiveIsRecorded
<1>15. OpsAreAwaited(o, r, y)
  <2>1. \A j \in Calls : /\ d.call[j].back = "observing" => r.call[j].back = "observing"
                         /\ d.call[j].at = "acting" => r.call[j].at = "acting"
    BY <1>1, <1>2
  <2>2. \A i \in OpRec : OpIsAwaited(i, d, x) => OpIsAwaited(i, r, y)
    <3>1. \A j \in Claims : /\ y.ctl[j].claim = x.ctl[j].claim /\ y.ctl[j].release = x.ctl[j].release
                            /\ x.ctl[j].sending => y.ctl[j].sending
      BY <1>5
    <3> SUFFICES ASSUME NEW i \in OpRec, OpIsAwaited(i, d, x) PROVE OpIsAwaited(i, r, y) OBVIOUS
    <3>2. i.op \in {"claim", "release", "input", "act", "observe"} BY DEF OpRec
    <3>3. CASE i.op \in {"claim", "release", "input"} BY ZenonT(60), <3>1, <3>3 DEF OpIsAwaited
    <3>4. CASE i.op \in {"act", "observe"} BY <2>1, <3>4 DEF OpIsAwaited
    <3> QED BY <3>2, <3>3, <3>4
  <2> QED BY <1>6, <2>2, OpsStay
<1> QED BY <1>1, <1>5, <1>6, <1>7, <1>8, <1>10, <1>11, <1>12, <1>13, <1>14, <1>15 DEF Fits, y
\* The catch of imDone.
LEMMA BackFailsKeeps ==
  ASSUME ControlAssumption, ControlIInv, NEW c \in Calls, desk.call[c].back \in GivingBack,
         BackFails(c, desk), UNCHANGED <<line, screen, held>>, busy' \in BOOLEAN,
         \/ ops' = ops /\ desk.call[c].back # "observing"
         \/ ops # <<>> /\ Head(ops) = [op |-> "observe", by |-> c] /\ ops' = Tail(ops)
  PROVE  ControlIInv'
<1>0. Fits(desk, web, line, ops) /\ RestTyped BY DEF ControlIInv
<1> DEFINE u == desk.call[c]
<1>1. /\ desk \in DeskRec /\ u \in CallRec /\ CallFits(desk, web, c) /\ c # 0
      /\ desk.pending \in 0..MaxCalls /\ desk.webOwner \in BOOLEAN /\ ops \in Seq(OpRec)
      /\ OpsAreAwaited(ops, desk, web) /\ desk.authority \in {"idle", "agent", "web", "takeover"}
  BY <1>0, CallFacts
<1>2. PICK q : q = ops' OBVIOUS
<1>3. ASSUME NEW r, r.call[c].at = u.at, \A j \in Calls : j # c => r.call[j] = desk.call[j]
      PROVE  q \in Seq(OpRec) /\ OpsAreAwaited(q, r, web)
  <2>1. CASE ops' = ops /\ u.back # "observing"
    <3>1. \A j \in Calls : /\ desk.call[j].back = "observing" => r.call[j].back = "observing"
                           /\ desk.call[j].at = "acting" => r.call[j].at = "acting"
      BY <1>3, <2>1
    <3>2. \A x \in OpRec : OpIsAwaited(x, desk, web) => OpIsAwaited(x, r, web)
      BY <3>1 DEF OpIsAwaited, OpRec
    <3> QED BY <1>1, <1>2, <2>1, <3>2, OpsStay
  <2>2. CASE ops # <<>> /\ Head(ops) = [op |-> "observe", by |-> c] /\ ops' = Tail(ops)
    <3>1. \A x \in OpRec : x # Head(ops) /\ OpIsAwaited(x, desk, web) => OpIsAwaited(x, r, web)
      <4> SUFFICES ASSUME NEW x \in OpRec, x # Head(ops), OpIsAwaited(x, desk, web)
                   PROVE  OpIsAwaited(x, r, web)
        OBVIOUS
      <4>1. x.op = "observe" => x.by # c BY <2>2 DEF OpRec
      <4>2. x.op \in {"claim", "release", "input", "act", "observe"} BY DEF OpRec
      <4>3. \A j \in Calls : desk.call[j].at = "acting" => r.call[j].at = "acting" BY <1>3
      <4> QED BY <1>3, <4>1, <4>2, <4>3 DEF OpIsAwaited
    <3> QED BY <1>1, <1>2, <2>2, <3>1, OpsDropped
  <2> QED BY <2>1, <2>2
<1>4. CASE u.cancelled
  <2> DEFINE t == [u EXCEPT !.back = "no"]
             r == CallWith(desk, c, t, desk.pending, desk.webOwner, desk.authority)
  <2>1. desk' = r /\ UNCHANGED <<web, view>>
    BY <1>1, <1>4 DEF BackFails, CallWith, DeskRec
  <2>2. /\ t \in CallRec /\ t.at = u.at /\ t.phase = u.phase /\ t.back = "no"
        /\ t.backGate = u.backGate /\ t.cancelled = u.cancelled /\ t.activated = u.activated
        /\ t.completion = u.completion /\ t.stop = u.stop /\ t.stopGate = u.stopGate
    BY <1>1 DEF CallRec
  <2> HIDE DEF t
  <2>3. r.call[c] = t /\ \A j \in Calls : j # c => r.call[j] = desk.call[j]
    BY <1>1 DEF CallWith, DeskRec
  <2>4. q \in Seq(OpRec) /\ OpsAreAwaited(q, r, web) BY <1>3, <2>2, <2>3
  <2>5. Fits(r, web, line, q) BY <1>0, <1>1, <1>4, <2>2, <2>4, GiveBackFits
  <2> HIDE DEF r
  <2>6. RestTyped' BY <1>0, <2>1 DEF RestTyped
  <2> QED BY <1>2, <2>1, <2>5, <2>6, ControlPrimed
<1>5. CASE ~u.cancelled
  <2> DEFINE open == {s \in Sessions : view[s].mode = "expanded"}
             t == [u EXCEPT !.phase = "waiting", !.back = "no"]
             r == CallWith(desk, c, t, desk.pending, desk.webOwner, "idle")
             v == [u EXCEPT !.phase = "completing", !.back = "no"]
             e == CallWith(desk, c, v, desk.pending, desk.webOwner, desk.authority)
             g == web.last + 1
             z == [u EXCEPT !.phase = "completing", !.back = "restoring", !.backGate = g]
             f == CallWith(e, c, z, e.pending, e.webOwner, e.authority)
  <2>1. \/ desk' = r /\ web' = web /\ view' = view
        \/ \E s \in Sessions : desk' = r /\ web' = web /\ view' = [view EXCEPT ![s].suspended = TRUE]
        \/ \E s \in Sessions : /\ web' = Claimed(web, s, TRUE)
                               /\ view' = [view EXCEPT ![s].suspended = FALSE]
                               /\ desk' = f
    <3> DEFINE waits == [desk EXCEPT !.call[c].phase = "waiting", !.call[c].back = "no",
                                     !.authority = "idle"]
               restores == [[desk EXCEPT !.call[c].phase = "completing"]
                              EXCEPT !.call[c].back = "restoring", !.call[c].backGate = g]
    <3>1. waits = r
      <4>1. waits = [[desk EXCEPT !.call = [desk.call EXCEPT ![c] = t]] EXCEPT !.authority = "idle"]
        BY <1>1 DEF DeskRec, CallRec
      <4> HIDE DEF waits, t
      <4> QED BY <1>1, <4>1 DEF CallWith, DeskRec
    <3>2. restores = f
      <4> DEFINE y == [desk EXCEPT !.call[c].phase = "completing"]
                 p == [u EXCEPT !.phase = "completing"]
      <4>1. y = [desk EXCEPT !.call = [desk.call EXCEPT ![c] = p]] BY <1>1 DEF DeskRec
      <4>2. /\ y.call \in [Calls -> CallRec] /\ y.call[c] = p
            /\ y.call = [desk.call EXCEPT ![c] = p]
            /\ y = [pending |-> desk.pending, webOwner |-> desk.webOwner,
                    authority |-> desk.authority, call |-> y.call]
        <5>1. p \in CallRec BY <1>1 DEF CallRec, Phases
        <5> HIDE DEF y, p
        <5> QED BY <1>1, <4>1, <5>1 DEF DeskRec
      <4>3. restores = [y EXCEPT !.call = [y.call EXCEPT ![c] = [p EXCEPT !.back = "restoring", !.backGate = g]]]
        <5>1. restores = [y EXCEPT !.call[c].back = "restoring", !.call[c].backGate = g] OBVIOUS
        <5>2. y \in DeskRec
          <6> HIDE DEF y
          <6> QED BY <1>1, <4>2 DEF DeskRec
        <5> HIDE DEF restores, y, p, g
        <5> QED BY <4>2, <5>1, <5>2 DEF DeskRec, CallRec
      <4>4. [p EXCEPT !.back = "restoring", !.backGate = g] = z BY <1>1 DEF CallRec
      <4> HIDE DEF restores, y, p, z, g
      <4>5. [y.call EXCEPT ![c] = z] = [desk.call EXCEPT ![c] = z]
        BY <1>1, <4>2 DEF DeskRec
      <4>6. restores = [pending |-> desk.pending, webOwner |-> desk.webOwner,
                        authority |-> desk.authority, call |-> [desk.call EXCEPT ![c] = z]]
        BY <4>2, <4>3, <4>4, <4>5
      <4>7. [[desk.call EXCEPT ![c] = v] EXCEPT ![c] = z] = [desk.call EXCEPT ![c] = z]
        BY <1>1 DEF DeskRec
      <4> QED BY <4>6, <4>7 DEF CallWith
    <3>3. \/ desk' = waits /\ web' = web /\ view' = view
          \/ \E s \in Sessions : desk' = waits /\ web' = web /\ view' = [view EXCEPT ![s].suspended = TRUE]
          \/ \E s \in Sessions : /\ web' = Claimed(web, s, TRUE)
                                 /\ view' = [view EXCEPT ![s].suspended = FALSE]
                                 /\ desk' = restores
      BY <1>5 DEF BackFails
    <3> HIDE DEF waits, restores, r, f
    <3> QED BY <3>1, <3>2, <3>3
  <2>2. CASE desk' = r /\ web' = web /\ (view' = view \/ \E s \in Sessions : view' = [view EXCEPT ![s].suspended = TRUE])
    <3>1. /\ t \in CallRec /\ t.at = u.at /\ t.phase = "waiting" /\ t.back = "no"
          /\ t.backGate = u.backGate /\ t.cancelled = u.cancelled /\ t.activated = u.activated
          /\ t.completion = u.completion /\ t.stop = u.stop /\ t.stopGate = u.stopGate
      BY <1>1 DEF CallRec, Phases
    <3> HIDE DEF t
    <3>2. r.call[c] = t /\ \A j \in Calls : j # c => r.call[j] = desk.call[j]
      BY <1>1 DEF CallWith, DeskRec
    <3>3. q \in Seq(OpRec) /\ OpsAreAwaited(q, r, web) BY <1>3, <3>1, <3>2
    <3>4. Fits(r, web, line, q) BY <1>0, <1>1, <1>5, <3>1, <3>3, GiveBackFits
    <3> HIDE DEF r
    <3>5. RestTyped' BY ZenonT(60), <1>0, <2>2 DEF RestTyped
    <3> QED BY <1>2, <2>2, <3>4, <3>5, ControlPrimed
  <2>3. ASSUME NEW s \in Sessions, web' = Claimed(web, s, TRUE),
               view' = [view EXCEPT ![s].suspended = FALSE], desk' = f
        PROVE  ControlIInv'
    <3>1. /\ v \in CallRec /\ v.at = u.at /\ v.phase = "completing" /\ v.back = "no"
          /\ v.backGate = u.backGate /\ v.cancelled = u.cancelled /\ v.activated = u.activated
          /\ v.completion = u.completion /\ v.stop = u.stop /\ v.stopGate = u.stopGate
      BY <1>1 DEF CallRec, Phases
    <3>2. web.now = 0 /\ web.last < MaxClaims /\ desk.pending = c
      BY <1>1, <1>5 DEF CallFits, GivingBack
    <3>3. g \in 0..MaxClaims BY <1>0, <3>2, PartsTyped
    <3>4. /\ z \in CallRec /\ z.at = v.at /\ z.phase = v.phase /\ z.back = "restoring" /\ z.backGate = g
          /\ z.cancelled = v.cancelled /\ z.activated = v.activated
          /\ z.completion = v.completion /\ z.stop = v.stop /\ z.stopGate = v.stopGate
      <4> HIDE DEF g
      <4>1. [u EXCEPT !.phase = "completing"] \in CallRec BY <1>1 DEF CallRec, Phases
      <4>2. [u EXCEPT !.phase = "completing", !.back = "restoring"] \in CallRec BY <4>1 DEF CallRec
      <4>3. z \in CallRec BY <3>3, <4>2 DEF CallRec
      <4> QED BY <1>1, <4>3 DEF CallRec
    <3> HIDE DEF v, z
    <3>5. e.call[c] = v /\ e.pending = c /\ \A j \in Calls : j # c => e.call[j] = desk.call[j]
      BY <1>1, <3>2 DEF CallWith, DeskRec
    <3>6. q \in Seq(OpRec) /\ OpsAreAwaited(q, e, web) BY <1>3, <3>1, <3>5
    <3>7. Fits(e, web, line, q) BY <1>0, <1>1, <1>5, <3>1, <3>6, GiveBackFits
    <3> HIDE DEF e
    <3>8. Fits(f, Claimed(web, s, TRUE), line, q)
      BY <1>5, <3>1, <3>2, <3>4, <3>5, <3>7, RestoringFits
    <3> HIDE DEF f
    <3>9. RestTyped' BY <1>0, <2>3 DEF RestTyped
    <3> QED BY <1>2, <2>3, <3>8, <3>9, ControlPrimed
  <2> HIDE DEF r, f
  <2> QED BY <2>1, <2>2, <2>3
<1> QED BY <1>4, <1>5

\* imDone goes on.
LEMMA BackGoesOnKeeps ==
  ASSUME ControlAssumption, ControlIInv, NEW c \in Calls, desk.call[c].back \in GivingBack,
         ~desk.call[c].cancelled, NEW b \in GivingBack, b # desk.call[c].back,
         desk' = [desk EXCEPT !.call[c].back = b],
         UNCHANGED <<web, view, line, screen, held>>, busy' \in BOOLEAN,
         \/ b = "observing" /\ ops' = Append(ops, [op |-> "observe", by |-> c])
         \/ ops # <<>> /\ Head(ops) = [op |-> "observe", by |-> c] /\ ops' = Tail(ops)
  PROVE  ControlIInv'
<1>0. Fits(desk, web, line, ops) /\ RestTyped BY DEF ControlIInv
<1> DEFINE u == desk.call[c]
           t == [u EXCEPT !.back = b]
           r == CallWith(desk, c, t, desk.pending, desk.webOwner, desk.authority)
           x == [op |-> "observe", by |-> c]
<1>1. /\ desk \in DeskRec /\ u \in CallRec /\ ops \in Seq(OpRec) /\ OpsAreAwaited(ops, desk, web)
      /\ desk.authority \in {"idle", "agent", "web", "takeover"} /\ c \in Nat
  BY <1>0, CallFacts, PartsTyped DEF ControlAssumption
<1>2. desk' = r BY <1>1 DEF CallWith, DeskRec
<1>3. /\ t \in CallRec /\ t.at = u.at /\ t.phase = u.phase /\ t.back = b
      /\ t.backGate = u.backGate /\ t.cancelled = u.cancelled /\ t.activated = u.activated
      /\ t.completion = u.completion /\ t.stop = u.stop /\ t.stopGate = u.stopGate
  BY <1>1 DEF GivingBack, CallRec
<1> HIDE DEF t
<1>4. r.call[c] = t /\ \A j \in Calls : j # c => r.call[j] = desk.call[j]
  BY <1>1 DEF CallWith, DeskRec
<1>5. x \in OpRec /\ x.op = "observe" /\ x.by = c BY <1>1 DEF OpRec
<1>6. PICK q : q = ops' OBVIOUS
<1>7. q \in Seq(OpRec) /\ OpsAreAwaited(q, r, web)
  <2>0. \A j \in Calls : desk.call[j].at = "acting" => r.call[j].at = "acting" BY <1>3, <1>4
  <2>1. CASE b = "observing" /\ ops' = Append(ops, x)
    <3> HIDE DEF x, r
    <3>1. ~OpIsAwaited(x, desk, web) /\ OpIsAwaited(x, r, web)
      BY <1>3, <1>4, <1>5, <2>1 DEF OpIsAwaited
    <3>2. \A y \in OpRec : OpIsAwaited(y, desk, web) => OpIsAwaited(y, r, web)
      BY <1>3, <1>4, <2>1, <2>0 DEF OpIsAwaited, OpRec
    <3> QED BY <1>1, <1>5, <1>6, <2>1, <3>1, <3>2, OpsAppended
  <2>2. CASE ops # <<>> /\ Head(ops) = x /\ ops' = Tail(ops)
    <3> HIDE DEF x, r
    <3>1. \A y \in OpRec : y # Head(ops) /\ OpIsAwaited(y, desk, web) => OpIsAwaited(y, r, web)
      <4> SUFFICES ASSUME NEW y \in OpRec, y # Head(ops), OpIsAwaited(y, desk, web)
                   PROVE  OpIsAwaited(y, r, web)
        OBVIOUS
      <4>1. y.op = "observe" => y.by # c BY <2>2 DEF OpRec, x
      <4>2. y.op \in {"claim", "release", "input", "act", "observe"} BY DEF OpRec
      <4> QED BY <1>4, <2>0, <4>1, <4>2 DEF OpIsAwaited
    <3> QED BY <1>1, <1>6, <2>2, <3>1, OpsDropped
  <2> QED BY <2>1, <2>2
<1>8. Fits(r, web, line, q) BY <1>0, <1>1, <1>3, <1>7, GiveBackFits
<1> HIDE DEF r
<1>9. RestTyped' BY <1>0 DEF RestTyped
<1> QED BY <1>2, <1>6, <1>8, <1>9, ControlPrimed

\* imDone after Web Control was revoked keeps the invariant.
LEMMA BackRevokedKeeps ==
  ASSUME ControlAssumption, ControlIInv, NEW c \in Calls, BackRevoked(c)
  PROVE  ControlIInv'
<1>1. desk.call[c].back = "revoking" /\ desk.call[c].back \in GivingBack
  BY DEF BackRevoked, BackRevokedReady, GivingBack
<1>2. UNCHANGED <<line, busy, screen, held>> /\ busy' \in BOOLEAN
  BY DEF BackRevoked, ControlIInv, RestTyped
<1>3. CASE ReleaseFailed(desk.call[c].backGate) \/ desk.call[c].cancelled
  <2>1. BackFails(c, desk) /\ ops' = ops BY <1>3 DEF BackRevoked
  <2> QED BY <1>1, <1>2, <2>1, BackFailsKeeps
<1>4. CASE ~(ReleaseFailed(desk.call[c].backGate) \/ desk.call[c].cancelled)
  <2>1. /\ desk' = [desk EXCEPT !.call[c].back = "observing"] /\ UNCHANGED <<web, view>>
        /\ ops' = Append(ops, [op |-> "observe", by |-> c])
    BY <1>4 DEF BackRevoked
  <2>2. "observing" \in GivingBack BY DEF GivingBack
  <2> QED BY <1>1, <1>2, <1>4, <2>1, <2>2, BackGoesOnKeeps
<1> QED BY <1>3, <1>4

\* The head of the queue of the Surface is one that is awaited.
LEMMA HeadIsAwaited ==
  ASSUME ControlAssumption, NEW d, NEW w, NEW l, NEW o, Fits(d, w, l, o), o # <<>>
  PROVE  Head(o) \in OpRec /\ OpIsAwaited(Head(o), d, w) /\ Tail(o) \in Seq(OpRec)
<1>1. o \in Seq(OpRec) /\ OpsAreAwaited(o, d, w) BY DEF Fits
<1>2. 1 \in DOMAIN o /\ Head(o) = o[1] /\ o[1] \in OpRec BY <1>1
<1> QED BY <1>1, <1>2 DEF OpsAreAwaited

\* The observation of imDone keeps the invariant.
LEMMA ObserveEndsKeeps ==
  ASSUME ControlAssumption, ControlIInv, NEW c \in Calls, ops # <<>>, ObserveEnds(c)
  PROVE  ControlIInv'
<1>0. Fits(desk, web, line, ops) BY DEF ControlIInv
<1>1. Head(ops) = [op |-> "observe", by |-> c] BY DEF ObserveEnds, Runs
<1>2. desk.call[c].back = "observing"
  <2>1. OpIsAwaited(Head(ops), desk, web) BY <1>0, HeadIsAwaited
  <2>2. Head(ops).op = "observe" /\ Head(ops).by = c BY <1>1
  <2> QED BY <2>1, <2>2 DEF OpIsAwaited
<1>3. desk.call[c].back \in GivingBack /\ "recording" \in GivingBack BY <1>2 DEF GivingBack
<1>4. UNCHANGED <<line, screen, held>> /\ busy' \in BOOLEAN /\ ops' = Tail(ops)
  BY DEF ObserveEnds, OperationOver
<1>5. CASE BackFails(c, desk) BY <1>1, <1>3, <1>4, <1>5, BackFailsKeeps
<1>6. CASE ~BackFails(c, desk)
  <2>1. /\ ~desk.call[c].cancelled /\ desk' = [desk EXCEPT !.call[c].back = "recording"]
        /\ UNCHANGED <<web, view>>
    BY <1>6 DEF ObserveEnds
  <2> QED BY <1>1, <1>2, <1>3, <1>4, <2>1, BackGoesOnKeeps
<1> QED BY <1>5, <1>6
\* A result written to disk keeps the invariant.
LEMMA RecordedKeeps ==
  ASSUME ControlAssumption, ControlIInv, NEW c \in Calls, Recorded(c)
  PROVE  ControlIInv'
<1>0. Fits(desk, web, line, ops) /\ RestTyped BY DEF ControlIInv
<1> DEFINE u == desk.call[c]
<1>1. /\ desk \in DeskRec /\ u \in CallRec /\ CallFits(desk, web, c)
      /\ desk.authority \in {"idle", "agent", "web", "takeover"}
      /\ (u.at \in Working <=> desk.pending = c) /\ ops \in Seq(OpRec)
      /\ OpsAreAwaited(ops, desk, web)
  BY <1>0, CallFacts
<1>2. UNCHANGED <<ops, busy, screen, held>> /\ busy' \in BOOLEAN
  BY <1>0 DEF Recorded, RestTyped
<1>3. CASE /\ u.at = "recording" /\ desk' = Ended(desk, c) /\ line' = Tail(line)
           /\ UNCHANGED <<web, view>>
  <2> DEFINE t == [u EXCEPT !.at = "ended"]
             r == CallWith(desk, c, t, 0, desk.webOwner, "idle")
  <2>1. desk.pending = c BY <1>1, <1>3 DEF Working
  <2>2. desk' = r BY <1>1, <1>3, <2>1, EndedIs DEF DeskRec
  <2>3. /\ t \in CallRec /\ t.at = "ended" /\ t.phase = u.phase /\ t.back = u.back
        /\ t.backGate = u.backGate /\ t.cancelled = u.cancelled /\ t.activated = u.activated
        /\ t.completion = u.completion /\ t.stop = u.stop /\ t.stopGate = u.stopGate
    BY <1>1 DEF CallRec
  <2>4. u.phase \notin Human /\ u.back = "no" BY <1>1, <1>3 DEF CallFits
  <2> HIDE DEF t
  <2>5. Fits(r, web, Tail(line), ops) BY <1>0, <1>3, <2>1, <2>3, <2>4, EndedFits
  <2> HIDE DEF r
  <2>6. RestTyped' BY <1>0, <1>2, <1>3 DEF RestTyped
  <2> QED BY <1>2, <1>3, <2>2, <2>5, <2>6, ControlPrimed
<1>4. CASE u.back = "recording" /\ BackFails(c, desk) /\ line' = line
  <2>1. u.back \in GivingBack BY <1>4 DEF GivingBack
  <2> QED BY <1>2, <1>4, <2>1, BackFailsKeeps
<1>5. CASE /\ u.back = "recording" /\ ~u.cancelled /\ UNCHANGED <<web, view, line>>
           /\ desk' = [desk EXCEPT !.authority = "idle",
                                   !.call[c].phase = "settled", !.call[c].back = "no",
                                   !.call[c].completion = IF @ = "open" THEN "yes" ELSE @]
  <2> DEFINE n == IF u.completion = "open" THEN "yes" ELSE u.completion
             t == [u EXCEPT !.phase = "settled", !.back = "no", !.completion = n]
             r == CallWith(desk, c, t, desk.pending, desk.webOwner, "idle")
  <2>1. u.back \in GivingBack /\ u.completion = "open" BY <1>1, <1>5 DEF CallFits, GivingBack
  <2>2. desk' = r
    <3>1. desk' = [[desk EXCEPT !.call = [desk.call EXCEPT ![c] = t]] EXCEPT !.authority = "idle"]
      BY ZenonT(60), <1>1, <1>5 DEF DeskRec, CallRec
    <3> HIDE DEF t
    <3> QED BY <1>1, <3>1 DEF CallWith, DeskRec
  <2>3. /\ t \in CallRec /\ t.at = u.at /\ t.phase = "settled" /\ t.back = "no"
        /\ t.backGate = u.backGate /\ t.cancelled = u.cancelled /\ t.activated = u.activated
        /\ t.completion = n /\ t.stop = u.stop /\ t.stopGate = u.stopGate
    <3>1. n = "yes" BY <2>1
    <3> HIDE DEF n
    <3>2. [u EXCEPT !.phase = "settled"] \in CallRec BY <1>1 DEF CallRec, Phases
    <3>3. [u EXCEPT !.phase = "settled", !.back = "no"] \in CallRec BY <3>2 DEF CallRec
    <3>4. t \in CallRec BY <3>1, <3>3 DEF CallRec
    <3> QED BY <1>1, <3>4 DEF CallRec
  <2>4. n # "no" BY <2>1
  <2> HIDE DEF t, n
  <2>5. r.call[c] = t /\ \A j \in Calls : j # c => r.call[j] = desk.call[j]
    BY <1>1 DEF CallWith, DeskRec
  <2>6. OpsAreAwaited(ops, r, web)
    <3>1. \A j \in Calls : /\ desk.call[j].back = "observing" => r.call[j].back = "observing"
                           /\ desk.call[j].at = "acting" => r.call[j].at = "acting"
      BY <1>5, <2>3, <2>5
    <3>2. \A x \in OpRec : OpIsAwaited(x, desk, web) => OpIsAwaited(x, r, web)
      BY <3>1 DEF OpIsAwaited, OpRec
    <3> QED BY <1>1, <3>2, OpsStay
  <2>7. Fits(r, web, line, ops) BY <1>0, <1>1, <1>5, <2>1, <2>3, <2>4, <2>6, GiveBackFits
  <2> HIDE DEF r
  <2>8. RestTyped' BY <1>0, <1>2, <1>5 DEF RestTyped
  <2> QED BY <1>2, <1>5, <2>2, <2>7, <2>8, ControlPrimed
<1> QED BY <1>2, <1>3, <1>4, <1>5 DEF Recorded

\* imDone after the control was restored keeps the invariant.
LEMMA RestoredKeeps ==
  ASSUME ControlAssumption, ControlIInv, NEW c \in Calls, Restored(c)
  PROVE  ControlIInv'
<1>0. Fits(desk, web, line, ops) /\ RestTyped BY DEF ControlIInv
<1> DEFINE u == desk.call[c]
           k == u.backGate
           q == IF web.ctl[k].active THEN "held" ELSE "waiting"
           a == IF web.ctl[k].active THEN "takeover" ELSE "idle"
           t == [u EXCEPT !.back = "no", !.phase = q]
           r == CallWith(desk, c, t, desk.pending, desk.webOwner, a)
<1>1. /\ desk \in DeskRec /\ u \in CallRec /\ CallFits(desk, web, c) /\ c # 0
      /\ (u.at \in Working <=> desk.pending = c) /\ ops \in Seq(OpRec) /\ web \in WebRec
      /\ OpsAreAwaited(ops, desk, web) /\ ActiveIsRecorded(desk, web) /\ ForcedRestores(desk, web)
      /\ PendingWorks(desk, line) /\ line \in Seq(Calls) /\ u.back = "restoring"
      /\ web.ctl[k].claim = "back" /\ desk.pending \in 0..MaxCalls /\ desk.webOwner \in BOOLEAN
      /\ desk.authority \in {"idle", "agent", "web", "takeover"}
      /\ (desk.pending # 0 => desk.pending \in Calls)
  <2>1. u.back = "restoring" /\ web.ctl[k].claim = "back" BY ZenonT(60) DEF Restored, RestoredReady
  <2> HIDE DEF k
  <2> QED BY SMTT(30), <1>0, <2>1, CallFacts, PartsTyped
<1>2. k \in Claims /\ k \in 1..web.last
  BY <1>0, <1>1, PartsTyped DEF CallFits
<1>3. web.ctl[k].active => ~u.cancelled /\ desk.pending = c /\ u.phase = "completing"
  BY <1>1, <1>2 DEF ForcedRestores, CallFits
<1>4. \A j \in Claims : web.ctl[j].active => j = k
  BY SMTT(30), <1>1 DEF ForcedRestores
<1>5. /\ desk' = r /\ UNCHANGED <<web, line, ops, busy, screen, held>>
      /\ view' = view \/ view' = [view EXCEPT ![web.ctl[k].session].suspended = TRUE]
  <2>1. /\ UNCHANGED <<web, line, ops, busy, screen, held>>
        /\ view' = view \/ view' = [view EXCEPT ![web.ctl[k].session].suspended = TRUE]
    BY ZenonT(60) DEF Restored
  <2>2. desk' = [[desk EXCEPT !.call[c].back = "no"] EXCEPT !.call[c].phase = q, !.authority = a]
    BY ZenonT(60) DEF Restored
  <2> HIDE DEF q, a, k
  <2>3. desk' = [[desk EXCEPT !.call = [desk.call EXCEPT ![c] = t]] EXCEPT !.authority = a]
    BY <1>1, <2>2 DEF DeskRec, CallRec
  <2> HIDE DEF t
  <2>4. desk' = r BY <1>1, <2>3 DEF CallWith, DeskRec
  <2> QED BY ZenonT(60), <2>1, <2>4 DEF k
<1>6. /\ t \in CallRec /\ t.at = u.at /\ t.phase = q /\ t.back = "no"
      /\ t.backGate = u.backGate /\ t.cancelled = u.cancelled /\ t.activated = u.activated
      /\ t.completion = u.completion /\ t.stop = u.stop /\ t.stopGate = u.stopGate
  <2>1. q \in Phases BY DEF Phases
  <2> HIDE DEF q, k
  <2>2. [u EXCEPT !.back = "no"] \in CallRec BY <1>1 DEF CallRec
  <2>3. t \in CallRec BY <2>1, <2>2 DEF CallRec
  <2> QED BY <1>1, <2>3 DEF CallRec
<1> HIDE DEF t
<1>7. /\ r.pending = desk.pending /\ r.webOwner = desk.webOwner /\ r.authority = a /\ r.call[c] = t
      /\ \A j \in Calls : j # c => r.call[j] = desk.call[j]
  BY <1>1 DEF CallWith, DeskRec
<1> HIDE DEF r
<1>8. q \in Human /\ q # "settled" BY DEF Human
<1>9. CallFits(r, web, c)
  <2> HIDE DEF q, a, k
  <2> QED BY <1>1, <1>6, <1>7, <1>8 DEF CallFits, GivingBack
<1>10. PendingWorks(r, line) BY <1>1, <1>6, <1>7 DEF PendingWorks
<1>11. ForcedRestores(r, web)
  <2>1. ASSUME NEW j \in Claims, web.ctl[j].force, web.now = j, web.ctl[j].claim \in {"barred", "asking"}
        PROVE  /\ r.pending # 0 /\ ~r.call[r.pending].cancelled
               /\ r.call[r.pending].back = "restoring" /\ r.call[r.pending].backGate = j
    <3>1. /\ desk.pending # 0 /\ ~desk.call[desk.pending].cancelled
          /\ desk.call[desk.pending].back = "restoring" /\ desk.call[desk.pending].backGate = j
      BY <1>1, <2>1 DEF ForcedRestores
    <3>2. desk.pending # c BY <1>1, <2>1, <3>1
    <3> QED BY <1>1, <1>7, <3>1, <3>2
  <2>2. ASSUME NEW j \in Claims, web.ctl[j].active, NEW e \in Calls, r.call[e].back = "restoring"
        PROVE  r.call[e].backGate = j /\ ~r.call[e].cancelled
    <3>1. e # c BY <1>6, <1>7, <2>2
    <3> QED BY <1>1, <1>7, <2>2, <3>1 DEF ForcedRestores
  <2> QED BY <2>1, <2>2 DEF ForcedRestores
<1>12. ActiveIsRecorded(r, web)
  <2> SUFFICES ASSUME NEW j \in Claims, web.ctl[j].active PROVE HumanIsRecorded(r)
    BY DEF ActiveIsRecorded
  <2>1. web.ctl[k].active BY <1>4
  <2> QED BY <1>1, <1>3, <1>6, <1>7, <2>1 DEF HumanIsRecorded
<1>13. OpsAreAwaited(ops, r, web)
  <2>1. \A j \in Calls : /\ desk.call[j].back = "observing" => r.call[j].back = "observing"
                         /\ desk.call[j].at = "acting" => r.call[j].at = "acting"
    BY <1>1, <1>6, <1>7
  <2>2. \A x \in OpRec : OpIsAwaited(x, desk, web) => OpIsAwaited(x, r, web)
    BY <2>1 DEF OpIsAwaited, OpRec
  <2> QED BY <1>1, <2>2, OpsStay
<1>14. a \in {"idle", "agent", "web", "takeover"} OBVIOUS
<1> HIDE DEF a, q, k
<1>15. Fits(r, web, line, ops)
  BY <1>0, <1>1, <1>6, <1>9, <1>10, <1>11, <1>12, <1>13, <1>14, CallChanges DEF r
<1>16. RestTyped'
  <2>1. PICK s : view' = view \/ view' = [view EXCEPT ![s].suspended = TRUE] BY <1>5
  <2>2. view' \in [Sessions -> [mode : {"idle", "expanded", "closed"}, suspended : BOOLEAN]]
    <3> DEFINE v == [view EXCEPT ![s].suspended = TRUE]
               V == [Sessions -> [mode : {"idle", "expanded", "closed"}, suspended : BOOLEAN]]
    <3>0. view \in V BY <1>0 DEF RestTyped
    <3>1. s \in Sessions => v \in V BY <3>0
    <3>2. s \notin Sessions => v = view BY <3>0
    <3> HIDE DEF v, V
    <3>3. v \in V BY <3>0, <3>1, <3>2
    <3>4. view' = view \/ view' = v BY <2>1 DEF v
    <3>5. view' \in V BY <3>0, <3>3, <3>4
    <3> QED BY <3>5 DEF V
  <2> QED BY <1>0, <1>5, <2>2 DEF RestTyped
<1> QED BY <1>5, <1>15, <1>16, ControlPrimed

\* The end of an action keeps the invariant.
LEMMA ActEndsKeeps ==
  ASSUME ControlAssumption, ControlIInv, NEW c \in Calls, ops # <<>>, ActEnds(c)
  PROVE  ControlIInv'
<1>0. Fits(desk, web, line, ops) /\ RestTyped BY DEF ControlIInv
<1> DEFINE u == desk.call[c]
<1>1. Head(ops) = [op |-> "act", by |-> c] BY DEF ActEnds, Runs
<1>2. u.at = "acting"
  <2>1. OpIsAwaited(Head(ops), desk, web) BY <1>0, HeadIsAwaited
  <2>2. Head(ops).op = "act" /\ Head(ops).by = c BY <1>1
  <2> QED BY <2>1, <2>2 DEF OpIsAwaited
<1>3. /\ desk \in DeskRec /\ u \in CallRec /\ CallFits(desk, web, c) /\ desk.pending = c /\ c # 0
      /\ desk.authority \in {"idle", "agent", "web", "takeover"} /\ desk.webOwner \in BOOLEAN
      /\ ops \in Seq(OpRec) /\ OpsAreAwaited(ops, desk, web) /\ PendingWorks(desk, line)
      /\ line \in Seq(Calls) /\ ForcedRestores(desk, web)
  BY <1>0, <1>2, CallFacts DEF Working
<1>4. u.phase \notin Human /\ u.back = "no" BY <1>2, <1>3 DEF CallFits
<1>5. \A k \in Claims : ~web.ctl[k].active BY <1>0, <1>3, <1>4, CallFacts DEF Human
<1>6. /\ UNCHANGED <<web, view, screen>> /\ ops' = Tail(ops) /\ busy' = FALSE
      /\ held' = held \/ held' = [epoch |-> 0, keys |-> FALSE]
  BY DEF ActEnds, OperationOver
<1>7. RestTyped'
  <2>1. 0 \in 0..MaxClaims BY DEF ControlAssumption
  <2>2. held' \in [epoch : 0..MaxClaims, keys : BOOLEAN] 
    <3> DEFINE h == [epoch |-> 0, keys |-> FALSE]
    <3>1. held \in [epoch : 0..MaxClaims, keys : BOOLEAN] BY <1>0 DEF RestTyped
    <3>2. h \in [epoch : 0..MaxClaims, keys : BOOLEAN] BY <2>1
    <3> HIDE DEF h
    <3>3. held' = held \/ held' = h BY <1>6 DEF h
    <3> QED BY <3>1, <3>2, <3>3
  <2>3. view' = view /\ screen' = screen /\ busy' \in BOOLEAN BY <1>6
  <2> QED BY <1>0, <2>2, <2>3 DEF RestTyped
<1>8. ASSUME NEW e \in DeskRec, NEW v \in CallRec, e = [desk EXCEPT !.call = [desk.call EXCEPT ![c] = v]],
             v.at = u.at, v.phase = u.phase, v.back = u.back,
             v.backGate = u.backGate, v.cancelled = u.cancelled, v.activated = u.activated,
             v.completion = u.completion, v.stop = u.stop, v.stopGate = u.stopGate,
             desk' = Ended(e, c), line' = Tail(line)
      PROVE  ControlIInv'
  <2> DEFINE t == [v EXCEPT !.at = "ended"]
             r == CallWith(desk, c, t, 0, desk.webOwner, "idle")
  <2>1. desk' = r BY <1>3, <1>8, EndedIs
  <2>2. /\ t \in CallRec /\ t.at = "ended" /\ t.phase = u.phase /\ t.back = u.back
        /\ t.backGate = u.backGate /\ t.cancelled = u.cancelled /\ t.activated = u.activated
        /\ t.completion = u.completion /\ t.stop = u.stop /\ t.stopGate = u.stopGate
    BY <1>8 DEF CallRec
  <2> HIDE DEF t
  <2>3. Fits(r, web, Tail(line), Tail(ops)) BY <1>0, <1>1, <1>3, <1>4, <2>2, EndedFits
  <2> HIDE DEF r
  <2> QED BY <1>6, <1>7, <1>8, <2>1, <2>3, ControlPrimed
<1>9. ASSUME NEW b \in {"recording", "activating"}, NEW p \in Phases,
             b = "recording" => p = "settled", b # "recording" => p = u.phase, p \notin Human,
             NEW a \in {"idle", "agent", "web", "takeover"},
             desk' = CallWith(desk, c, [u EXCEPT !.at = b, !.phase = p], desk.pending, desk.webOwner, a),
             line' = line
      PROVE  ControlIInv'
  <2> DEFINE t == [u EXCEPT !.at = b, !.phase = p]
             r == CallWith(desk, c, t, desk.pending, desk.webOwner, a)
  <2>1. /\ t \in CallRec /\ t.at = b /\ t.phase = p /\ t.back = u.back
        /\ t.backGate = u.backGate /\ t.cancelled = u.cancelled /\ t.activated = u.activated
        /\ t.completion = u.completion /\ t.stop = u.stop /\ t.stopGate = u.stopGate
    <3>1. [u EXCEPT !.at = b] \in CallRec BY SMTT(30), <1>3, <1>9 DEF CallRec
    <3>2. t \in CallRec BY <1>9, <3>1 DEF CallRec
    <3> QED BY <1>3, <3>2 DEF CallRec
  <2>2. desk' = r BY <1>9
  <2> HIDE DEF t
  <2>3. /\ r.pending = c /\ r.call[c] = t /\ \A j \in Calls : j # c => r.call[j] = desk.call[j]
    BY <1>3 DEF CallWith, DeskRec
  <2> HIDE DEF r
  <2>4. CallFits(r, web, c) BY <1>3, <1>4, <1>9, <2>1, <2>3 DEF CallFits
  <2>5. PendingWorks(r, line) BY <1>2, <1>9, <1>3, <2>1, <2>3 DEF Working, PendingWorks
  <2>6. ForcedRestores(r, web) BY <2>1, <2>3, <1>3 DEF ForcedRestores
  <2>7. ActiveIsRecorded(r, web) BY <1>5 DEF ActiveIsRecorded
  <2>8. Tail(ops) \in Seq(OpRec) /\ OpsAreAwaited(Tail(ops), r, web)
    <3>1. \A x \in OpRec : x # Head(ops) /\ OpIsAwaited(x, desk, web) => OpIsAwaited(x, r, web)
      <4> SUFFICES ASSUME NEW x \in OpRec, x # Head(ops), OpIsAwaited(x, desk, web)
                   PROVE  OpIsAwaited(x, r, web)
        OBVIOUS
      <4>1. x.op = "act" => x.by # c BY <1>1 DEF OpRec
      <4>2. \A j \in Calls : desk.call[j].back = "observing" => r.call[j].back = "observing"
        BY <2>1, <2>3
      <4>3. x.op \in {"claim", "release", "input", "act", "observe"} BY DEF OpRec
      <4> QED BY <2>3, <4>1, <4>2, <4>3 DEF OpIsAwaited
    <3> QED BY <1>3, <3>1, OpsDropped
  <2>9. Fits(r, web, line, Tail(ops))
    BY <1>3, <1>0, <1>9, <2>1, <2>4, <2>5, <2>6, <2>7, <2>8, CallChanges DEF r
  <2> QED BY <1>6, <1>7, <1>9, <2>2, <2>9, ControlPrimed
<1>10. \/ desk' = Ended([desk EXCEPT !.call[c].failed = TRUE], c) /\ line' = Tail(line)
       \/ desk' = Ended(desk, c) /\ line' = Tail(line)
       \/ /\ u.phase = "running" /\ line' = line
          /\ desk' = [desk EXCEPT !.authority = "idle", !.call[c].phase = "settled",
                                  !.call[c].at = "recording"]
       \/ u.phase = "takeover-requested" /\ line' = line /\ desk' = [desk EXCEPT !.call[c].at = "activating"]
  BY DEF ActEnds
<1>11. CASE desk' = Ended([desk EXCEPT !.call[c].failed = TRUE], c) /\ line' = Tail(line)
  <2> DEFINE v == [u EXCEPT !.failed = TRUE]
             e == [desk EXCEPT !.call[c].failed = TRUE]
  <2>1. /\ v \in CallRec /\ v.at = u.at /\ v.phase = u.phase /\ v.back = u.back
        /\ v.backGate = u.backGate /\ v.cancelled = u.cancelled /\ v.activated = u.activated
        /\ v.completion = u.completion /\ v.stop = u.stop /\ v.stopGate = u.stopGate
    BY <1>3 DEF CallRec
  <2>2. e = [desk EXCEPT !.call = [desk.call EXCEPT ![c] = v]] BY <1>3 DEF DeskRec
  <2> HIDE DEF v, e
  <2>3. e \in DeskRec BY <1>3, <2>1, <2>2 DEF DeskRec
  <2> QED BY <1>8, <1>11, <2>1, <2>2, <2>3 DEF e
<1>12. CASE desk' = Ended(desk, c) /\ line' = Tail(line)
  <2>1. desk = [desk EXCEPT !.call = [desk.call EXCEPT ![c] = u]] BY <1>3 DEF DeskRec
  <2> QED BY <1>3, <1>8, <1>12, <2>1
<1>13. CASE /\ u.phase = "running" /\ line' = line
            /\ desk' = [desk EXCEPT !.authority = "idle", !.call[c].phase = "settled",
                                    !.call[c].at = "recording"]
  <2> DEFINE t == [u EXCEPT !.at = "recording", !.phase = "settled"]
  <2>1. desk' = [[desk EXCEPT !.call = [desk.call EXCEPT ![c] = t]] EXCEPT !.authority = "idle"]
    BY ZenonT(60), <1>3, <1>13 DEF DeskRec, CallRec
  <2>2. desk' = CallWith(desk, c, t, desk.pending, desk.webOwner, "idle")
    <3> HIDE DEF t
    <3> QED BY <1>3, <2>1 DEF CallWith, DeskRec
  <2>3. "settled" \in Phases /\ "settled" \notin Human BY DEF Phases, Human
  <2> QED BY <1>9, <1>13, <2>2, <2>3
<1>14. CASE u.phase = "takeover-requested" /\ line' = line /\ desk' = [desk EXCEPT !.call[c].at = "activating"]
  <2> DEFINE t == [u EXCEPT !.at = "activating", !.phase = u.phase]
  <2>1. desk' = [desk EXCEPT !.call = [desk.call EXCEPT ![c] = t]]
    BY <1>3, <1>14 DEF DeskRec, CallRec
  <2>2. desk' = CallWith(desk, c, t, desk.pending, desk.webOwner, desk.authority)
    <3> HIDE DEF t
    <3> QED BY <1>3, <2>1 DEF CallWith, DeskRec
  <2>3. u.phase \in Phases BY <1>3 DEF CallRec
  <2> QED BY <1>3, <1>4, <1>9, <1>14, <2>2, <2>3
<1> QED BY <1>10, <1>11, <1>12, <1>13, <1>14
-----------------------------------------------------------------------------
(* The ends of claims, releases and inputs. *)

\* An operation that a controller awaits ends.
LEMMA AnsweredFits ==
  ASSUME ControlAssumption, NEW d, NEW w, NEW l, NEW o, Fits(d, w, l, o), NEW k \in Claims,
         NEW h \in {"claim", "release", "input"}, o # <<>>, Head(o) = [op |-> h, by |-> k],
         NEW r \in WebRec, CtlStep(w, r, k),
         h # "claim" => r.ctl[k].claim = w.ctl[k].claim,
         h # "release" => r.ctl[k].release = w.ctl[k].release,
         h # "input" => (w.ctl[k].sending => r.ctl[k].sending),
         r.ctl[k].active => \/ w.ctl[k].active
                            \/ /\ HumanIsRecorded(d)
                               /\ \A c \in Calls : d.call[c].back = "restoring" =>
                                                    d.call[c].backGate = k /\ ~d.call[c].cancelled
  PROVE  Fits(d, r, l, Tail(o))
<1>1. o \in Seq(OpRec) /\ OpsAreAwaited(o, d, w) BY DEF Fits
<1>2. \A y \in OpRec : y # Head(o) /\ OpIsAwaited(y, d, w) => OpIsAwaited(y, d, r)
  <2> SUFFICES ASSUME NEW y \in OpRec, y # Head(o), OpIsAwaited(y, d, w)
               PROVE  OpIsAwaited(y, d, r)
    OBVIOUS
  <2>1. y.op = h => y.by # k BY DEF OpRec
  <2>2. y.op \in {"claim", "release", "input", "act", "observe"} BY DEF OpRec
  <2>3. \A j \in Claims : j # k => r.ctl[j] = w.ctl[j] BY DEF CtlStep
  <2>4. CASE y.op \in {"act", "observe"} BY <2>4 DEF OpIsAwaited
  <2>5. CASE y.op = "claim" BY <2>1, <2>3, <2>5 DEF OpIsAwaited
  <2>6. CASE y.op = "release" BY <2>1, <2>3, <2>6 DEF OpIsAwaited
  <2>7. CASE y.op = "input" BY <2>1, <2>3, <2>7 DEF OpIsAwaited
  <2> QED BY <2>2, <2>4, <2>5, <2>6, <2>7
<1>3. Tail(o) \in Seq(OpRec) /\ OpsAreAwaited(Tail(o), d, r) BY <1>1, <1>2, OpsDropped
<1> QED BY <1>3, CtlStepFits

\* Only who holds the input changes in the record.
LEMMA OwnerFits ==
  ASSUME ControlAssumption, NEW d, NEW w, NEW l, NEW o, Fits(d, w, l, o), NEW r \in DeskRec,
         r.pending = d.pending, r.call = d.call, ActiveIsRecorded(r, w)
  PROVE  Fits(r, w, l, o)
<1>1. CallsFit(r, w)
  <2> SUFFICES ASSUME NEW c \in Calls PROVE CallFits(r, w, c) BY DEF CallsFit
  <2>1. CallFits(d, w, c) BY CallFacts
  <2> QED BY <2>1 DEF CallFits
<1>2. PendingWorks(r, l) BY DEF Fits, PendingWorks
<1>3. ForcedRestores(r, w) BY DEF Fits, ForcedRestores
<1>4. OpsAreAwaited(o, r, w) BY OpsStay DEF OpIsAwaited, OpRec, Fits
<1> QED BY <1>1, <1>2, <1>3, <1>4 DEF Fits

\* The broker hears that nobody controls the Screen.
LEMMA WebReleasedFits ==
  ASSUME ControlAssumption, NEW d, NEW w, NEW l, NEW o, Fits(d, w, l, o),
         \A k \in Claims : ~w.ctl[k].active
  PROVE  Fits(WebReleased(d), w, l, o)
<1> DEFINE p == d.pending
           phase == IF p = 0 THEN "settled" ELSE d.call[p].phase
           a == CASE phase = "running" -> "agent"
                  [] phase \in {"takeover-requested", "completing"} -> "takeover"
                  [] OTHER -> "idle"
           left == IF phase = "held" THEN [d EXCEPT !.call[p].phase = "waiting"] ELSE d
           r == [left EXCEPT !.webOwner = FALSE, !.authority = a]
<1>1. WebReleased(d) = r BY DEF WebReleased
<1>2. d \in DeskRec /\ (p # 0 => p \in Calls) BY PartsTyped
<1>3. Fits(left, w, l, o)
  <2>1. CASE phase # "held" BY <2>1
  <2>2. CASE phase = "held"
    <3> DEFINE u == d.call[p]
               t == [u EXCEPT !.phase = "waiting"]
               e == CallWith(d, p, t, d.pending, d.webOwner, d.authority)
    <3>1. p \in Calls /\ u.phase = "held" BY <1>2, <2>2
    <3>2. /\ u \in CallRec /\ CallFits(d, w, p) /\ d.authority \in {"idle", "agent", "web", "takeover"}
      BY <3>1, CallFacts
    <3>3. left = e BY <1>2, <2>2, <3>1 DEF CallWith, DeskRec
    <3>4. /\ t \in CallRec /\ t.at = u.at /\ t.phase = "waiting" /\ t.back = u.back
          /\ t.backGate = u.backGate /\ t.cancelled = u.cancelled /\ t.activated = u.activated
          /\ t.completion = u.completion /\ t.stop = u.stop /\ t.stopGate = u.stopGate
      BY <3>2 DEF CallRec, Phases
    <3> HIDE DEF t
    <3>5. e.pending = d.pending /\ e.call[p] = t BY <1>2, <3>1 DEF CallWith, DeskRec
    <3> HIDE DEF e
    <3>6. CallFits(e, w, p) BY <3>1, <3>2, <3>4, <3>5 DEF CallFits, Human
    <3>7. ActiveIsRecorded(e, w) BY DEF ActiveIsRecorded
    <3>8. Fits(e, w, l, o) BY <3>1, <3>2, <3>4, <3>6, <3>7, CallGoesOn DEF e
    <3> QED BY <3>3, <3>8
  <2> QED BY <2>1, <2>2
<1>4. a \in {"idle", "agent", "web", "takeover"} OBVIOUS
<1>5. left \in DeskRec BY <1>3 DEF Fits
<1> HIDE DEF left, a
<1>6. r \in DeskRec /\ r.pending = left.pending /\ r.call = left.call
  BY <1>4, <1>5 DEF DeskRec
<1>7. ActiveIsRecorded(r, w) BY DEF ActiveIsRecorded
<1> HIDE DEF r
<1> QED BY <1>1, <1>3, <1>6, <1>7, OwnerFits

\* The broker hears of a human who may take what waits, and records it.
LEMMA WebClaimedFits ==
  ASSUME ControlAssumption, NEW d, NEW w, NEW l, NEW o, Fits(d, w, l, o),
         d.pending # 0 => /\ ~d.call[d.pending].cancelled
                          /\ d.call[d.pending].phase \in {"waiting", "held", "completing"}
  PROVE  /\ Fits(WebClaimed(d), w, l, o) /\ HumanIsRecorded(WebClaimed(d))
         /\ \A c \in Calls : /\ WebClaimed(d).call[c].back = d.call[c].back
                             /\ WebClaimed(d).call[c].backGate = d.call[c].backGate
                             /\ WebClaimed(d).call[c].cancelled = d.call[c].cancelled
<1> DEFINE p == d.pending
           u == d.call[p]
           r == WebClaimed(d)
<1>1. d \in DeskRec /\ (p # 0 => p \in Calls) BY PartsTyped
<1>2. CASE p = 0 \/ u.phase \in {"held", "completing"}
  <2>1. r \in DeskRec /\ r.pending = d.pending /\ r.call = d.call /\ HumanIsRecorded(r)
    BY <1>1, <1>2 DEF WebClaimed, HumanIsRecorded, DeskRec
  <2> HIDE DEF r
  <2>2. Fits(r, w, l, o) BY <2>1, OwnerFits DEF ActiveIsRecorded
  <2> QED BY <2>1, <2>2 DEF r
<1>3. CASE p # 0 /\ u.phase = "waiting"
  <2> DEFINE t == [u EXCEPT !.phase = "held"]
             e == CallWith(d, p, t, d.pending, d.webOwner, "takeover")
  <2>1. p \in Calls BY <1>1, <1>3
  <2>2. u \in CallRec /\ CallFits(d, w, p) BY <2>1, CallFacts
  <2>3. r = e BY <1>1, <1>3, <2>1 DEF WebClaimed, CallWith, DeskRec
  <2>4. /\ t \in CallRec /\ t.at = u.at /\ t.phase = "held" /\ t.back = u.back
        /\ t.backGate = u.backGate /\ t.cancelled = u.cancelled /\ t.activated = u.activated
        /\ t.completion = u.completion /\ t.stop = u.stop /\ t.stopGate = u.stopGate
    BY <2>2 DEF CallRec, Phases
  <2> HIDE DEF t
  <2>5. e.pending = d.pending /\ e.call[p] = t /\ e.authority = "takeover"
        /\ \A c \in Calls : c # p => e.call[c] = d.call[c]
    BY <1>1, <2>1 DEF CallWith, DeskRec
  <2> HIDE DEF e
  <2>6. CallFits(e, w, p) BY <1>3, <2>1, <2>2, <2>4, <2>5 DEF CallFits, Human
  <2>7. HumanIsRecorded(e) BY <1>3, <2>4, <2>5 DEF HumanIsRecorded
  <2>8. ActiveIsRecorded(e, w) BY <2>7 DEF ActiveIsRecorded
  <2>9. Fits(e, w, l, o) BY <2>1, <2>2, <2>4, <2>6, <2>8, CallGoesOn DEF e
  <2> HIDE DEF r, u
  <2>10. \A c \in Calls : /\ e.call[c].back = d.call[c].back /\ e.call[c].backGate = d.call[c].backGate
                          /\ e.call[c].cancelled = d.call[c].cancelled
    BY <2>4, <2>5 DEF u
  <2> QED BY <2>3, <2>7, <2>9, <2>10 DEF r
<1> QED BY <1>2, <1>3

\* The end of a release keeps the invariant.
LEMMA ReleaseEndsKeeps ==
  ASSUME ControlAssumption, ControlIInv, NEW k \in Claims, ops # <<>>, ReleaseEnds(k)
  PROVE  ControlIInv'
<1>0. Fits(desk, web, line, ops) /\ RestTyped BY DEF ControlIInv
<1>1. Head(ops) = [op |-> "release", by |-> k] BY DEF ReleaseEnds, Runs
<1>2. web.ctl[k].release = "queued"
  <2>1. OpIsAwaited(Head(ops), desk, web) BY <1>0, HeadIsAwaited
  <2>2. Head(ops).op = "release" /\ Head(ops).by = k BY <1>1
  <2> QED BY <2>1, <2>2 DEF OpIsAwaited
<1>3. /\ web \in WebRec /\ Newest(web) /\ InOrder(web) /\ web.ctl[k] \in CtlRec
      /\ web.barrier \in 0..MaxClaims /\ web.now \in {0, web.last}
      /\ \A j \in Claims : j \in Nat /\ j >= 1 /\ (web.ctl[j].claim # "none" => j <= web.last)
      /\ web.last \in Nat /\ 0 \in 0..MaxClaims
  BY <1>0, PartsTyped DEF Newest, ControlAssumption
<1>4. web.ctl[k].revoked /\ ~web.ctl[k].active /\ web.ctl[k].claim \in {"settled", "failed", "back"}
  BY <1>2, <1>3 DEF Newest, InOrder
<1>5. k <= web.last /\ \A j \in Claims : j < k => ~Owes(web, j)
  BY <1>3, <1>4, OlderOver
<1>6. \A j \in Claims : ~web.ctl[j].active
  <2> SUFFICES ASSUME NEW j \in Claims, web.ctl[j].active PROVE FALSE OBVIOUS
  <2>1. ~web.ctl[j].revoked /\ web.ctl[j].claim \notin {"none", "barred"} BY <1>3 DEF Newest
  <2>2. j = web.last BY <1>3, <2>1 DEF Newest
  <2>3. ~(k < j) BY <1>2, <1>3, <2>1 DEF InOrder, Owes
  <2>4. j = k BY <1>3, <1>5, <2>2, <2>3
  <2> QED BY <1>4, <2>4
<1>7. PICK outcome \in {"done", "failed"} :
        /\ web' = [web EXCEPT !.ctl[k].release = outcome, !.ctl[k].announced = FALSE,
                              !.barrier = IF @ = k THEN 0 ELSE @]
        /\ held' = IF held.epoch = k THEN [epoch |-> 0, keys |-> FALSE] ELSE held
  BY DEF ReleaseEnds
<1> DEFINE b == IF web.barrier = k THEN 0 ELSE web.barrier
           c == [web.ctl[k] EXCEPT !.release = outcome, !.announced = FALSE]
           r == CtlWith(web, k, c, b)
<1>8. web' = r
  <2>1. web' = [[web EXCEPT !.ctl = [web.ctl EXCEPT ![k] = c]] EXCEPT !.barrier = b]
    BY <1>3, <1>7 DEF WebRec, CtlRec
  <2> HIDE DEF c, b
  <2> QED BY <1>3, <2>1 DEF WebRec, CtlWith
<1>9. /\ c \in CtlRec /\ c.release = outcome /\ c.active = web.ctl[k].active
      /\ c.claim = web.ctl[k].claim /\ c.force = web.ctl[k].force /\ c.revoked = web.ctl[k].revoked
      /\ c.sending = web.ctl[k].sending /\ c.prior = web.ctl[k].prior /\ c.after = web.ctl[k].after
  BY <1>3, <1>7 DEF CtlRec
<1>10. b \in 0..MaxClaims /\ (b = web.barrier \/ (b = 0 /\ web.barrier = k)) BY <1>3
<1> HIDE DEF b, c
<1>11. /\ r \in WebRec /\ r.now = web.now /\ r.last = web.last /\ r.barrier = b /\ r.ctl[k] = c
       /\ \A j \in Claims : j # k => r.ctl[j] = web.ctl[j]
  BY <1>3, <1>9, <1>10, CtlWithIs
<1> HIDE DEF r
<1>12. CtlStep(web, r, k)
  BY <1>2, <1>4, <1>5, <1>7, <1>9, <1>10, <1>11 DEF CtlStep, Owes
<1> DEFINE d == IF web.ctl[k].announced THEN WebReleased(desk) ELSE desk
<1>13. Fits(d, web, line, ops) BY <1>0, <1>6, WebReleasedFits
<1>14. desk' = d /\ UNCHANGED <<view, line, screen>> /\ ops' = Tail(ops) /\ busy' = FALSE
  BY DEF ReleaseEnds, OperationOver
<1> HIDE DEF d
<1>15. Fits(d, r, line, Tail(ops))
  BY <1>1, <1>4, <1>9, <1>11, <1>12, <1>13, AnsweredFits
<1>16. RestTyped'
  <2> DEFINE h == [epoch |-> 0, keys |-> FALSE]
  <2>1. held \in [epoch : 0..MaxClaims, keys : BOOLEAN] BY <1>0 DEF RestTyped
  <2>2. h \in [epoch : 0..MaxClaims, keys : BOOLEAN] BY <1>3
  <2> HIDE DEF h
  <2>3. held' = held \/ held' = h BY <1>7 DEF h
  <2>4. held' \in [epoch : 0..MaxClaims, keys : BOOLEAN] BY <2>1, <2>2, <2>3
  <2> QED BY <1>0, <1>14, <2>4 DEF RestTyped
<1> QED BY <1>8, <1>14, <1>15, <1>16, ControlPrimed

\* The end of an input keeps the invariant.
LEMMA InputEndsKeeps ==
  ASSUME ControlAssumption, ControlIInv, NEW k \in Claims, ops # <<>>, InputEnds(k)
  PROVE  ControlIInv'
<1>0. Fits(desk, web, line, ops) /\ RestTyped BY DEF ControlIInv
<1>1. Head(ops) = [op |-> "input", by |-> k] BY DEF InputEnds, Runs
<1>2. web.ctl[k].sending
  <2>1. OpIsAwaited(Head(ops), desk, web) BY <1>0, HeadIsAwaited
  <2>2. Head(ops).op = "input" /\ Head(ops).by = k BY <1>1
  <2> QED BY <2>1, <2>2 DEF OpIsAwaited
<1>3. /\ web \in WebRec /\ Newest(web) /\ InOrder(web) /\ web.ctl[k] \in CtlRec
      /\ web.barrier \in 0..MaxClaims /\ k \in Nat /\ web.last \in Nat /\ k \in 0..MaxClaims
  BY <1>0, PartsTyped DEF ControlAssumption
<1>4. k <= web.last BY <1>2, <1>3 DEF Newest
<1>5. web.ctl[k].claim # "none" /\ (web.ctl[k].active => ~web.ctl[k].revoked /\ web.ctl[k].claim # "barred")
  BY <1>3, <1>4 DEF Newest
<1>6. web.ctl[k].claim # "barred" => \A j \in Claims : j < k => ~Owes(web, j)
  BY <1>3, <1>5, OlderOver
<1> DEFINE c == [web.ctl[k] EXCEPT !.sending = FALSE]
           r == CtlWith(web, k, c, web.barrier)
           sent == [web EXCEPT !.ctl[k].sending = FALSE]
           s == web.ctl[k].session
<1>7. sent = r
  <2> DEFINE f == [web.ctl EXCEPT ![k] = c]
  <2>1. sent = [web EXCEPT !.ctl = f] OBVIOUS
  <2> HIDE DEF f, sent
  <2>2. sent = [now |-> web.now, last |-> web.last, barrier |-> web.barrier, ctl |-> f]
    BY <1>3, <2>1 DEF WebRec
  <2> QED BY <2>2 DEF CtlWith, f
<1>8. /\ c \in CtlRec /\ c.release = web.ctl[k].release /\ c.active = web.ctl[k].active
      /\ c.claim = web.ctl[k].claim /\ c.force = web.ctl[k].force /\ c.revoked = web.ctl[k].revoked
      /\ c.prior = web.ctl[k].prior /\ c.after = web.ctl[k].after
  BY <1>3 DEF CtlRec
<1> HIDE DEF c
<1>9. /\ r \in WebRec /\ r.now = web.now /\ r.last = web.last /\ r.barrier = web.barrier /\ r.ctl[k] = c
      /\ \A j \in Claims : j # k => r.ctl[j] = web.ctl[j]
  BY SMTT(30), <1>3, <1>8, CtlWithIs
<1> HIDE DEF r, sent
<1>10. CtlStep(web, r, k)
  BY <1>3, <1>4, <1>5, <1>6, <1>8, <1>9 DEF CtlStep, Owes, InOrder
<1>11. Fits(desk, r, line, Tail(ops))
  BY <1>0, <1>1, <1>8, <1>9, <1>10, AnsweredFits
<1>12. line' = line /\ ops' = Tail(ops) /\ busy' = FALSE
  BY DEF InputEnds, OperationOver
<1>13. ASSUME web' = r, UNCHANGED <<desk, view, screen>>,
              NEW keys \in BOOLEAN, held' = [epoch |-> k, keys |-> keys]
       PROVE  ControlIInv'
  <2>1. RestTyped' BY <1>0, <1>3, <1>12, <1>13 DEF RestTyped
  <2> QED BY <1>11, <1>12, <1>13, <2>1, ControlPrimed
<1>14. CASE /\ web' = RevokedFor(r, s) /\ UNCHANGED <<desk, screen, held>>
            /\ view' = [view EXCEPT ![s].mode = "closed", ![s].suspended = TRUE]
  <2>1. Fits(desk, RevokedFor(r, s), line, Tail(ops)) BY <1>11, RevokedForFits
  <2>2. view' \in [Sessions -> [mode : {"idle", "expanded", "closed"}, suspended : BOOLEAN]]
    <3> DEFINE v == [view EXCEPT ![s].mode = "closed"]
               q == [v EXCEPT ![s].suspended = TRUE]
               V == [Sessions -> [mode : {"idle", "expanded", "closed"}, suspended : BOOLEAN]]
    <3>1. view \in V /\ view' = q BY <1>0, <1>14 DEF RestTyped
    <3>2. v \in V
      <4>1. CASE s \in Sessions BY <3>1, <4>1
      <4>2. CASE s \notin Sessions
        <5>1. v = view BY <3>1, <4>2
        <5> HIDE DEF v
        <5> QED BY <3>1, <5>1
      <4> QED BY <4>1, <4>2
    <3> HIDE DEF v
    <3>3. q \in V
      <4>1. CASE s \in Sessions BY <3>2, <4>1
      <4>2. CASE s \notin Sessions
        <5>1. q = v BY <3>2, <4>2
        <5> HIDE DEF q
        <5> QED BY <3>2, <5>1
      <4> QED BY <4>1, <4>2
    <3> HIDE DEF q
    <3> QED BY <3>1, <3>3
  <2>3. RestTyped' BY <1>0, <1>12, <1>14, <2>2 DEF RestTyped
  <2> QED BY <1>12, <1>14, <2>1, <2>3, ControlPrimed
<1>15. CASE Lost(desk, r)
  <2>1. view \in [Sessions -> [mode : {"idle", "expanded", "closed"}, suspended : BOOLEAN]]
    BY <1>0 DEF RestTyped
  <2>2. PICK o : o = ops' OBVIOUS
  <2>3. busy' \in BOOLEAN BY <1>12
  <2> QED BY <1>11, <1>12, <1>15, <2>1, <2>2, <2>3, LostKeeps
<1>16. \/ /\ web' = sent /\ UNCHANGED <<desk, view, screen>>
          /\ \E keys \in BOOLEAN : held' = [epoch |-> k, keys |-> keys]
       \/ /\ web' = RevokedFor(sent, s) /\ UNCHANGED <<desk, screen, held>>
          /\ view' = [view EXCEPT ![s].mode = "closed", ![s].suspended = TRUE]
       \/ Lost(desk, sent)
  BY DEF InputEnds, sent
<1> QED BY <1>7, <1>13, <1>14, <1>15, <1>16
\* While a claim is asked for, what any other call or controller waits for is over.
LEMMA AskedIsAlone ==
  ASSUME ControlAssumption, NEW w \in WebRec, Newest(w), InOrder(w), NEW k \in Claims,
         w.ctl[k].claim = "asking", ~w.ctl[k].revoked
  PROVE  /\ k = w.now /\ k = w.last
         /\ \A g \in Claims : g <= w.last /\ g # k =>
              /\ w.ctl[g].revoked
              /\ w.ctl[g].release \in {"done", "failed"}
              /\ w.ctl[g].claim \in {"settled", "failed", "back"}
<1>1. /\ w.last \in Nat /\ \A g \in Claims : g \in Nat /\ g >= 1 /\ w.ctl[g] \in CtlRec
  BY DEF WebRec, Claims, ControlAssumption
<1>2. k <= w.last BY <1>1 DEF Newest
<1>3. k = w.now /\ k = w.last BY <1>1, <1>2 DEF Newest
<1>4. ASSUME NEW g \in Claims, g <= w.last, g # k
      PROVE  /\ w.ctl[g].revoked
             /\ w.ctl[g].release \in {"done", "failed"}
             /\ w.ctl[g].claim \in {"settled", "failed", "back"}
  <2>1. w.ctl[g].revoked /\ w.ctl[g].release # "none" BY <1>3, <1>4 DEF Newest
  <2>2. g < k BY <1>1, <1>3, <1>4
  <2>3. ~Owes(w, g) BY <2>2, OlderOver
  <2>4. w.ctl[g].release \in {"none", "waiting", "queued", "done", "failed"} BY <1>1 DEF CtlRec
  <2>5. w.ctl[g].release \in {"done", "failed"} BY <2>1, <2>3, <2>4 DEF Owes
  <2>6. w.ctl[g].claim \in {"settled", "failed", "back"} BY <2>5 DEF InOrder
  <2> QED BY <2>1, <2>5, <2>6
<1> QED BY <1>3, <1>4

\* A claim that is answered while nothing else goes on takes over what is not being cancelled.
LEMMA TakesWhatWaits ==
  ASSUME ControlAssumption, ControlIInv, Quiet, NEW k \in Claims, web.ctl[k].claim = "asking",
         ~web.ctl[k].revoked, web.ctl[k].force \/ CanAccept(desk)
  PROVE  /\ desk.pending # 0 =>
              /\ ~desk.call[desk.pending].cancelled
              /\ desk.call[desk.pending].phase \in {"waiting", "held", "completing"}
         /\ \A c \in Calls : desk.call[c].back = "restoring" =>
              desk.call[c].backGate = k /\ ~desk.call[c].cancelled
<1>0. Fits(desk, web, line, ops) BY DEF ControlIInv
<1>1. /\ web \in WebRec /\ Newest(web) /\ InOrder(web) /\ ForcedRestores(desk, web)
      /\ \A c \in Calls : /\ CallFits(desk, web, c) /\ desk.call[c] \in CallRec
                          /\ (desk.call[c].at \in Working <=> desk.pending = c)
      /\ (desk.pending # 0 => desk.pending \in Calls)
      /\ Claims = 1..MaxClaims /\ MaxClaims \in Nat /\ web.last \in 0..MaxClaims
  BY <1>0, CallFacts, PartsTyped
<1>2. /\ k = web.now /\ k = web.last
      /\ \A g \in Claims : g <= web.last /\ g # k =>
           /\ web.ctl[g].revoked /\ web.ctl[g].release \in {"done", "failed"}
           /\ web.ctl[g].claim \in {"settled", "failed", "back"}
  BY <1>1, AskedIsAlone
<1>3. ASSUME desk.pending # 0
      PROVE  /\ ~desk.call[desk.pending].cancelled
             /\ desk.call[desk.pending].phase \in {"waiting", "held", "completing"}
  <2> DEFINE p == desk.pending
             u == desk.call[p]
  <2>1. p \in Calls /\ CallFits(desk, web, p) /\ u.at \in Working /\ u \in CallRec BY <1>1, <1>3
  <2>2. CASE web.ctl[k].force
    <3>1. ~u.cancelled /\ u.back = "restoring" BY <1>1, <1>2, <1>3, <2>2 DEF ForcedRestores
    <3> QED BY <2>1, <3>1 DEF CallFits
  <2>3. CASE ~web.ctl[k].force
    <3>1. u.phase \in {"held", "waiting"} BY <1>3, <2>3 DEF CanAccept
    <3>2. u.at \in {"activating", "completing"} BY <2>1, <3>1 DEF CallFits, Human, Working
    <3>3. ASSUME u.cancelled PROVE FALSE
      <4>1. u.stop \in {"revoking", "done"} BY <2>1, <3>3 DEF CallFits, CallRec
      <4>2. CASE u.stop = "done"
        <5>1. u.activated # "open" /\ u.completion # "open" BY <2>1, <4>2 DEF CallFits
        <5>2. CallActivatedReady(p) \/ CallCompletedReady(p)
          BY <3>2, <5>1 DEF CallActivatedReady, CallCompletedReady
        <5> QED BY <2>1, <5>2 DEF Quiet
      <4>3. CASE u.stop = "revoking"
        <5>1. Gone(web, u.stopGate) /\ u.stopGate \in 0..MaxClaims BY <2>1, <4>3 DEF CallFits, CallRec
        <5>2. u.stopGate \in Claims => u.stopGate # k /\ u.stopGate <= web.last
          BY <1>1, <5>1 DEF Gone
        <5>3. ReleaseOver(u.stopGate) BY <1>2, <5>2 DEF ReleaseOver
        <5>4. CancelRevertsReady(p) BY <4>3, <5>3 DEF CancelRevertsReady
        <5> QED BY <2>1, <5>4 DEF Quiet
      <4> QED BY <4>1, <4>2, <4>3
    <3> QED BY <3>1, <3>3
  <2> QED BY <2>2, <2>3
<1>4. ASSUME NEW c \in Calls, desk.call[c].back = "restoring"
      PROVE  desk.call[c].backGate = k /\ ~desk.call[c].cancelled
  <2> DEFINE g == desk.call[c].backGate
  <2>1. /\ g \in Claims /\ g <= web.last
        /\ desk.call[c].cancelled => web.ctl[g].revoked
    BY <1>1, <1>4 DEF CallFits
  <2>2. g = k
    <3> SUFFICES ASSUME g # k PROVE FALSE OBVIOUS
    <3>1. web.ctl[g].claim \in {"settled", "failed", "back"} BY <1>2, <2>1
    <3>2. ~ClaimReturnsReady(g) /\ ~RestoredReady(c) BY <2>1 DEF Quiet
    <3>3. web.ctl[g].claim = "back" BY <3>1, <3>2 DEF ClaimReturnsReady
    <3> QED BY <1>4, <3>2, <3>3 DEF RestoredReady
  <2> QED BY <2>1, <2>2
<1> QED BY <1>3, <1>4

\* The answer to a claim, which may put a human in control, keeps the invariant.
LEMMA ClaimEndsKeeps ==
  ASSUME ControlAssumption, ControlIInv, NEW k \in Claims, ops # <<>>, ClaimEnds(k)
  PROVE  ControlIInv'
<1>0. Fits(desk, web, line, ops) /\ RestTyped BY DEF ControlIInv
<1>1. Head(ops) = [op |-> "claim", by |-> k] /\ Quiet BY DEF ClaimEnds, Runs
<1>2. web.ctl[k].claim = "asking"
  <2>1. OpIsAwaited(Head(ops), desk, web) BY <1>0, HeadIsAwaited
  <2>2. Head(ops).op = "claim" /\ Head(ops).by = k BY <1>1
  <2> QED BY <2>1, <2>2 DEF OpIsAwaited
<1>3. /\ web \in WebRec /\ Newest(web) /\ InOrder(web) /\ web.ctl[k] \in CtlRec
      /\ web.barrier \in 0..MaxClaims /\ k \in 0..MaxClaims /\ k <= web.last
  BY <1>0, <1>2, PartsTyped
<1>4. /\ \A j \in Claims : j < k => ~Owes(web, j)
      /\ web.ctl[k].release \notin {"queued", "done", "failed"}
      /\ web.ctl[k].active => ~web.ctl[k].revoked
  BY <1>2, <1>3, OlderOver DEF InOrder, Newest
<1> DEFINE takes == ~web.ctl[k].revoked /\ (web.ctl[k].force \/ CanAccept(desk))
           answered == [web EXCEPT !.ctl[k].claim = "settled", !.ctl[k].provisioned = TRUE]
           taken == [answered EXCEPT !.ctl[k].active = TRUE, !.ctl[k].announced = TRUE]
           failed == [web EXCEPT !.ctl[k].claim = "failed"]
           u == web.ctl[k]
           cs == [u EXCEPT !.claim = "settled", !.provisioned = TRUE]
           ct == [u EXCEPT !.claim = "settled", !.provisioned = TRUE, !.active = TRUE, !.announced = TRUE]
           cf == [u EXCEPT !.claim = "failed"]
<1>5. /\ answered = CtlWith(web, k, cs, web.barrier)
      /\ taken = CtlWith(web, k, ct, web.barrier)
      /\ failed = CtlWith(web, k, cf, web.barrier)
  <2>0. web.ctl \in [Claims -> CtlRec] BY <1>3 DEF WebRec
  <2>1. cs \in CtlRec BY <1>3 DEF CtlRec
  <2>2. answered = [web EXCEPT !.ctl = [web.ctl EXCEPT ![k] = cs]]
    BY <1>3 DEF WebRec, CtlRec
  <2>3. failed = [web EXCEPT !.ctl = [web.ctl EXCEPT ![k] = cf]]
    OBVIOUS
  <2>4. taken = [answered EXCEPT !.ctl = [answered.ctl EXCEPT ![k] =
                   [answered.ctl[k] EXCEPT !.active = TRUE, !.announced = TRUE]]]
    <3>1. answered \in WebRec
      <4> HIDE DEF answered, cs
      <4> QED BY <1>3, <2>0, <2>1, <2>2 DEF WebRec
    <3> HIDE DEF answered
    <3> QED BY <3>1 DEF WebRec, CtlRec
  <2>5. ct = [cs EXCEPT !.active = TRUE, !.announced = TRUE] BY <1>3 DEF CtlRec
  <2> HIDE DEF answered, taken, failed, cs, ct, cf
  <2>6. answered = CtlWith(web, k, cs, web.barrier) BY <1>3, <2>2 DEF WebRec, CtlWith
  <2>7. failed = CtlWith(web, k, cf, web.barrier) BY <1>3, <2>3 DEF WebRec, CtlWith
  <2>8. answered.ctl[k] = cs /\ answered.ctl = [web.ctl EXCEPT ![k] = cs] BY <2>0, <2>6 DEF CtlWith
  <2>9. [answered.ctl EXCEPT ![k] = ct] = [web.ctl EXCEPT ![k] = ct] BY <2>0, <2>8
  <2>10. taken = [answered EXCEPT !.ctl = [web.ctl EXCEPT ![k] = ct]] BY <2>4, <2>5, <2>8, <2>9
  <2>11. taken = CtlWith(web, k, ct, web.barrier) BY <2>6, <2>10 DEF CtlWith
  <2> QED BY <2>6, <2>7, <2>11
<1>6. ASSUME NEW c \in CtlRec, c.claim \in {"settled", "failed"}, c.active = u.active \/ (c.active /\ takes),
             c.release = u.release, c.force = u.force, c.revoked = u.revoked, c.sending = u.sending,
             c.prior = u.prior, c.after = u.after,
             NEW d, Fits(d, web, line, ops),
             ~(c.active = u.active) =>
               /\ HumanIsRecorded(d)
               /\ \A e \in Calls : d.call[e].back = "restoring" => d.call[e].backGate = k /\ ~d.call[e].cancelled
      PROVE  Fits(d, CtlWith(web, k, c, web.barrier), line, Tail(ops))
  <2> DEFINE r == CtlWith(web, k, c, web.barrier)
  <2>1. /\ r \in WebRec /\ r.now = web.now /\ r.last = web.last /\ r.barrier = web.barrier /\ r.ctl[k] = c
        /\ \A j \in Claims : j # k => r.ctl[j] = web.ctl[j]
    <3>1. c \in CtlRec BY <1>6
    <3>2. web \in WebRec /\ web.barrier \in 0..MaxClaims BY <1>3
    <3> QED BY <3>1, <3>2, CtlWithIs
  <2> HIDE DEF r
  <2>2. r.ctl[k].active => ~r.ctl[k].revoked BY <1>4, <1>6, <2>1
  <2>3. CtlStep(web, r, k)
    BY <1>2, <1>3, <1>4, <1>6, <2>1, <2>2 DEF CtlStep, Owes
  <2>4. r.ctl[k].active => \/ web.ctl[k].active
                           \/ /\ HumanIsRecorded(d)
                              /\ \A e \in Calls : d.call[e].back = "restoring" =>
                                                   d.call[e].backGate = k /\ ~d.call[e].cancelled
    BY <1>6, <2>1
  <2>5. "claim" \in {"claim", "release", "input"} OBVIOUS
  <2>6. Fits(d, r, line, Tail(ops))
    BY <1>1, <1>6, <2>1, <2>3, <2>4, <2>5, AnsweredFits
  <2> QED BY <2>6 DEF r
<1>7. Fits(desk, failed, line, Tail(ops))
  <2>1. cf \in CtlRec BY <1>3 DEF CtlRec
  <2>2. /\ cf.claim = "failed" /\ cf.active = u.active /\ cf.release = u.release /\ cf.force = u.force
        /\ cf.revoked = u.revoked /\ cf.sending = u.sending /\ cf.prior = u.prior /\ cf.after = u.after
    BY <1>3 DEF CtlRec
  <2> HIDE DEF cf, failed, takes
  <2> QED BY <1>0, <1>5, <1>6, <2>1, <2>2
<1>8. line' = line /\ ops' = Tail(ops) /\ busy' = FALSE
  BY DEF ClaimEnds, OperationOver
<1>9. CASE /\ held' = [epoch |-> k, keys |-> FALSE] /\ UNCHANGED <<view, screen>>
           /\ web' = (IF takes THEN taken ELSE answered)
           /\ desk' = (IF takes THEN WebClaimed(desk) ELSE desk)
  <2>1. RestTyped' BY <1>3, <1>9, <1>0, <1>8 DEF RestTyped
  <2>2. CASE ~takes
    <3>1. cs \in CtlRec BY <1>3 DEF CtlRec
    <3>2. /\ cs.claim = "settled" /\ cs.active = u.active /\ cs.release = u.release /\ cs.force = u.force
          /\ cs.revoked = u.revoked /\ cs.sending = u.sending /\ cs.prior = u.prior /\ cs.after = u.after
      BY <1>3 DEF CtlRec
    <3> HIDE DEF cs, answered, takes, taken
    <3>3. Fits(desk, answered, line, Tail(ops)) BY <1>0, <1>5, <1>6, <3>1, <3>2
    <3> QED BY <1>8, <1>9, <2>1, <2>2, <3>3, ControlPrimed
  <2>3. CASE takes
    <3>1. ct \in CtlRec
      <4>1. [u EXCEPT !.claim = "settled"] \in CtlRec BY <1>3 DEF CtlRec
      <4>2. [u EXCEPT !.claim = "settled", !.provisioned = TRUE] \in CtlRec BY <4>1 DEF CtlRec
      <4>3. [u EXCEPT !.claim = "settled", !.provisioned = TRUE, !.active = TRUE] \in CtlRec
        BY <4>2 DEF CtlRec
      <4> QED BY <4>3 DEF CtlRec
    <3>2. /\ ct.claim = "settled" /\ ct.active /\ ct.release = u.release /\ ct.force = u.force
          /\ ct.revoked = u.revoked /\ ct.sending = u.sending /\ ct.prior = u.prior /\ ct.after = u.after
      BY <1>3 DEF CtlRec
    <3> DEFINE d == WebClaimed(desk)
    <3>3. /\ desk.pending # 0 =>
               /\ ~desk.call[desk.pending].cancelled
               /\ desk.call[desk.pending].phase \in {"waiting", "held", "completing"}
          /\ \A e \in Calls : desk.call[e].back = "restoring" =>
               desk.call[e].backGate = k /\ ~desk.call[e].cancelled
      BY <1>1, <1>2, <2>3, TakesWhatWaits
    <3>4. /\ Fits(d, web, line, ops) /\ HumanIsRecorded(d)
          /\ \A e \in Calls : /\ d.call[e].back = desk.call[e].back
                              /\ d.call[e].backGate = desk.call[e].backGate
                              /\ d.call[e].cancelled = desk.call[e].cancelled
      BY <1>0, <3>3, WebClaimedFits
    <3>5. \A e \in Calls : d.call[e].back = "restoring" => d.call[e].backGate = k /\ ~d.call[e].cancelled
      BY <3>3, <3>4
    <3> HIDE DEF ct, d, answered, takes, taken
    <3>6. Fits(d, taken, line, Tail(ops)) BY <1>5, <1>6, <2>3, <3>1, <3>2, <3>4, <3>5
    <3>7. desk' = d /\ web' = taken BY <1>9, <2>3 DEF d
    <3> QED BY <1>8, <2>1, <3>6, <3>7, ControlPrimed
  <2> QED BY <2>2, <2>3
<1>10. CASE Lost(desk, failed)
  <2>1. view \in [Sessions -> [mode : {"idle", "expanded", "closed"}, suspended : BOOLEAN]]
    BY <1>0 DEF RestTyped
  <2>2. busy' \in BOOLEAN BY <1>8
  <2> HIDE DEF failed
  <2>3. PICK w : w = failed OBVIOUS
  <2> QED BY <1>7, <1>8, <1>10, <2>1, <2>2, <2>3, LostKeeps
<1>11. CASE web' = failed /\ UNCHANGED <<desk, view, screen, held>>
  <2>1. RestTyped' BY <1>0, <1>8, <1>11 DEF RestTyped
  <2> HIDE DEF failed
  <2> QED BY <1>7, <1>8, <1>11, <2>1, ControlPrimed
<1> QED BY <1>9, <1>10, <1>11 DEF ClaimEnds
-----------------------------------------------------------------------------
(* The theorem. *)

\* Only an operation that is queued runs.
QueueRuns == ops \in Seq(OpRec) /\ (busy => ops # <<>>)

\* No step lets an operation run that is not queued.
LEMMA QueueKeepsRunning ==
  ASSUME QueueRuns, ControlIInv', [ControlNext]_controlVars
  PROVE  QueueRuns'
<1>1. ops' \in Seq(OpRec)
  BY DEF ControlIInv, Fits
<1>2. CASE UNCHANGED <<ops, busy>> BY <1>2 DEF QueueRuns
<1>3. CASE busy' = FALSE BY <1>1, <1>3 DEF QueueRuns
<1>4. CASE OperationStarts BY <1>1, <1>4 DEF OperationStarts, OperationReady, QueueRuns
<1>5. ASSUME NEW x \in OpRec, ops' = Append(ops, x) PROVE QueueRuns'
  <2>1. Append(ops, x) # <<>> BY DEF QueueRuns
  <2> QED BY <1>1, <1>5, <2>1 DEF QueueRuns
<1>6. CASE Continue
  <2>1. ASSUME NEW k \in Claims PROVE k \in Nat BY DEF Claims
  <2>2. ASSUME NEW c \in Calls PROVE c \in Nat BY DEF Calls
  <2>3. ASSUME NEW k \in Claims,
               ClaimStarts(k) \/ ClaimReturns(k) \/ ReleaseStarts(k) \/ SendInput(k)
        PROVE  QueueRuns'
    <3>1. \A h \in {"claim", "release", "input"} : [op |-> h, by |-> k] \in OpRec BY <2>1 DEF OpRec
    <3> QED BY <1>2, <1>5, <2>3, <3>1 DEF ClaimStarts, ClaimReturns, ReleaseStarts, SendInput
  <2>4. ASSUME NEW c \in Calls,
               \/ CallStarts(c) \/ CallRevoked(c) \/ CallActivated(c)
               \/ CallCompleted(c) \/ TakeOverContinues(c) \/ CancelReverts(c)
               \/ BackRevoked(c) \/ Restored(c)
        PROVE  QueueRuns'
    <3>1. \A h \in {"act", "observe"} : [op |-> h, by |-> c] \in OpRec BY SMTT(30), <2>2 DEF OpRec
    <3>2. UNCHANGED <<ops, busy>> \/ \E h \in {"act", "observe"} : ops' = Append(ops, [op |-> h, by |-> c])
      BY ZenonT(60), <2>4 DEF CallStarts, CallRevoked, CallActivated, CallCompleted, TakeOverContinues,
                  CancelReverts, BackRevoked, Restored
    <3> QED BY <1>2, <1>5, <3>1, <3>2
  <2> QED BY <1>4, <1>6, <2>3, <2>4 DEF Continue
<1>7. CASE OperationEnds
  BY ZenonT(60), <1>3, <1>7 DEF OperationEnds, ClaimEnds, ReleaseEnds, InputEnds, ActEnds, ObserveEnds,
                                OperationOver
<1>8. CASE \E c \in Calls : Recorded(c) BY <1>2, <1>8 DEF Recorded
<1>9. CASE Request
  BY ZenonT(60), <1>2, <1>9 DEF Request, SetMode, CloseSession, Input, ReleaseControl, AgentToolAct,
                                Abort, TakeOver,
                    ImDone, ScreenLost
<1>10. CASE UNCHANGED controlVars BY <1>2, <1>10 DEF controlVars
<1> QED BY <1>6, <1>7, <1>8, <1>9, <1>10 DEF ControlNext

\* Nobody controls the Screen at first.
LEMMA ControlStarts ==
  ASSUME ControlAssumption, ControlInit
  PROVE  ControlIInv /\ QueueRuns
<1>1. NewCall \in CallRec BY ControlAssumption DEF NewCall, CallRec, Phases, ControlAssumption
<1>2. NewController \in CtlRec BY DEF NewController, CtlRec, ControlAssumption
<1>3. /\ desk \in DeskRec /\ desk.pending = 0 /\ \A c \in Calls : desk.call[c] = NewCall
  BY <1>1 DEF ControlInit, DeskRec, ControlAssumption
<1>4. /\ web \in WebRec /\ web.now = 0 /\ web.last = 0 /\ web.barrier = 0
      /\ \A k \in Claims : web.ctl[k] = NewController /\ k \in Nat /\ k > 0
  BY <1>2 DEF ControlInit, WebRec, ControlAssumption, Claims
<1>5. Newest(web) BY <1>4 DEF Newest, NewController
<1>6. InOrder(web) BY <1>4 DEF InOrder, Owes, NewController
<1>7. line = <<>> /\ ops = <<>> /\ line \in Seq(Calls) /\ ops \in Seq(OpRec)
  BY DEF ControlInit
<1>8. PendingWorks(desk, line) BY <1>3 DEF Calls, NewCall, Working, PendingWorks
<1>9. CallsFit(desk, web)
  BY <1>3 DEF CallsFit, CallFits, NewCall, Human, GivingBack
<1>10. ForcedRestores(desk, web) /\ ActiveIsRecorded(desk, web)
  BY <1>4 DEF ForcedRestores, ActiveIsRecorded, NewController
<1>11. OpsAreAwaited(ops, desk, web) BY <1>7 DEF OpsAreAwaited
<1>12. RestTyped
  <2>1. held \in [epoch : 0..MaxClaims, keys : BOOLEAN] BY DEF ControlInit, ControlAssumption
  <2>2. view \in [Sessions -> [mode : {"idle", "expanded", "closed"}, suspended : BOOLEAN]]
    BY DEF ControlInit
  <2>3. busy \in BOOLEAN /\ screen \in {"up", "down"} BY DEF ControlInit
  <2> QED BY <2>1, <2>2, <2>3 DEF RestTyped
<1>13. QueueRuns BY <1>7 DEF QueueRuns, ControlInit
<1> QED BY <1>3, <1>4, <1>5, <1>6, <1>7, <1>8, <1>9, <1>10, <1>11, <1>12, <1>13 DEF ControlIInv, Fits

\* Every step keeps the invariant.
LEMMA ControlKeeps ==
  ASSUME ControlAssumption, ControlIInv, QueueRuns, [ControlNext]_controlVars
  PROVE  ControlIInv'
<1>1. CASE Continue
  BY <1>1, OperationStartsKeeps, ClaimStartsKeeps, ClaimReturnsKeeps, ReleaseStartsKeeps,
     SendInputKeeps,
     CallStartsKeeps, CallRevokedKeeps, CallActivatedKeeps, CallCompletedKeeps,
     TakeOverContinuesKeeps, CancelRevertsKeeps, BackRevokedKeeps, RestoredKeeps DEF Continue
<1>2. CASE OperationEnds
  <2>1. busy
    BY ZenonT(60), <1>2 DEF OperationEnds, ClaimEnds, ReleaseEnds, InputEnds, ActEnds, ObserveEnds, Runs
  <2>2. ops # <<>> BY <2>1 DEF QueueRuns
  <2> QED BY <1>2, <2>2, ClaimEndsKeeps, ReleaseEndsKeeps, InputEndsKeeps, ActEndsKeeps, ObserveEndsKeeps
          DEF OperationEnds
<1>3. CASE \E c \in Calls : Recorded(c) BY <1>3, RecordedKeeps
<1>4. CASE Request
  BY <1>4, SetModeKeeps, CloseSessionKeeps, InputKeeps, ReleaseControlKeeps, AgentToolActKeeps,
     AbortKeeps, TakeOverKeeps, ImDoneKeeps, ScreenLostKeeps DEF Request
<1>5. CASE UNCHANGED controlVars
  <2>1. RestTyped' BY <1>5 DEF ControlIInv, RestTyped, controlVars
  <2> QED BY <1>5, <2>1, ControlPrimed DEF ControlIInv, controlVars
<1> QED BY <1>1, <1>2, <1>3, <1>4, <1>5 DEF ControlNext

\* The human who may type is recorded with the call it holds, or as the owner of the Screen.
LEMMA RecordedIsShown ==
  ASSUME ControlAssumption, ControlIInv
  PROVE  ControlIsShown
<1>1. ActiveIsRecorded(desk, web) BY DEF ControlIInv, Fits
<1> QED BY <1>1, ControlIsTyped DEF ControlIsShown, ActiveIsRecorded, HumanIsRecorded, ScreenUse

\* Whoever may type on a Screen is shown as the human in control of it, and recorded with the
\* authority of one, for any number of calls, viewers and claims (broker.ts and
\* screenProjection.ts agree in every state, whatever is under way).
THEOREM ControlStaysShown == ControlSpec => []ControlIsShown
<1> USE ControlAssumption
<1>1. ControlInit => ControlIInv /\ QueueRuns BY ControlStarts
<1>2. ControlIInv /\ QueueRuns /\ [ControlNext]_controlVars => (ControlIInv /\ QueueRuns)'
  BY ControlKeeps, QueueKeepsRunning
<1>3. ControlIInv => ControlIsShown BY RecordedIsShown
<1> QED BY <1>1, <1>2, <1>3, PTL DEF ControlSpec

-----------------------------------------------------------------------------
(* One hand.  An action of the Bot reaches the head of the queue only behind  *)
(* the release of every controller that was told to the human, and what a     *)
(* human holds down it holds under such a controller.                         *)

\* The line holds each call once, and behind the pending one only such that wait.
LineInOrder(d, l) ==
  /\ \A i, j \in DOMAIN l : l[i] = l[j] => i = j
  /\ \A i \in DOMAIN l : d.call[l[i]].at = "queued" \/ (i = 1 /\ l[i] = d.pending)

\* A call that a human has, or gives back, was activated.
HumansActivated(d) ==
  \A c \in Calls :
    d.call[c].phase \in Human \/ d.call[c].back # "no" => d.call[c].activated # "open"

\* No controller stands beside a call that revokes or acts.
BotIsAlone(d, w) ==
  d.pending # 0 /\ d.call[d.pending].at \in {"revoking", "acting"} => w.now = 0

\* A controller is announced from its activation to the end of its release, and a release waits
\* for one that was revoked.
AnnouncedFit(w) ==
  /\ \A k \in Claims :
       /\ w.ctl[k].active => w.ctl[k].announced
       /\ w.ctl[k].announced =>
            /\ w.ctl[k].provisioned /\ w.ctl[k].claim \in {"settled", "back"}
            /\ w.ctl[k].release \notin {"done", "failed"}
            /\ w.ctl[k].active \/ w.ctl[k].revoked
       /\ w.ctl[k].prior # 0 => w.ctl[w.ctl[k].prior].revoked
  /\ w.barrier # 0 => w.ctl[w.barrier].revoked

\* A release that was asked for is in the queue, behind every input of its controller.
ReleaseOf(k) == [op |-> "release", by |-> k]
QueueFits(o, w) ==
  /\ \A k \in Claims : w.ctl[k].release = "queued" => \E i \in DOMAIN o : o[i] = ReleaseOf(k)
  /\ \A i \in DOMAIN o : o[i].op = "input" =>
       /\ w.ctl[o[i].by].announced
       /\ \A j \in DOMAIN o : o[j] = ReleaseOf(o[i].by) => i < j

\* Before an action of the Bot every announced controller is released.
ActsFollow(o, w) ==
  \A i \in DOMAIN o : o[i].op = "act" =>
    \A k \in Claims : w.ctl[k].announced => \E j \in DOMAIN o : j < i /\ o[j] = ReleaseOf(k)

\* A release that is still owed has no call to hurry for, or one that waits for it.
OwedTo(d, l, k) ==
  IF d.pending = 0 THEN l = <<>>
  ELSE LET t == d.call[d.pending] IN
       \/ t.at = "revoking" /\ t.gate = k
       \/ /\ t.at = "completing" /\ t.completion = "open"
          /\ t.cancelled => t.stop = "revoking" /\ t.stopGate = k
Owing(w, k) == w.ctl[k].announced /\ w.ctl[k].release = "waiting"
OwedIsAwaited(d, w, l) == \A k \in Claims : Owing(w, k) => OwedTo(d, l, k)

\* What is held down is held under an announced controller.
HeldFits(h, w) == h.keys => h.epoch \in Claims /\ w.ctl[h.epoch].announced

HandsFit(d, w, l, o, up, h) ==
  /\ LineInOrder(d, l) /\ HumansActivated(d) /\ BotIsAlone(d, w) /\ AnnouncedFit(w)
  /\ QueueFits(o, w) /\ HeldFits(h, w)
  /\ up => ActsFollow(o, w) /\ OwedIsAwaited(d, w, l)

HandsIInv == ControlIInv /\ HandsFit(desk, web, line, ops, screen = "up", held)

\* A step whose new values fit keeps the invariant.
LEMMA HandsPrimed ==
  ASSUME HandsFit(desk', web', line', ops', screen' = "up", held')
  PROVE  HandsFit(desk, web, line, ops, screen = "up", held)'
BY DEF HandsFit, LineInOrder, HumansActivated, BotIsAlone, AnnouncedFit, QueueFits, HeldFits,
       ActsFollow,
       OwedIsAwaited, Owing, OwedTo

-----------------------------------------------------------------------------
\* What the controllers may do to the hands: nobody is announced or forgotten, no release joins
\* or leaves the queue, nobody is activated, and a release comes to be owed only by a controller that was active.
Calm(w, r) ==
  /\ AnnouncedFit(r)
  /\ \A k \in Claims :
       /\ r.ctl[k].announced = w.ctl[k].announced
       /\ r.ctl[k].release = "queued" <=> w.ctl[k].release = "queued"
       /\ r.ctl[k].active => w.ctl[k].active
       /\ Owing(r, k) => Owing(w, k) \/ w.ctl[k].active

\* All claims but the one of now are revoked, and their release is asked for.
NowIsOpen(w) ==
  /\ w.now \in 0..w.last
  /\ \A k \in 1..w.last : /\ w.ctl[k].revoked <=> k # w.now
                          /\ w.ctl[k].revoked <=> w.ctl[k].release # "none"

\* They are in every state.
LEMMA NewestIsOpen ==
  ASSUME ControlAssumption, NEW w \in WebRec, Newest(w)
  PROVE  NowIsOpen(w)
<1>1. w.last \in 0..MaxClaims /\ MaxClaims \in Nat /\ Claims = 1..MaxClaims
  BY DEF WebRec, ControlAssumption, Claims
<1>2. w.now \in 0..w.last BY <1>1 DEF Newest
<1>3. \A k \in 1..w.last : k \in Claims /\ k <= w.last BY <1>1
<1> QED BY <1>2, <1>3 DEF Newest, NowIsOpen

\* Revoking a controller is calm.
LEMMA RevokedIsCalm ==
  ASSUME ControlAssumption, NEW w \in WebRec, NowIsOpen(w), AnnouncedFit(w), NEW k \in 0..w.last
  PROVE  LET r == Revoked(w, k) IN
         /\ Calm(w, r) /\ r.last = w.last /\ (w.now = 0 => r.now = 0) /\ (k = w.now => r.now = 0)
         /\ \A j \in Claims : Owing(r, j) => Owing(w, j) \/ j = w.now
<1>0. /\ MaxClaims \in Nat \ {0} /\ w.last \in 0..MaxClaims /\ w.now \in 0..MaxClaims
      /\ w.barrier \in 0..MaxClaims /\ w.ctl \in [Claims -> CtlRec] /\ Claims = 1..MaxClaims
  BY DEF ControlAssumption, WebRec, Claims
<1> DEFINE r == Revoked(w, k)
<1>1. CASE k = 0 \/ w.ctl[k].revoked
  <2>1. r = w BY <1>1 DEF Revoked
  <2>2. k = w.now => w.now = 0 BY <1>0, <1>1 DEF NowIsOpen
  <2>3. Calm(w, w) BY DEF Calm
  <2> HIDE DEF r
  <2> QED BY <2>1, <2>2, <2>3 DEF r
<1>2. CASE k # 0 /\ ~w.ctl[k].revoked
  <2> DEFINE c == [w.ctl[k] EXCEPT !.revoked = TRUE, !.active = FALSE, !.inputs = 0,
                                   !.release = "waiting", !.prior = w.barrier]
  <2>1. k \in Claims /\ k = w.now /\ w.ctl[k] \in CtlRec /\ w.ctl[k].release = "none"
    BY <1>0, <1>2 DEF NowIsOpen
  <2>2. r = [w EXCEPT !.now = 0, !.barrier = k, !.ctl = [w.ctl EXCEPT ![k] = c]]
    BY <1>2, <2>1 DEF Revoked, WebRec
  <2>3. /\ c.revoked /\ ~c.active /\ c.release = "waiting" /\ c.prior = w.barrier
        /\ c.claim = w.ctl[k].claim /\ c.announced = w.ctl[k].announced
        /\ c.provisioned = w.ctl[k].provisioned
    BY <2>1 DEF CtlRec
  <2> HIDE DEF c, r
  <2>4. r = [now |-> 0, last |-> w.last, barrier |-> k, ctl |-> [w.ctl EXCEPT ![k] = c]]
    BY <2>2 DEF WebRec
  <2>5. /\ r.now = 0 /\ r.last = w.last /\ r.barrier = k
        /\ r.ctl[k] = c /\ \A j \in Claims : j # k => r.ctl[j] = w.ctl[j]
    BY <1>0, <2>1, <2>4
  <2>6. \A j \in Claims : w.ctl[j].prior \in 0..MaxClaims BY <1>0 DEF CtlRec
  <2>7. \A j \in Claims : w.ctl[j].revoked => r.ctl[j].revoked BY <2>3, <2>5
  <2>8. AnnouncedFit(r)
    <3> SUFFICES ASSUME NEW j \in Claims
                 PROVE  /\ r.ctl[j].active => r.ctl[j].announced
                        /\ r.ctl[j].announced =>
                             /\ r.ctl[j].provisioned /\ r.ctl[j].claim \in {"settled", "back"}
                             /\ r.ctl[j].release \notin {"done", "failed"}
                             /\ r.ctl[j].active \/ r.ctl[j].revoked
                        /\ r.ctl[j].prior # 0 => r.ctl[r.ctl[j].prior].revoked
      BY <2>1, <2>3, <2>5 DEF AnnouncedFit
    <3>1. CASE j # k
      <4>1. w.ctl[j].prior # 0 => w.ctl[j].prior \in Claims BY <1>0, <2>6
      <4> QED BY <2>5, <2>7, <3>1, <4>1 DEF AnnouncedFit
    <3>2. CASE j = k
      <4>1. w.barrier # 0 => w.barrier \in Claims BY <1>0
      <4> QED BY <2>3, <2>5, <2>7, <3>2, <4>1 DEF AnnouncedFit
    <3> QED BY <3>1, <3>2
  <2>9. Calm(w, r)
    BY <1>2, <2>1, <2>3, <2>5, <2>8 DEF Calm, AnnouncedFit, Owing
  <2>10. \A j \in Claims : Owing(r, j) => Owing(w, j) \/ j = w.now BY <2>1, <2>5 DEF Owing
  <2> QED BY <1>0, <2>1, <2>3, <2>5, <2>9, <2>10 DEF r
<1> QED BY <1>1, <1>2

\* So is #revokeInputFor.
LEMMA RevokedForIsCalm ==
  ASSUME ControlAssumption, NEW w \in WebRec, NowIsOpen(w), AnnouncedFit(w), NEW s
  PROVE  LET r == RevokedFor(w, s) IN
         /\ Calm(w, r) /\ (w.now = 0 => r.now = 0)
         /\ \A j \in Claims : Owing(r, j) => Owing(w, j) \/ j = w.now
<1>1. w.now \in 0..w.last BY DEF NowIsOpen
<1>2. Calm(w, w) BY DEF Calm
<1>3. RevokedFor(w, s) = Revoked(w, w.now) \/ RevokedFor(w, s) = w BY DEF RevokedFor
<1> QED BY <1>1, <1>2, <1>3, RevokedIsCalm

\* And a new claim, which takes the place of the one before it.
LEMMA ClaimedIsCalm ==
  ASSUME ControlAssumption, NEW w \in WebRec, Newest(w), InOrder(w), AnnouncedFit(w),
         NEW s \in Sessions, NEW force \in BOOLEAN, w.last < MaxClaims
  PROVE  Calm(w, Claimed(w, s, force))
<1> DEFINE v == Revoked(w, w.now)
           k == w.last + 1
           c == [NewController EXCEPT !.session = s, !.force = force,
                                      !.claim = "barred", !.after = v.barrier]
           r == Claimed(w, s, force)
<1>1. w.now \in 0..w.last BY NowIsClaimed
<1>2. /\ v \in WebRec /\ Newest(v) /\ InOrder(v) /\ Calm(w, v) /\ v.last = w.last
  BY <1>1, NewestIsOpen, RevokedIs, RevokedIsCalm DEF Revoking
<1> HIDE DEF v
<1>3. /\ MaxClaims \in Nat /\ v.last \in 0..MaxClaims /\ v.barrier \in 0..MaxClaims
      /\ v.ctl \in [Claims -> CtlRec] /\ Claims = 1..MaxClaims
  BY <1>2 DEF WebRec, ControlAssumption, Claims
<1>4. k \in Claims /\ k > v.last BY <1>2, <1>3
<1>5. /\ c.claim = "barred" /\ c.prior = 0 /\ c.announced = FALSE /\ ~c.active /\ c.release = "none" /\ ~c.revoked
  BY DEF NewController
<1> HIDE DEF c
<1>6. r = [v EXCEPT !.now = k, !.last = k, !.ctl[k] = c] BY DEF Claimed, v, c
<1>7. r = [now |-> k, last |-> k, barrier |-> v.barrier, ctl |-> [v.ctl EXCEPT ![k] = c]]
  BY <1>2, <1>6 DEF WebRec
<1> HIDE DEF r, k
<1>8. /\ r.barrier = v.barrier /\ r.ctl[k] = c /\ \A j \in Claims : j # k => r.ctl[j] = v.ctl[j]
  BY <1>3, <1>4, <1>7
<1>9. /\ ~v.ctl[k].revoked /\ v.ctl[k].claim = "none" /\ v.ctl[k].release = "none" /\ ~v.ctl[k].active
  BY <1>2, <1>4 DEF Newest
<1>10. AnnouncedFit(v) BY <1>2 DEF Calm
<1>11. v.ctl[k].announced = FALSE BY <1>3, <1>4, <1>9, <1>10 DEF CtlRec, AnnouncedFit
<1>12. \A j \in Claims : v.ctl[j].prior \in 0..MaxClaims BY <1>3 DEF CtlRec
<1>13. \A j \in Claims : v.ctl[j].revoked => r.ctl[j].revoked BY <1>8, <1>9
<1>14. AnnouncedFit(r)
  <2>1. r.barrier # 0 => r.ctl[r.barrier].revoked BY <1>3, <1>8, <1>10, <1>13 DEF AnnouncedFit
  <2>2. ASSUME NEW j \in Claims, j # k
        PROVE  /\ r.ctl[j].active => r.ctl[j].announced
               /\ r.ctl[j].announced =>
                    /\ r.ctl[j].provisioned /\ r.ctl[j].claim \in {"settled", "back"}
                    /\ r.ctl[j].release \notin {"done", "failed"}
                    /\ r.ctl[j].active \/ r.ctl[j].revoked
               /\ r.ctl[j].prior # 0 => r.ctl[r.ctl[j].prior].revoked
    <3>1. v.ctl[j].prior # 0 => v.ctl[j].prior \in Claims BY <1>3, <1>12
    <3> QED BY <1>8, <1>10, <1>13, <2>2, <3>1 DEF AnnouncedFit
  <2> QED BY <1>5, <1>8, <2>1, <2>2 DEF AnnouncedFit
<1>15. ASSUME NEW j \in Claims
       PROVE  /\ r.ctl[j].announced = w.ctl[j].announced
              /\ r.ctl[j].release = "queued" <=> w.ctl[j].release = "queued"
              /\ r.ctl[j].active => w.ctl[j].active
              /\ Owing(r, j) => Owing(w, j) \/ w.ctl[j].active
  <2>1. CASE j # k BY <1>2, <1>8, <2>1 DEF Calm, Owing
  <2>2. CASE j = k BY <1>2, <1>5, <1>8, <1>9, <1>11, <2>2 DEF Calm, Owing
  <2> QED BY <2>1, <2>2
<1> QED BY <1>14, <1>15 DEF Calm, r

-----------------------------------------------------------------------------
(* The queue of the Surface and the hands.                                    *)

\* Calm controllers leave the queue and what is held fitting.
LEMMA CalmLeaves ==
  ASSUME NEW w, NEW r, NEW d, NEW l, NEW o \in Seq(OpRec), NEW h, OpsAreAwaited(o, d, w), Calm(w, r)
  PROVE  /\ QueueFits(o, w) => QueueFits(o, r)
         /\ ActsFollow(o, w) => ActsFollow(o, r)
         /\ HeldFits(h, w) => HeldFits(h, r)
<1>1. \A i \in DOMAIN o : o[i].op = "input" => o[i].by \in Claims BY DEF OpsAreAwaited, OpIsAwaited
<1> QED BY <1>1 DEF Calm, QueueFits, ActsFollow, HeldFits

\* An operation joins the queue: a release that is asked for, or an input of an announced
\* controller that was not released.
LEMMA JoinsQueue ==
  ASSUME NEW w, NEW r, NEW o \in Seq(OpRec), NEW x \in OpRec, QueueFits(o, w),
         \A k \in Claims : /\ r.ctl[k].announced = w.ctl[k].announced
                           /\ r.ctl[k].release = "queued" => w.ctl[k].release = "queued" \/ x = ReleaseOf(k),
         \A i \in DOMAIN o : o[i].op = "input" => o[i].by \in Claims,
         x.op = "input" => /\ x.by \in Claims /\ w.ctl[x.by].announced
                           /\ \A j \in DOMAIN o : o[j] # ReleaseOf(x.by)
  PROVE  /\ QueueFits(Append(o, x), r)
         /\ ActsFollow(o, w) /\ x.op # "act" => ActsFollow(Append(o, x), r)
<1> DEFINE p == Append(o, x)
<1>1. /\ Len(o) \in Nat /\ DOMAIN o = 1..Len(o) /\ DOMAIN p = 1..(Len(o) + 1) /\ p[Len(o) + 1] = x
      /\ \A i \in 1..Len(o) : p[i] = o[i] /\ i < Len(o) + 1
  OBVIOUS
<1> HIDE DEF p
<1>2. \A i \in DOMAIN o : i \in DOMAIN p /\ p[i] = o[i] /\ i < Len(o) + 1 BY <1>1
<1>3. \A i \in DOMAIN p : i \in DOMAIN o \/ (i = Len(o) + 1 /\ p[i] = x) BY <1>1
<1>4. ASSUME NEW k \in Claims, r.ctl[k].release = "queued" PROVE \E i \in DOMAIN p : p[i] = ReleaseOf(k)
  <2>1. CASE w.ctl[k].release = "queued" BY <1>2, <2>1 DEF QueueFits
  <2>2. CASE x = ReleaseOf(k) BY <1>1, <2>2
  <2> QED BY <1>4, <2>1, <2>2
<1>5. ASSUME NEW i \in DOMAIN p, p[i].op = "input"
      PROVE  r.ctl[p[i].by].announced /\ \A j \in DOMAIN p : p[j] = ReleaseOf(p[i].by) => i < j
  <2>1. x.op = "input" => \A k \in Claims : x # ReleaseOf(k) BY DEF ReleaseOf
  <2>2. CASE i \in DOMAIN o
    <3>1. /\ o[i].op = "input" /\ p[i] = o[i] /\ o[i].by \in Claims /\ w.ctl[o[i].by].announced
          /\ \A j \in DOMAIN o : o[j] = ReleaseOf(o[i].by) => i < j
      BY <1>2, <1>5, <2>2 DEF QueueFits
    <3> QED BY <1>2, <1>3, <2>2, <3>1
  <2>3. CASE i = Len(o) + 1 /\ p[i] = x
    BY <1>2, <1>3, <1>5, <2>1, <2>3
  <2> QED BY <1>3, <2>2, <2>3
<1>6. ASSUME ActsFollow(o, w), x.op # "act" PROVE ActsFollow(p, r)
  <2> SUFFICES ASSUME NEW i \in DOMAIN p, p[i].op = "act", NEW k \in Claims, r.ctl[k].announced
               PROVE  \E j \in DOMAIN p : j < i /\ p[j] = ReleaseOf(k)
    BY DEF ActsFollow
  <2>1. i \in DOMAIN o /\ o[i].op = "act" /\ w.ctl[k].announced BY <1>2, <1>3, <1>6
  <2>2. PICK j \in DOMAIN o : j < i /\ o[j] = ReleaseOf(k) BY <1>6, <2>1 DEF ActsFollow
  <2> QED BY <1>2, <2>2
<1> QED BY <1>4, <1>5, <1>6 DEF QueueFits, p

\* The head leaves the queue, and a controller whose release it was is announced no longer.
LEMMA LeavesQueue ==
  ASSUME NEW w, NEW r, NEW o \in Seq(OpRec), o # <<>>, QueueFits(o, w),
         \A i \in DOMAIN o : o[i].op = "input" => o[i].by \in Claims,
         \A k \in Claims : /\ r.ctl[k].announced => w.ctl[k].announced /\ Head(o) # ReleaseOf(k)
                           /\ w.ctl[k].announced /\ Head(o) # ReleaseOf(k) => r.ctl[k].announced
                           /\ r.ctl[k].release = "queued" =>
                                w.ctl[k].release = "queued" /\ Head(o) # ReleaseOf(k)
  PROVE  /\ QueueFits(Tail(o), r)
         /\ ActsFollow(o, w) => ActsFollow(Tail(o), r)
<1> DEFINE p == Tail(o)
<1>1. /\ Len(o) \in Nat /\ DOMAIN o = 1..Len(o) /\ 1 \in DOMAIN o /\ Head(o) = o[1]
      /\ DOMAIN p = 1..(Len(o) - 1) /\ \A i \in 1..(Len(o) - 1) : p[i] = o[i + 1]
  OBVIOUS
<1> HIDE DEF p
<1>2. \A i \in DOMAIN p : i + 1 \in DOMAIN o /\ p[i] = o[i + 1] /\ i \in Nat /\ i >= 1 BY <1>1
<1>3. \A i \in DOMAIN o : i \in Nat /\ (i = 1 \/ (i - 1 \in DOMAIN p /\ p[i - 1] = o[i])) BY <1>1
<1>4. ASSUME NEW k \in Claims, r.ctl[k].release = "queued" PROVE \E i \in DOMAIN p : p[i] = ReleaseOf(k)
  <2>1. w.ctl[k].release = "queued" /\ o[1] # ReleaseOf(k) BY <1>1, <1>4
  <2>2. PICK i \in DOMAIN o : o[i] = ReleaseOf(k) BY <2>1 DEF QueueFits
  <2>3. i # 1 BY <2>1, <2>2
  <2> QED BY <1>3, <2>2, <2>3
<1>5. ASSUME NEW i \in DOMAIN p, p[i].op = "input"
      PROVE  r.ctl[p[i].by].announced /\ \A j \in DOMAIN p : p[j] = ReleaseOf(p[i].by) => i < j
  <2>1. i + 1 \in DOMAIN o /\ o[i + 1].op = "input" /\ p[i] = o[i + 1] BY <1>2, <1>5
  <2>2. /\ p[i].by \in Claims /\ w.ctl[p[i].by].announced
        /\ \A j \in DOMAIN o : o[j] = ReleaseOf(p[i].by) => i + 1 < j
    BY <2>1 DEF QueueFits
  <2>3. o[1] # ReleaseOf(p[i].by) BY <1>2, <1>1, <2>2
  <2>4. \A j \in DOMAIN p : p[j] = ReleaseOf(p[i].by) => i < j
    <3> SUFFICES ASSUME NEW j \in DOMAIN p, p[j] = ReleaseOf(p[i].by) PROVE i < j OBVIOUS
    <3>1. j + 1 \in DOMAIN o /\ o[j + 1] = ReleaseOf(p[i].by) /\ j \in Nat /\ i \in Nat BY <1>2
    <3>2. i + 1 < j + 1 BY <2>2, <3>1
    <3> QED BY <3>1, <3>2
  <2> QED BY <1>1, <2>2, <2>3, <2>4
<1>6. ASSUME ActsFollow(o, w) PROVE ActsFollow(p, r)
  <2> SUFFICES ASSUME NEW i \in DOMAIN p, p[i].op = "act", NEW k \in Claims, r.ctl[k].announced
               PROVE  \E j \in DOMAIN p : j < i /\ p[j] = ReleaseOf(k)
    BY DEF ActsFollow
  <2>1. /\ i + 1 \in DOMAIN o /\ o[i + 1].op = "act" /\ w.ctl[k].announced /\ o[1] # ReleaseOf(k)
        /\ i \in Nat
    BY <1>1, <1>2
  <2>2. PICK j \in DOMAIN o : j < i + 1 /\ o[j] = ReleaseOf(k) BY <1>6, <2>1 DEF ActsFollow
  <2>3. j # 1 BY <2>1, <2>2
  <2>4. j - 1 \in DOMAIN p /\ p[j - 1] = ReleaseOf(k) /\ j \in Nat BY <1>3, <2>2, <2>3
  <2>5. j - 1 < i BY <2>1, <2>2, <2>4
  <2> QED BY <2>4, <2>5
<1> QED BY <1>4, <1>5, <1>6 DEF QueueFits, p

\* Who asked for an input is a controller, and a release that was not asked for is not there.
LEMMA QueueIsOf ==
  ASSUME NEW d, NEW w, NEW o, OpsAreAwaited(o, d, w)
  PROVE  /\ \A i \in DOMAIN o : o[i].op = "input" => o[i].by \in Claims
         /\ \A k \in Claims : w.ctl[k].release # "queued" => \A i \in DOMAIN o : o[i] # ReleaseOf(k)
<1>1. \A i \in DOMAIN o : OpIsAwaited(o[i], d, w) BY DEF OpsAreAwaited
<1>2. ASSUME NEW k \in Claims, w.ctl[k].release # "queued", NEW i \in DOMAIN o PROVE o[i] # ReleaseOf(k)
  <2>1. ReleaseOf(k).op = "release" /\ ReleaseOf(k).by = k BY DEF ReleaseOf
  <2> QED BY <1>1, <1>2, <2>1 DEF OpIsAwaited
<1> QED BY <1>1, <1>2 DEF OpIsAwaited

-----------------------------------------------------------------------------
(* Whatever is owed goes on at once: with nothing ready, no release is owed.  *)

\* With nothing ready no controller that was announced still owes the start of its release.
LEMMA NothingIsOwed ==
  ASSUME ControlAssumption, ControlIInv, AnnouncedFit(web), Quiet, NEW k \in Claims
  PROVE  ~Owing(web, k)
<1> SUFFICES ASSUME Owing(web, k) PROVE FALSE OBVIOUS
<1>1. /\ web \in WebRec /\ Newest(web) /\ InOrder(web) /\ web.last \in 0..MaxClaims /\ MaxClaims \in Nat
      /\ Claims = 1..MaxClaims /\ web.ctl[k] \in CtlRec
  BY PartsTyped DEF ControlIInv
<1>2. web.ctl[k].claim \in {"settled", "back"} /\ web.ctl[k].release = "waiting"
  BY DEF Owing, AnnouncedFit
<1>3. \A j \in Claims : j < k => ~Owes(web, j) BY <1>1, <1>2, OlderOver
<1>4. ReleaseOver(web.ctl[k].prior)
  <2> DEFINE j == web.ctl[k].prior
  <2>1. j \in 0..MaxClaims /\ j < k BY <1>1 DEF InOrder, CtlRec
  <2>2. CASE j \in Claims
    <3>1. j # 0 BY <1>1, <2>2
    <3>2. web.ctl[j].revoked BY <3>1 DEF AnnouncedFit
    <3>3. web.ctl[j].release # "none" /\ web.ctl[j] \in CtlRec BY <1>1, <2>2, <3>2 DEF Newest, WebRec
    <3>4. web.ctl[j].release \in {"none", "waiting", "queued", "done", "failed"} BY <3>3 DEF CtlRec
    <3>5. ~Owes(web, j) BY <1>3, <2>1, <2>2
    <3> QED BY <3>3, <3>4, <3>5 DEF Owes, ReleaseOver
  <2>3. CASE j \notin Claims BY <2>3 DEF ReleaseOver
  <2> QED BY <2>2, <2>3
<1>5. ReleaseStartsReady(k) BY <1>2, <1>4 DEF ReleaseStartsReady
<1> QED BY <1>5 DEF Quiet

\* With nothing ready, an active controller finds no call, or one that it interrupted.
LEMMA ActiveMayBeOwed ==
  ASSUME ControlAssumption, ControlIInv, LineInOrder(desk, line), HumansActivated(desk), Quiet,
         NEW k \in Claims, web.ctl[k].active
  PROVE  /\ k = web.now
         /\ desk.pending = 0 => line = <<>>
         /\ desk.pending # 0 => /\ desk.pending \in Calls
                                /\ desk.call[desk.pending].at = "completing"
                                /\ desk.call[desk.pending].completion = "open"
                                /\ ~desk.call[desk.pending].cancelled
                                /\ desk.call[desk.pending].phase \in {"held", "completing"}
<1>0. Fits(desk, web, line, ops) BY DEF ControlIInv
<1>1. /\ web \in WebRec /\ Newest(web) /\ line \in Seq(Calls) /\ desk.pending \in 0..MaxCalls
      /\ \A j \in Claims : j \in Nat
      /\ desk.pending # 0 => desk.pending \in Calls
  BY <1>0, PartsTyped
<1>2. k = web.now BY <1>0, PartsTyped, <1>1 DEF ControlAssumption, Newest
<1>3. ASSUME desk.pending = 0 PROVE line = <<>>
  <2> SUFFICES ASSUME line # <<>> PROVE FALSE OBVIOUS
  <2>1. 1 \in DOMAIN line /\ Head(line) = line[1] /\ Head(line) \in Calls BY <1>1
  <2>2. Head(line) # 0 BY <2>1 DEF Calls
  <2>3. desk.call[Head(line)].at = "queued" BY <1>3, <2>1, <2>2 DEF LineInOrder
  <2>4. CallStartsReady(Head(line)) BY <2>3 DEF CallStartsReady
  <2> QED BY <2>1, <2>4 DEF Quiet
<1>4. ASSUME desk.pending # 0
      PROVE  /\ desk.call[desk.pending].at = "completing"
             /\ desk.call[desk.pending].completion = "open"
             /\ ~desk.call[desk.pending].cancelled
             /\ desk.call[desk.pending].phase \in {"held", "completing"}
  <2> DEFINE p == desk.pending
             t == desk.call[p]
  <2>1. HumanIsRecorded(desk) BY <1>0 DEF Fits, ActiveIsRecorded
  <2>2. t.phase \in {"held", "completing"} /\ ~t.cancelled BY <1>4, <2>1 DEF HumanIsRecorded
  <2>3. p \in Calls /\ CallFits(desk, web, p) /\ t.at \in Working BY <1>0, <1>1, <1>4, CallFacts
  <2>4. t.at \in {"activating", "completing"} /\ t.completion = "open"
    BY <2>2, <2>3 DEF CallFits, Human, Working
  <2>5. t.activated # "open" BY <2>2, <2>3 DEF HumansActivated, Human
  <2>6. ~CallActivatedReady(p) BY <2>3 DEF Quiet
  <2> QED BY <2>2, <2>4, <2>5, <2>6 DEF CallActivatedReady
<1> QED BY <1>1, <1>2, <1>3, <1>4

\* The line goes on: the calls that wait in it wait on.
LEMMA LineStays ==
  ASSUME NEW d, NEW d2, NEW l \in Seq(Calls), LineInOrder(d, l), d2.pending = d.pending,
         \A c \in Calls : d.call[c].at = "queued" => d2.call[c].at = "queued"
  PROVE  LineInOrder(d2, l)
BY DEF LineInOrder

\* The first of the line leaves it, as the pending call or before it works.
LEMMA LineLeft ==
  ASSUME NEW d, NEW d2, NEW l \in Seq(Calls), l # <<>>, LineInOrder(d, l), NEW c \in Calls, Head(l) = c,
         \A j \in Calls : j # c => d2.call[j].at = d.call[j].at
  PROVE  LineInOrder(d2, Tail(l))
<1> DEFINE p == Tail(l)
<1>1. /\ Len(l) \in Nat /\ DOMAIN l = 1..Len(l) /\ 1 \in DOMAIN l /\ Head(l) = l[1]
      /\ DOMAIN p = 1..(Len(l) - 1) /\ \A i \in 1..(Len(l) - 1) : p[i] = l[i + 1]
      /\ \A i \in DOMAIN l : l[i] \in Calls
  OBVIOUS
<1> HIDE DEF p
<1>2. \A i \in DOMAIN p : i + 1 \in DOMAIN l /\ i + 1 # 1 /\ p[i] = l[i + 1] /\ i \in Nat BY <1>1
<1>3. \A i, j \in DOMAIN p : p[i] = p[j] => i = j BY <1>2 DEF LineInOrder
<1>4. \A i \in DOMAIN p : d2.call[p[i]].at = "queued"
  <2> SUFFICES ASSUME NEW i \in DOMAIN p PROVE d2.call[p[i]].at = "queued" OBVIOUS
  <2>1. l[i + 1] # c /\ l[i + 1] \in Calls BY <1>1, <1>2 DEF LineInOrder
  <2>2. d.call[l[i + 1]].at = "queued" BY <1>2 DEF LineInOrder
  <2> QED BY <1>2, <2>1, <2>2
<1> QED BY <1>3, <1>4 DEF LineInOrder, p

\* What controllers did calmly one after the other was calm.
LEMMA CalmGoesOn ==
  ASSUME NEW w, NEW v, NEW r, Calm(w, v), Calm(v, r)
  PROVE  Calm(w, r)
BY DEF Calm

\* The calls stand where they stood: as far as the line and the releases go.
Stands(d, d2) ==
  /\ d2.pending = d.pending
  /\ \A c \in Calls :
       /\ d2.call[c].at = d.call[c].at /\ d2.call[c].gate = d.call[c].gate
       /\ d2.call[c].completion = d.call[c].completion /\ d2.call[c].cancelled = d.call[c].cancelled
       /\ d2.call[c].stop = d.call[c].stop /\ d2.call[c].stopGate = d.call[c].stopGate

\* With the calls where they stood all stays in order.
LEMMA StandsInOrder ==
  ASSUME NEW d, NEW d2, NEW w, NEW l \in Seq(Calls), Stands(d, d2), d.pending # 0 => d.pending \in Calls
  PROVE  /\ LineInOrder(d, l) => LineInOrder(d2, l)
         /\ BotIsAlone(d, w) => BotIsAlone(d2, w)
         /\ \A k : OwedTo(d, l, k) => OwedTo(d2, l, k)
         /\ OwedIsAwaited(d, w, l) => OwedIsAwaited(d2, w, l)
<1>1. LineInOrder(d, l) => LineInOrder(d2, l) BY LineStays DEF Stands
<1>2. BotIsAlone(d, w) => BotIsAlone(d2, w) BY DEF Stands, BotIsAlone
<1>3. \A k : OwedTo(d, l, k) => OwedTo(d2, l, k) BY DEF Stands, OwedTo
<1> QED BY <1>1, <1>2, <1>3 DEF OwedIsAwaited

\* The parts of the invariant.
LEMMA HandsParts ==
  ASSUME ControlAssumption, HandsIInv
  PROVE  /\ ControlIInv /\ Fits(desk, web, line, ops)
         /\ LineInOrder(desk, line) /\ HumansActivated(desk) /\ BotIsAlone(desk, web) /\ AnnouncedFit(web)
         /\ QueueFits(ops, web) /\ HeldFits(held, web)
         /\ screen = "up" => ActsFollow(ops, web) /\ OwedIsAwaited(desk, web, line)
         /\ desk \in DeskRec /\ web \in WebRec /\ line \in Seq(Calls) /\ ops \in Seq(OpRec)
         /\ Newest(web) /\ InOrder(web) /\ OpsAreAwaited(ops, desk, web)
         /\ desk.pending # 0 => desk.pending \in Calls
         /\ \A c \in Calls : desk.call[c] \in CallRec
         /\ \A k \in Claims : web.ctl[k] \in CtlRec
BY PartsTyped DEF HandsIInv, ControlIInv, HandsFit, Fits

\* A call whose turn it was goes, when nothing is owed.
LEMMA GoneFromLine ==
  ASSUME ControlAssumption, NEW d, NEW w, NEW l, NEW o, Fits(d, w, l, o), NEW d2, NEW c \in Calls,
         l # <<>>, Head(l) = c, d2.pending = 0,
         LineInOrder(d, l), HumansActivated(d),
         \A j \in Calls : j # c => d2.call[j] = d.call[j],
         /\ d2.call[c].phase = d.call[c].phase /\ d2.call[c].back = d.call[c].back
         /\ d2.call[c].activated = d.call[c].activated
  PROVE  LineInOrder(d2, Tail(l)) /\ HumansActivated(d2) /\ BotIsAlone(d2, w)
<1>1. l \in Seq(Calls) BY PartsTyped
<1>2. LineInOrder(d2, Tail(l)) BY <1>1, LineLeft
<1>3. HumansActivated(d2) BY DEF HumansActivated
<1>4. BotIsAlone(d2, w) BY DEF BotIsAlone
<1> QED BY <1>2, <1>3, <1>4

\* Nothing but the broker's record changes.
LEMMA DeskHands ==
  ASSUME ControlAssumption, HandsIInv, NEW d2, NEW l2, LineInOrder(d2, l2), HumansActivated(d2),
         BotIsAlone(d2, web), screen = "up" => OwedIsAwaited(d2, web, l2)
  PROVE  HandsFit(d2, web, l2, ops, screen = "up", held)
BY HandsParts DEF HandsFit

-----------------------------------------------------------------------------
(* The steps of a call.                                                       *)

\* A call joins the line behind the others.
LEMMA AgentToolActHands ==
  ASSUME ControlAssumption, HandsIInv, NEW c \in Calls, AgentToolAct(c)
  PROVE  HandsFit(desk', web', line', ops', screen' = "up", held')
<1> DEFINE p == Append(line, c)
<1>1. /\ LineInOrder(desk, line) /\ HumansActivated(desk) /\ BotIsAlone(desk, web) /\ desk \in DeskRec
      /\ line \in Seq(Calls) /\ desk.call[c] \in CallRec /\ desk.call[c].at = "none" /\ Quiet
      /\ Fits(desk, web, line, ops) /\ ControlIInv /\ AnnouncedFit(web)
  BY HandsParts DEF AgentToolAct
<1>2. /\ desk' = [desk EXCEPT !.call[c].at = "queued"] /\ line' = p
      /\ UNCHANGED <<web, ops, screen, held>>
  BY DEF AgentToolAct
<1> DEFINE d2 == [desk EXCEPT !.call[c].at = "queued"]
<1>3. /\ d2.pending = desk.pending /\ d2.call[c].at = "queued"
      /\ \A j \in Calls : j # c => d2.call[j] = desk.call[j]
      /\ \A j \in Calls : /\ d2.call[j].phase = desk.call[j].phase /\ d2.call[j].back = desk.call[j].back
                          /\ d2.call[j].activated = desk.call[j].activated
  BY <1>1 DEF DeskRec, CallRec
<1> HIDE DEF d2
<1>4. /\ Len(line) \in Nat /\ DOMAIN line = 1..Len(line) /\ DOMAIN p = 1..(Len(line) + 1)
      /\ p[Len(line) + 1] = c /\ \A i \in 1..Len(line) : p[i] = line[i] /\ line[i] \in Calls /\ i # Len(line) + 1
  BY <1>1
<1> HIDE DEF p
<1>0. desk.pending # c /\ (desk.pending # 0 => desk.pending \in Calls)
  BY <1>1, CallFacts, HandsParts DEF Working
<1>5. \A i \in DOMAIN line : line[i] # c
  <2> SUFFICES ASSUME NEW i \in DOMAIN line, line[i] = c PROVE FALSE OBVIOUS
  <2> QED BY <1>0, <1>1 DEF LineInOrder
<1>6. LineInOrder(d2, p)
  <2>1. \A i \in DOMAIN p : (i \in DOMAIN line /\ p[i] = line[i]) \/ (i = Len(line) + 1 /\ p[i] = c)
    BY <1>4
  <2>2. \A i, j \in DOMAIN p : p[i] = p[j] => i = j BY <1>1, <1>5, <2>1 DEF LineInOrder
  <2>3. \A i \in DOMAIN p : d2.call[p[i]].at = "queued" \/ (i = 1 /\ p[i] = d2.pending)
    BY <1>1, <1>3, <1>4, <1>5, <2>1 DEF LineInOrder
  <2> QED BY <2>2, <2>3 DEF LineInOrder
<1>7. HumansActivated(d2) BY <1>1, <1>3 DEF HumansActivated
<1>8. BotIsAlone(d2, web) BY <1>0, <1>1, <1>3 DEF BotIsAlone
<1>9. OwedIsAwaited(d2, web, p) BY <1>1, NothingIsOwed DEF OwedIsAwaited
<1>10. HandsFit(d2, web, p, ops, screen = "up", held) BY <1>6, <1>7, <1>8, <1>9, DeskHands
<1> QED BY <1>2, <1>10 DEF d2

\* A Takeover is asked for while the action goes on.
LEMMA TakeOverHands ==
  ASSUME ControlAssumption, HandsIInv, NEW c \in Calls, TakeOver(c)
  PROVE  HandsFit(desk', web', line', ops', screen' = "up", held')
<1> DEFINE d2 == [desk EXCEPT !.authority = "takeover",
                              !.call[c].phase = "takeover-requested", !.call[c].taking = TRUE]
<1>1. desk' = d2 /\ UNCHANGED <<web, line, ops, screen, held>> BY DEF TakeOver
<1>2. /\ Stands(desk, d2)
      /\ \A j \in Calls : /\ d2.call[j].phase \in Human => desk.call[j].phase \in Human
                          /\ d2.call[j].back = desk.call[j].back
                          /\ d2.call[j].activated = desk.call[j].activated
  BY HandsParts DEF DeskRec, CallRec, Stands, Human
<1> HIDE DEF d2
<1>3. HumansActivated(d2) BY <1>2, HandsParts DEF HumansActivated
<1>4. HandsFit(d2, web, line, ops, screen = "up", held) BY <1>2, <1>3, HandsParts, StandsInOrder, DeskHands
<1> QED BY <1>1, <1>4

\* The Takeover is granted once the action is over: the call is activated.
LEMMA TakeOverContinuesHands ==
  ASSUME ControlAssumption, HandsIInv, NEW c \in Calls, TakeOverContinues(c)
  PROVE  HandsFit(desk', web', line', ops', screen' = "up", held')
<1> DEFINE t == desk.call[c]
           holds == desk.pending = c /\ ~t.cancelled /\ ~t.failed /\ t.phase = "takeover-requested"
           d == [desk EXCEPT !.call[c].taking = FALSE]
           e == [d EXCEPT !.authority = "takeover", !.call[c].phase = "held",
                          !.call[c].activated = IF @ = "open" THEN "yes" ELSE @]
<1>1. desk' = (IF holds THEN e ELSE d) /\ UNCHANGED <<web, line, ops, screen, held>>
  BY DEF TakeOverContinues
<1>2. d \in DeskRec /\ Stands(desk, d)
      /\ \A j \in Calls : /\ d.call[j] \in CallRec
                          /\ d.call[j].phase = desk.call[j].phase /\ d.call[j].back = desk.call[j].back
                          /\ d.call[j].activated = desk.call[j].activated
  <2> DEFINE u == [t EXCEPT !.taking = FALSE]
  <2>1. u \in CallRec BY HandsParts DEF CallRec
  <2>2. d = [desk EXCEPT !.call = [desk.call EXCEPT ![c] = u]] OBVIOUS
  <2>3. /\ u.at = t.at /\ u.gate = t.gate /\ u.completion = t.completion /\ u.cancelled = t.cancelled
        /\ u.stop = t.stop /\ u.stopGate = t.stopGate /\ u.phase = t.phase /\ u.back = t.back
        /\ u.activated = t.activated
    BY HandsParts DEF CallRec
  <2> HIDE DEF u, d
  <2>4. d \in DeskRec /\ d.pending = desk.pending /\ d.call[c] = u
        /\ \A j \in Calls : j # c => d.call[j] = desk.call[j]
    BY <2>1, <2>2, HandsParts DEF DeskRec
  <2> QED BY <2>1, <2>3, <2>4, HandsParts DEF Stands
<1> HIDE DEF d
<1>3. HumansActivated(d) BY <1>2, HandsParts DEF HumansActivated
<1>4. /\ Stands(d, e)
      /\ \A j \in Calls : j # c => e.call[j] = d.call[j]
      /\ e.call[c].activated # "open"
  BY <1>2 DEF DeskRec, CallRec, Stands
<1> HIDE DEF e
<1>5. HumansActivated(e) BY <1>3, <1>4 DEF HumansActivated
<1>6. Stands(desk, e) BY <1>2, <1>4 DEF Stands
<1>7. HandsFit(d, web, line, ops, screen = "up", held) BY <1>2, <1>3, HandsParts, StandsInOrder, DeskHands
<1>8. HandsFit(e, web, line, ops, screen = "up", held) BY <1>5, <1>6, HandsParts, StandsInOrder, DeskHands
<1> QED BY <1>1, <1>7, <1>8

\* A call that is cancelled is rejected once its controller was released.
LEMMA CancelRevertsHands ==
  ASSUME ControlAssumption, HandsIInv, NEW c \in Calls, CancelReverts(c)
  PROVE  HandsFit(desk', web', line', ops', screen' = "up", held')
<1> DEFINE u == desk.call[c]
           t == Rejected(u)
           d2 == [desk EXCEPT !.call = [desk.call EXCEPT ![c] = t]]
<1>1. desk' = d2 /\ UNCHANGED <<web, line, ops, screen, held>>
  BY DEF CancelReverts
<1>2. /\ desk \in DeskRec /\ u \in CallRec /\ CallFits(desk, web, c) /\ u.stop = "revoking"
      /\ ReleaseOver(u.stopGate) /\ Fits(desk, web, line, ops)
  BY HandsParts, CallFacts DEF CancelReverts, CancelRevertsReady
<1>3. /\ t \in CallRec /\ t.at = u.at /\ t.phase = u.phase /\ t.back = u.back
      /\ t.cancelled = u.cancelled /\ t.activated # "open"
  BY <1>2, RejectedIs
<1>10. t.gate = u.gate BY <1>2 DEF Rejected, CallRec
<1> HIDE DEF t
<1>4. d2.pending = desk.pending /\ d2.call[c] = t /\ \A j \in Calls : j # c => d2.call[j] = desk.call[j]
  BY <1>2 DEF DeskRec
<1> HIDE DEF d2
<1>5. u.cancelled BY <1>2 DEF CallFits
<1>6. LineInOrder(d2, line) BY <1>3, <1>4, HandsParts, LineStays
<1>7. HumansActivated(d2) BY <1>3, <1>4, HandsParts DEF HumansActivated
<1>8. BotIsAlone(d2, web) BY <1>3, <1>4, HandsParts DEF BotIsAlone
<1>9. ASSUME screen = "up" PROVE OwedIsAwaited(d2, web, line)
  <2> SUFFICES ASSUME NEW k \in Claims, Owing(web, k) PROVE OwedTo(d2, line, k) BY DEF OwedIsAwaited
  <2>1. OwedTo(desk, line, k) BY <1>9, HandsParts DEF OwedIsAwaited
  <2>2. CASE desk.pending = c
    <3>1. c # 0 BY <1>2, CallFacts
    <3>2. (u.at = "revoking" /\ u.gate = k) \/ u.stopGate = k BY <1>5, <2>1, <2>2, <3>1 DEF OwedTo
    <3>3. u.stopGate # k BY <1>2 DEF Owing, ReleaseOver
    <3> QED BY <1>3, <1>4, <1>10, <2>2, <3>1, <3>2, <3>3 DEF OwedTo
  <2>3. CASE desk.pending # c
    BY <1>4, <2>1, <2>3, HandsParts DEF OwedTo
  <2> QED BY <2>2, <2>3
<1> QED BY <1>1, <1>6, <1>7, <1>8, <1>9, DeskHands

\* A call that was activated waits for its completion, where the human may owe a release.
LEMMA CallActivatedHands ==
  ASSUME ControlAssumption, HandsIInv, NEW c \in Calls, CallActivated(c)
  PROVE  HandsFit(desk', web', line', ops', screen' = "up", held')
<1> DEFINE u == desk.call[c]
<1>1. /\ desk \in DeskRec /\ u \in CallRec /\ Fits(desk, web, line, ops) /\ u.at = "activating"
      /\ desk.pending = c /\ c # 0 /\ line # <<>> /\ Head(line) = c
      /\ UNCHANGED <<web, ops, screen, held>>
  BY HandsParts, CallFacts DEF CallActivated, CallActivatedReady, Working
<1>2. screen = "up" => \A k \in Claims : ~Owing(web, k)
  BY <1>1, HandsParts DEF OwedIsAwaited, OwedTo
<1>3. CASE u.activated = "no" \/ u.cancelled
  <2> DEFINE d2 == Ended(desk, c)
  <2>1. desk' = d2 /\ line' = Tail(line) BY <1>3 DEF CallActivated
  <2>2. /\ d2.pending = 0 /\ \A j \in Calls : j # c => d2.call[j] = desk.call[j]
        /\ d2.call[c].phase = u.phase /\ d2.call[c].back = u.back /\ d2.call[c].activated = u.activated
    BY <1>1 DEF Ended, DeskRec, CallRec
  <2> HIDE DEF d2
  <2>3. LineInOrder(d2, Tail(line)) /\ HumansActivated(d2) /\ BotIsAlone(d2, web)
    BY <1>1, <2>2, HandsParts, GoneFromLine
  <2>4. HandsFit(d2, web, Tail(line), ops, screen = "up", held)
    BY <1>2, <2>3, DeskHands DEF OwedIsAwaited
  <2> QED BY <1>1, <2>1, <2>4
<1>4. CASE ~(u.activated = "no" \/ u.cancelled)
  <2> DEFINE d2 == [desk EXCEPT !.call[c].at = "completing"]
  <2>1. desk' = d2 /\ line' = line BY <1>4 DEF CallActivated
  <2>2. /\ d2.pending = c /\ \A j \in Calls : j # c => d2.call[j] = desk.call[j]
        /\ d2.call[c].phase = u.phase /\ d2.call[c].back = u.back /\ d2.call[c].activated = u.activated
        /\ d2.call[c].at = "completing"
    BY <1>1 DEF DeskRec, CallRec
  <2> HIDE DEF d2
  <2>3. LineInOrder(d2, line) BY <1>1, <2>2, HandsParts, LineStays
  <2>4. HumansActivated(d2) BY <2>2, HandsParts DEF HumansActivated
  <2>5. BotIsAlone(d2, web) BY <2>2 DEF BotIsAlone
  <2>6. HandsFit(d2, web, line, ops, screen = "up", held)
    BY <1>2, <2>3, <2>4, <2>5, DeskHands DEF OwedIsAwaited
  <2> QED BY <1>1, <2>1, <2>6
<1> QED BY <1>3, <1>4

\* A call that was taken over is over only when nothing is owed.
LEMMA CallCompletedHands ==
  ASSUME ControlAssumption, HandsIInv, NEW c \in Calls, CallCompleted(c)
  PROVE  HandsFit(desk', web', line', ops', screen' = "up", held')
<1> DEFINE u == desk.call[c]
           d2 == Ended(desk, c)
<1>1. /\ desk \in DeskRec /\ u \in CallRec /\ Fits(desk, web, line, ops) /\ u.at = "completing"
      /\ u.completion # "open"
      /\ desk.pending = c /\ c # 0 /\ line # <<>> /\ Head(line) = c
      /\ UNCHANGED <<web, ops, screen, held>>
  BY HandsParts, CallFacts DEF CallCompleted, CallCompletedReady, Working
<1>2. screen = "up" => \A k \in Claims : ~Owing(web, k)
  BY <1>1, HandsParts DEF OwedIsAwaited, OwedTo
<1>3. desk' = d2 /\ line' = Tail(line) BY DEF CallCompleted
<1>4. /\ d2.pending = 0 /\ \A j \in Calls : j # c => d2.call[j] = desk.call[j]
      /\ d2.call[c].phase = u.phase /\ d2.call[c].back = u.back /\ d2.call[c].activated = u.activated
  BY <1>1 DEF Ended, DeskRec, CallRec
<1> HIDE DEF d2
<1>5. LineInOrder(d2, Tail(line)) /\ HumansActivated(d2) /\ BotIsAlone(d2, web)
  BY <1>1, <1>4, HandsParts, GoneFromLine
<1>6. HandsFit(d2, web, Tail(line), ops, screen = "up", held)
  BY <1>2, <1>5, DeskHands DEF OwedIsAwaited
<1> QED BY <1>1, <1>3, <1>6

\* An action joins the queue only behind the release of every announced controller.
LEMMA CallRevokedHands ==
  ASSUME ControlAssumption, HandsIInv, NEW c \in Calls, CallRevoked(c)
  PROVE  HandsFit(desk', web', line', ops', screen' = "up", held')
<1> DEFINE u == desk.call[c]
<1>1. /\ desk \in DeskRec /\ u \in CallRec /\ Fits(desk, web, line, ops) /\ u.at = "revoking"
      /\ ReleaseOver(u.gate)
      /\ desk.pending = c /\ c # 0 /\ line # <<>> /\ Head(line) = c
      /\ UNCHANGED <<web, screen, held>>
  BY HandsParts, CallFacts DEF CallRevoked, CallRevokedReady, Working
<1>2. screen = "up" => \A k \in Claims : ~Owing(web, k)
  <2> SUFFICES ASSUME screen = "up", NEW k \in Claims, Owing(web, k) PROVE FALSE OBVIOUS
  <2>1. u.gate = k BY <1>1, HandsParts DEF OwedIsAwaited, OwedTo
  <2> QED BY <1>1, <2>1 DEF ReleaseOver, Owing
<1>3. CASE ReleaseFailed(desk.call[c].gate) \/ desk.call[c].aborted
  <2> DEFINE v == [u EXCEPT !.failed = TRUE]
             e == [desk EXCEPT !.call = [desk.call EXCEPT ![c] = v]]
             d2 == Ended(e, c)
  <2>1. desk' = d2 /\ line' = Tail(line) /\ ops' = ops BY <1>3 DEF CallRevoked
  <2>2. v \in CallRec /\ v.phase = u.phase /\ v.back = u.back /\ v.activated = u.activated
    BY <1>1 DEF CallRec
  <2> HIDE DEF v
  <2>3. /\ e \in DeskRec /\ e.pending = c /\ e.call[c] = v /\ \A j \in Calls : j # c => e.call[j] = desk.call[j]
    BY <1>1, <2>2 DEF DeskRec
  <2> HIDE DEF e
  <2>4. /\ d2.pending = 0 /\ \A j \in Calls : j # c => d2.call[j] = desk.call[j]
        /\ d2.call[c].phase = u.phase /\ d2.call[c].back = u.back /\ d2.call[c].activated = u.activated
    BY <2>2, <2>3 DEF Ended, DeskRec, CallRec
  <2> HIDE DEF d2
  <2>5. LineInOrder(d2, Tail(line)) /\ HumansActivated(d2) /\ BotIsAlone(d2, web)
    BY <1>1, <2>4, HandsParts, GoneFromLine
  <2>6. HandsFit(d2, web, Tail(line), ops, screen = "up", held)
    BY <1>2, <2>5, DeskHands DEF OwedIsAwaited
  <2> QED BY <1>1, <2>1, <2>6
<1>4. CASE ~(ReleaseFailed(desk.call[c].gate) \/ desk.call[c].aborted)
  <2> DEFINE d2 == [desk EXCEPT !.call[c].at = "acting"]
             x == [op |-> "act", by |-> c]
             o2 == Append(ops, x)
  <2>1. desk' = d2 /\ line' = line /\ ops' = o2 BY <1>4 DEF CallRevoked
  <2>2. /\ d2.pending = c /\ \A j \in Calls : j # c => d2.call[j] = desk.call[j]
        /\ d2.call[c].phase = u.phase /\ d2.call[c].back = u.back /\ d2.call[c].activated = u.activated
        /\ d2.call[c].at = "acting"
    BY <1>1 DEF DeskRec, CallRec
  <2> HIDE DEF d2
  <2>3. LineInOrder(d2, line) BY <1>1, <2>2, HandsParts, LineStays
  <2>4. HumansActivated(d2) BY <2>2, HandsParts DEF HumansActivated
  <2>5. web.now = 0 BY <1>1, HandsParts DEF BotIsAlone
  <2>6. BotIsAlone(d2, web) BY <2>5 DEF BotIsAlone
  <2>7. x \in OpRec /\ x.op = "act" /\ \A k \in Claims : x # ReleaseOf(k)
    BY DEF Calls, OpRec, ReleaseOf
  <2> HIDE DEF x
  <2>8. QueueFits(o2, web) BY <2>7, HandsParts, QueueIsOf, JoinsQueue
  <2>9. ASSUME screen = "up" PROVE ActsFollow(o2, web)
    <3>1. ASSUME NEW k \in Claims, web.ctl[k].announced PROVE \E i \in DOMAIN ops : ops[i] = ReleaseOf(k)
      <4>1. ~web.ctl[k].active
        <5>1. web.ctl[k].active => k = web.now
          BY HandsParts, PartsTyped DEF Newest
        <5> QED BY <2>5, <5>1 DEF Claims
      <4>2. web.ctl[k].release \notin {"none", "done", "failed", "waiting"}
        BY <1>2, <2>9, <3>1, <4>1, HandsParts DEF AnnouncedFit, Newest, Owing
      <4>3. web.ctl[k].release = "queued" BY <4>2, HandsParts DEF CtlRec
      <4> QED BY <4>3, HandsParts DEF QueueFits
    <3>2. /\ Len(ops) \in Nat /\ DOMAIN ops = 1..Len(ops) /\ DOMAIN o2 = 1..(Len(ops) + 1)
          /\ \A i \in DOMAIN ops : i \in DOMAIN o2 /\ o2[i] = ops[i] /\ i < Len(ops) + 1
          /\ \A i \in DOMAIN o2 : i \in DOMAIN ops \/ i = Len(ops) + 1
      BY <2>7, HandsParts
    <3> HIDE DEF o2
    <3>3. ASSUME NEW i \in DOMAIN o2, o2[i].op = "act", NEW k \in Claims, web.ctl[k].announced
          PROVE  \E j \in DOMAIN o2 : j < i /\ o2[j] = ReleaseOf(k)
      <4>1. CASE i \in DOMAIN ops
        <5>1. PICK j \in DOMAIN ops : j < i /\ ops[j] = ReleaseOf(k)
          BY <2>9, <3>2, <3>3, <4>1, HandsParts DEF ActsFollow
        <5> QED BY <3>2, <5>1
      <4>2. CASE i = Len(ops) + 1 BY <3>1, <3>2, <3>3, <4>2
      <4> QED BY <3>2, <4>1, <4>2
    <3> QED BY <3>3 DEF ActsFollow
  <2> HIDE DEF o2
  <2>10. HandsFit(d2, web, line, o2, screen = "up", held)
    BY <1>2, <2>3, <2>4, <2>6, <2>8, <2>9, HandsParts DEF HandsFit, OwedIsAwaited
  <2> QED BY <1>1, <2>1, <2>10
<1> QED BY <1>3, <1>4

\* A call that starts revokes the one in control, and waits for its release.
LEMMA CallStartsHands ==
  ASSUME ControlAssumption, HandsIInv, NEW c \in Calls, CallStarts(c)
  PROVE  HandsFit(desk', web', line', ops', screen' = "up", held')
<1> DEFINE u == desk.call[c]
<1>1. /\ desk \in DeskRec /\ u \in CallRec /\ Fits(desk, web, line, ops) /\ u.at = "queued"
      /\ c # 0 /\ line # <<>> /\ Head(line) = c /\ line \in Seq(Calls)
      /\ UNCHANGED <<ops, screen, held>>
  BY HandsParts, CallFacts DEF CallStarts, CallStartsReady
<1>2. desk.pending = 0
  <2> SUFFICES ASSUME desk.pending # 0 PROVE FALSE OBVIOUS
  <2>1. desk.pending = c BY <1>1, CallFacts
  <2> QED BY <1>1, <2>1, CallFacts DEF Working
<1>3. screen = "up" => \A k \in Claims : ~Owing(web, k)
  BY <1>1, <1>2, HandsParts DEF OwedIsAwaited, OwedTo
<1>4. CASE u.aborted
  <2> DEFINE d2 == [desk EXCEPT !.call[c].at = "ended"]
  <2>1. desk' = d2 /\ line' = Tail(line) /\ web' = web BY <1>4 DEF CallStarts
  <2>2. /\ d2.pending = 0 /\ \A j \in Calls : j # c => d2.call[j] = desk.call[j]
        /\ d2.call[c].phase = u.phase /\ d2.call[c].back = u.back /\ d2.call[c].activated = u.activated
    BY <1>1, <1>2 DEF DeskRec, CallRec
  <2> HIDE DEF d2
  <2>3. LineInOrder(d2, Tail(line)) /\ HumansActivated(d2) /\ BotIsAlone(d2, web)
    BY <1>1, <2>2, HandsParts, GoneFromLine
  <2>4. HandsFit(d2, web, Tail(line), ops, screen = "up", held)
    BY <1>3, <2>3, DeskHands DEF OwedIsAwaited
  <2> QED BY <1>1, <2>1, <2>4
<1>5. CASE ~u.aborted
  <2> DEFINE d2 == [desk EXCEPT !.pending = c, !.webOwner = FALSE, !.authority = "agent",
                                !.call[c] = [@ EXCEPT !.at = "revoking", !.gate = web.now]]
             w2 == Revoked(web, web.now)
  <2>1. desk' = d2 /\ line' = line /\ web' = w2 BY <1>5 DEF CallStarts
  <2>2. /\ d2.pending = c /\ \A j \in Calls : j # c => d2.call[j] = desk.call[j]
        /\ d2.call[c].phase = u.phase /\ d2.call[c].back = u.back /\ d2.call[c].activated = u.activated
        /\ d2.call[c].at = "revoking" /\ d2.call[c].gate = web.now
    BY <1>1 DEF DeskRec, CallRec
  <2> HIDE DEF d2
  <2>3. web.now \in 0..web.last BY HandsParts, PartsTyped
  <2>4. Calm(web, w2) /\ w2.now = 0 BY <2>3, HandsParts, NewestIsOpen, RevokedIsCalm
  <2> HIDE DEF w2
  <2>5. LineInOrder(d2, line)
    <3>1. 1 \in DOMAIN line /\ line[1] = c /\ \A i \in DOMAIN line : line[i] \in Calls BY <1>1
    <3>2. \A i \in DOMAIN line : desk.call[line[i]].at = "queued"
      BY <1>1, <1>2, <3>1, HandsParts DEF LineInOrder, Calls
    <3>3. \A i \in DOMAIN line : line[i] = c => i = 1 BY <3>1, HandsParts DEF LineInOrder
    <3> QED BY <2>2, <3>1, <3>2, <3>3, HandsParts DEF LineInOrder
  <2>6. HumansActivated(d2) BY <2>2, HandsParts DEF HumansActivated
  <2>7. BotIsAlone(d2, w2) BY <2>4 DEF BotIsAlone
  <2>8. ASSUME screen = "up" PROVE OwedIsAwaited(d2, w2, line)
    <3> SUFFICES ASSUME NEW k \in Claims, Owing(w2, k) PROVE OwedTo(d2, line, k) BY DEF OwedIsAwaited
    <3>1. web.ctl[k].active BY <1>3, <2>4, <2>8 DEF Calm
    <3>2. k = web.now BY <3>1, HandsParts, PartsTyped DEF Newest
    <3> QED BY <1>1, <2>2, <3>2 DEF OwedTo
  <2>9. QueueFits(ops, w2) /\ HeldFits(held, w2) /\ (screen = "up" => ActsFollow(ops, w2))
    BY <2>4, HandsParts, CalmLeaves
  <2>10. HandsFit(d2, w2, line, ops, screen = "up", held)
    BY <2>4, <2>5, <2>6, <2>7, <2>8, <2>9 DEF HandsFit, Calm
  <2> QED BY <1>1, <2>1, <2>10
<1> QED BY <1>4, <1>5

-----------------------------------------------------------------------------
(* The steps of a controller.                                                 *)

\* A record of one controller that stays as far as the hands go leaves the controllers fitting.
LEMMA OneAnnounced ==
  ASSUME ControlAssumption, NEW w \in WebRec, AnnouncedFit(w), NEW k \in Claims, NEW r,
         \A j \in Claims : j # k => r.ctl[j] = w.ctl[j],
         r.barrier \in {0, w.barrier}, r.ctl[k].revoked = w.ctl[k].revoked, r.ctl[k].prior = w.ctl[k].prior,
         r.ctl[k].active => r.ctl[k].announced,
         r.ctl[k].announced =>
           /\ r.ctl[k].provisioned /\ r.ctl[k].claim \in {"settled", "back"}
           /\ r.ctl[k].release \notin {"done", "failed"}
           /\ r.ctl[k].active \/ r.ctl[k].revoked
  PROVE  AnnouncedFit(r)
<1>1. /\ MaxClaims \in Nat /\ Claims = 1..MaxClaims /\ w.barrier \in 0..MaxClaims
      /\ \A j \in Claims : w.ctl[j] \in CtlRec
  BY DEF WebRec, ControlAssumption, Claims
<1>2. \A j \in Claims : w.ctl[j].prior \in 0..MaxClaims BY <1>1 DEF CtlRec
<1>3. \A j \in Claims : r.ctl[j].revoked = w.ctl[j].revoked /\ r.ctl[j].prior = w.ctl[j].prior OBVIOUS
<1>4. \A j \in Claims : r.ctl[j].prior # 0 => r.ctl[r.ctl[j].prior].revoked
  BY <1>1, <1>2, <1>3 DEF AnnouncedFit
<1>5. r.barrier # 0 => r.ctl[r.barrier].revoked BY <1>1, <1>3 DEF AnnouncedFit
<1>6. ASSUME NEW j \in Claims
      PROVE  /\ r.ctl[j].active => r.ctl[j].announced
             /\ r.ctl[j].announced =>
                  /\ r.ctl[j].provisioned /\ r.ctl[j].claim \in {"settled", "back"}
                  /\ r.ctl[j].release \notin {"done", "failed"}
                  /\ r.ctl[j].active \/ r.ctl[j].revoked
  BY DEF AnnouncedFit
<1> QED BY <1>4, <1>5, <1>6 DEF AnnouncedFit

\* It is calm, if it is announced as before.
LEMMA OneIsCalm ==
  ASSUME ControlAssumption, NEW w \in WebRec, AnnouncedFit(w), NEW k \in Claims, NEW r,
         \A j \in Claims : j # k => r.ctl[j] = w.ctl[j],
         r.barrier \in {0, w.barrier}, r.ctl[k].revoked = w.ctl[k].revoked, r.ctl[k].prior = w.ctl[k].prior,
         r.ctl[k].active = w.ctl[k].active, r.ctl[k].announced = w.ctl[k].announced,
         r.ctl[k].release = "queued" <=> w.ctl[k].release = "queued",
         w.ctl[k].announced => /\ r.ctl[k].provisioned /\ r.ctl[k].claim \in {"settled", "back"}
                               /\ r.ctl[k].release = w.ctl[k].release
  PROVE  Calm(w, r) /\ \A j \in Claims : Owing(r, j) => Owing(w, j)
<1>1. AnnouncedFit(r) BY OneAnnounced DEF AnnouncedFit
<1> QED BY <1>1 DEF Calm, Owing

\* Controllers that are calm leave the hands fitting, if what is owed is awaited.
LEMMA WebHands ==
  ASSUME ControlAssumption, HandsIInv, NEW r, Calm(web, r), NEW d2, LineInOrder(d2, line),
         HumansActivated(d2), BotIsAlone(d2, r), screen = "up" => OwedIsAwaited(d2, r, line)
  PROVE  HandsFit(d2, r, line, ops, screen = "up", held)
BY HandsParts, CalmLeaves DEF HandsFit, Calm

\* An operation other than an action joins the queue.
LEMMA QueueHands ==
  ASSUME ControlAssumption, HandsIInv, NEW r, Calm(web, r), NEW x \in OpRec, x.op # "act",
         x.op = "input" => /\ x.by \in Claims /\ web.ctl[x.by].announced /\ web.ctl[x.by].release = "none"
  PROVE  /\ QueueFits(Append(ops, x), r) /\ HeldFits(held, r)
         /\ screen = "up" => ActsFollow(Append(ops, x), r)
<1>1. \A i \in DOMAIN ops : ops[i].op = "input" => ops[i].by \in Claims BY HandsParts, QueueIsOf
<1>2. x.op = "input" => \A j \in DOMAIN ops : ops[j] # ReleaseOf(x.by) BY HandsParts, QueueIsOf
<1>3. \A k \in Claims : /\ r.ctl[k].announced = web.ctl[k].announced
                        /\ r.ctl[k].release = "queued" => web.ctl[k].release = "queued"
  BY DEF Calm
<1> QED BY <1>1, <1>2, <1>3, HandsParts, JoinsQueue, CalmLeaves

\* The next operation starts.
LEMMA OperationStartsHands ==
  ASSUME ControlAssumption, HandsIInv, OperationStarts
  PROVE  HandsFit(desk', web', line', ops', screen' = "up", held')
BY DEF HandsIInv, OperationStarts

\* A claim joins the queue: it is not announced yet.
LEMMA ClaimStartsHands ==
  ASSUME ControlAssumption, HandsIInv, NEW k \in Claims, ClaimStarts(k)
  PROVE  HandsFit(desk', web', line', ops', screen' = "up", held')
<1> DEFINE x == [op |-> "claim", by |-> k]
<1>1. /\ web \in WebRec /\ AnnouncedFit(web) /\ web.ctl[k] \in CtlRec /\ web.ctl[k].claim = "barred"
      /\ UNCHANGED <<desk, line, screen, held>> /\ k \in Nat
  BY HandsParts, PartsTyped DEF ClaimStarts, ClaimStartsReady
<1>2. PICK a \in {"settled", "failed", "asking"} : web' = [web EXCEPT !.ctl[k].claim = a]
  BY DEF ClaimStarts
<1>3. PICK r : r = web' OBVIOUS
<1>4. /\ r.now = web.now /\ r.barrier = web.barrier /\ \A j \in Claims : j # k => r.ctl[j] = web.ctl[j]
      /\ r.ctl[k] = [web.ctl[k] EXCEPT !.claim = a]
  BY <1>1, <1>2, <1>3 DEF WebRec
<1>5. /\ r.ctl[k].revoked = web.ctl[k].revoked /\ r.ctl[k].prior = web.ctl[k].prior
      /\ r.ctl[k].active = web.ctl[k].active /\ r.ctl[k].announced = web.ctl[k].announced
      /\ r.ctl[k].release = web.ctl[k].release
  BY <1>1, <1>4 DEF CtlRec
<1>6. Calm(web, r) /\ \A j \in Claims : Owing(r, j) => Owing(web, j)
  <2>1. ~web.ctl[k].announced BY <1>1 DEF AnnouncedFit
  <2>2. r.barrier \in {0, web.barrier} BY <1>4
  <2>3. r.ctl[k].release = "queued" <=> web.ctl[k].release = "queued" BY <1>5
  <2>4. \A j \in Claims : j # k => r.ctl[j] = web.ctl[j] BY <1>4
  <2>5. web.ctl[k].announced => /\ r.ctl[k].provisioned /\ r.ctl[k].claim \in {"settled", "back"}
                               /\ r.ctl[k].release = web.ctl[k].release
    BY <2>1
  <2> QED BY <1>1, <1>5, <2>2, <2>3, <2>4, <2>5, OneIsCalm
<1>7. BotIsAlone(desk, r) BY <1>4, HandsParts DEF BotIsAlone
<1>8. screen = "up" => OwedIsAwaited(desk, r, line) BY <1>6, HandsParts DEF OwedIsAwaited
<1>9. HandsFit(desk, r, line, ops, screen = "up", held) BY <1>6, <1>7, <1>8, HandsParts, WebHands
<1>10. HandsFit(desk, r, line, Append(ops, x), screen = "up", held)
  <2>1. x \in OpRec /\ x.op = "claim" BY <1>1 DEF OpRec
  <2> HIDE DEF x
  <2> QED BY <1>6, <1>9, <2>1, QueueHands DEF HandsFit
<1>11. ops' = ops \/ ops' = Append(ops, x) BY DEF ClaimStarts
<1> HIDE DEF x
<1> QED BY <1>1, <1>3, <1>9, <1>10, <1>11

\* A claim that came too late is revoked.
LEMMA ClaimReturnsHands ==
  ASSUME ControlAssumption, HandsIInv, NEW k \in Claims, ClaimReturns(k)
  PROVE  HandsFit(desk', web', line', ops', screen' = "up", held')
<1>1. /\ web \in WebRec /\ AnnouncedFit(web) /\ web.ctl[k].claim \in {"settled", "failed"}
      /\ Newest(web) /\ InOrder(web) /\ k \in 0..web.last /\ k # 0 /\ NowIsOpen(web)
      /\ UNCHANGED <<desk, line, ops, screen, held>>
  BY HandsParts, PartsTyped, NewestIsOpen DEF ClaimReturns, ClaimReturnsReady
<1> DEFINE useless == ~web.ctl[k].active /\ (web.ctl[k].claim = "failed" \/ web.ctl[k].provisioned)
           w == IF useless THEN Revoked(web, k) ELSE web
<1>2. /\ w \in WebRec /\ Calm(web, w) /\ (web.now = 0 => w.now = 0) /\ w.ctl[k].claim = web.ctl[k].claim
      /\ \A j \in Claims : Owing(w, j) => Owing(web, j)
  <2>1. CASE useless
    <3>1. /\ Revoked(web, k) \in WebRec /\ Calm(web, Revoked(web, k)) /\ (web.now = 0 => Revoked(web, k).now = 0)
          /\ Revoked(web, k).ctl[k].claim = web.ctl[k].claim
      BY <1>1, RevokedIs, RevokedIsCalm DEF Revoking
    <3>2. ASSUME NEW j \in Claims, Owing(Revoked(web, k), j) PROVE Owing(web, j)
      <4>1. CASE web.ctl[k].revoked
        <5>1. Revoked(web, k) = web BY <4>1 DEF Revoked
        <5> QED BY <3>2, <5>1
      <4>2. CASE ~web.ctl[k].revoked
        <5>1. k = web.now BY <1>1, <4>2 DEF NowIsOpen
        <5>2. web.ctl[j].active => j = web.now BY HandsParts, PartsTyped DEF Newest
        <5>3. ~web.ctl[j].active BY <2>1, <5>1, <5>2
        <5> QED BY <3>1, <3>2, <5>3 DEF Calm
      <4> QED BY <4>1, <4>2
    <3> QED BY <2>1, <3>1, <3>2
  <2>2. CASE ~useless
    <3>1. Calm(web, web) BY <1>1 DEF Calm
    <3> HIDE DEF useless
    <3> QED BY <1>1, <2>2, <3>1
  <2> QED BY <2>1, <2>2
<1>3. web' = [w EXCEPT !.ctl[k].claim = "back"] BY DEF ClaimReturns
<1> HIDE DEF w
<1>4. AnnouncedFit(w) /\ w.ctl[k] \in CtlRec BY <1>2 DEF Calm, WebRec
<1>5. PICK r : r = web' OBVIOUS
<1>6. /\ r.now = w.now /\ r.barrier = w.barrier /\ \A j \in Claims : j # k => r.ctl[j] = w.ctl[j]
      /\ r.ctl[k] = [w.ctl[k] EXCEPT !.claim = "back"]
  BY <1>2, <1>3, <1>5 DEF WebRec
<1>7. /\ r.ctl[k].revoked = w.ctl[k].revoked /\ r.ctl[k].prior = w.ctl[k].prior
      /\ r.ctl[k].active = w.ctl[k].active /\ r.ctl[k].announced = w.ctl[k].announced
      /\ r.ctl[k].release = w.ctl[k].release /\ r.ctl[k].claim = "back"
      /\ r.ctl[k].provisioned = w.ctl[k].provisioned
  BY <1>4, <1>6 DEF CtlRec
<1>8. Calm(w, r) /\ \A j \in Claims : Owing(r, j) => Owing(w, j)
  <2>1. w.ctl[k].announced => w.ctl[k].provisioned BY <1>4 DEF AnnouncedFit
  <2>2. r.barrier \in {0, w.barrier} BY <1>6
  <2>3. r.ctl[k].release = "queued" <=> w.ctl[k].release = "queued" BY <1>7
  <2>4. \A j \in Claims : j # k => r.ctl[j] = w.ctl[j] BY <1>6
  <2>5. w.ctl[k].announced => /\ r.ctl[k].provisioned /\ r.ctl[k].claim \in {"settled", "back"}
                             /\ r.ctl[k].release = w.ctl[k].release
    BY <1>7, <2>1
  <2> QED BY <1>2, <1>4, <1>7, <2>2, <2>3, <2>4, <2>5, OneIsCalm
<1>9. Calm(web, r) /\ \A j \in Claims : Owing(r, j) => Owing(web, j) BY <1>2, <1>8, CalmGoesOn
<1>10. BotIsAlone(desk, r) BY <1>2, <1>6, HandsParts DEF BotIsAlone
<1>11. screen = "up" => OwedIsAwaited(desk, r, line) BY <1>9, HandsParts DEF OwedIsAwaited
<1>12. HandsFit(desk, r, line, ops, screen = "up", held) BY <1>9, <1>10, <1>11, HandsParts, WebHands
<1> QED BY <1>1, <1>5, <1>12

\* A release joins the queue, or is over for a controller nobody was told of.
LEMMA ReleaseStartsHands ==
  ASSUME ControlAssumption, HandsIInv, NEW k \in Claims, ReleaseStarts(k)
  PROVE  HandsFit(desk', web', line', ops', screen' = "up", held')
<1>1. /\ web \in WebRec /\ AnnouncedFit(web) /\ web.ctl[k] \in CtlRec /\ web.ctl[k].release = "waiting"
      /\ UNCHANGED <<desk, line, screen, held>> /\ k \in Nat /\ k # 0
  BY HandsParts, PartsTyped DEF ReleaseStarts, ReleaseStartsReady
<1>2. PICK r : r = web' OBVIOUS
<1>3. CASE web.ctl[k].provisioned
  <2> DEFINE x == [op |-> "release", by |-> k]
             p == Append(ops, x)
  <2>1. web' = [web EXCEPT !.ctl[k].release = "queued"] /\ ops' = p BY <1>3 DEF ReleaseStarts
  <2>2. /\ r.now = web.now /\ r.barrier = web.barrier /\ \A j \in Claims : j # k => r.ctl[j] = web.ctl[j]
        /\ r.ctl[k] = [web.ctl[k] EXCEPT !.release = "queued"]
    BY <1>1, <1>2, <2>1 DEF WebRec
  <2>3. /\ r.ctl[k].revoked = web.ctl[k].revoked /\ r.ctl[k].prior = web.ctl[k].prior
        /\ r.ctl[k].active = web.ctl[k].active /\ r.ctl[k].announced = web.ctl[k].announced
        /\ r.ctl[k].release = "queued" /\ r.ctl[k].claim = web.ctl[k].claim
        /\ r.ctl[k].provisioned = web.ctl[k].provisioned
    BY <1>1, <2>2 DEF CtlRec
  <2>4. AnnouncedFit(r)
    <3>1. /\ r.ctl[k].active => r.ctl[k].announced
          /\ r.ctl[k].announced =>
               /\ r.ctl[k].provisioned /\ r.ctl[k].claim \in {"settled", "back"}
               /\ r.ctl[k].release \notin {"done", "failed"}
               /\ r.ctl[k].active \/ r.ctl[k].revoked
      BY <1>1, <2>3 DEF AnnouncedFit
    <3>2. r.barrier \in {0, web.barrier} BY <2>2
    <3>3. \A j \in Claims : j # k => r.ctl[j] = web.ctl[j] BY <2>2
    <3> QED BY <1>1, <2>3, <3>1, <3>2, <3>3, OneAnnounced
  <2>5. BotIsAlone(desk, r) BY <2>2, HandsParts DEF BotIsAlone
  <2>6. \A j \in Claims : Owing(r, j) => Owing(web, j) BY <2>2, <2>3 DEF Owing
  <2>7. screen = "up" => OwedIsAwaited(desk, r, line) BY <2>6, HandsParts DEF OwedIsAwaited
  <2>8. x \in OpRec /\ x.op = "release" /\ x = ReleaseOf(k) BY <1>1 DEF OpRec, ReleaseOf
  <2> HIDE DEF x
  <2>9. QueueFits(p, r) /\ (screen = "up" => ActsFollow(p, r))
    BY HandsParts, QueueIsOf, <2>2, <2>3, <2>8, JoinsQueue
  <2>10. HeldFits(held, r) BY <2>2, <2>3, HandsParts DEF HeldFits
  <2> HIDE DEF p
  <2>11. HandsFit(desk, r, line, p, screen = "up", held)
    BY <2>4, <2>5, <2>7, <2>9, <2>10, HandsParts DEF HandsFit
  <2> QED BY <1>1, <1>2, <2>1, <2>11
<1>4. CASE ~web.ctl[k].provisioned
  <2> DEFINE b == IF web.barrier = k THEN 0 ELSE web.barrier
  <2>1. web' = [web EXCEPT !.ctl[k].release = "done", !.barrier = b] /\ ops' = ops
    BY <1>4 DEF ReleaseStarts
  <2>2. /\ r.now = web.now /\ r.barrier = b /\ \A j \in Claims : j # k => r.ctl[j] = web.ctl[j]
        /\ r.ctl[k] = [web.ctl[k] EXCEPT !.release = "done"]
    BY <1>1, <1>2, <2>1 DEF WebRec
  <2>3. /\ r.ctl[k].revoked = web.ctl[k].revoked /\ r.ctl[k].prior = web.ctl[k].prior
        /\ r.ctl[k].active = web.ctl[k].active /\ r.ctl[k].announced = web.ctl[k].announced
        /\ r.ctl[k].release = "done"
    BY <1>1, <2>2 DEF CtlRec
  <2>4. ~web.ctl[k].announced BY <1>1, <1>4 DEF AnnouncedFit
  <2>5. b \in {0, web.barrier} OBVIOUS
  <2> HIDE DEF b
  <2>6. Calm(web, r) /\ \A j \in Claims : Owing(r, j) => Owing(web, j)
    BY <1>1, <2>2, <2>3, <2>4, <2>5, OneIsCalm
  <2>7. BotIsAlone(desk, r) BY <2>2, HandsParts DEF BotIsAlone
  <2>8. screen = "up" => OwedIsAwaited(desk, r, line) BY <2>6, HandsParts DEF OwedIsAwaited
  <2>9. HandsFit(desk, r, line, ops, screen = "up", held) BY <2>6, <2>7, <2>8, HandsParts, WebHands
  <2> QED BY <1>1, <1>2, <2>1, <2>9
<1> QED BY <1>3, <1>4

\* An input joins the queue while its controller is active, hence before its release.
LEMMA SendInputHands ==
  ASSUME ControlAssumption, HandsIInv, NEW k \in Claims, SendInput(k)
  PROVE  HandsFit(desk', web', line', ops', screen' = "up", held')
<1> DEFINE x == [op |-> "input", by |-> k]
           n == web.ctl[k].inputs - 1
<1>1. /\ web \in WebRec /\ AnnouncedFit(web) /\ web.ctl[k] \in CtlRec /\ web.ctl[k].active
      /\ UNCHANGED <<desk, line, screen, held>> /\ k \in Nat /\ ops' = Append(ops, x)
      /\ web' = [web EXCEPT !.ctl[k].inputs = n, !.ctl[k].sending = TRUE]
  BY HandsParts, PartsTyped DEF SendInput, SendReady
<1> HIDE DEF n
<1>2. PICK r : r = web' OBVIOUS
<1>3. /\ r.now = web.now /\ r.barrier = web.barrier /\ \A j \in Claims : j # k => r.ctl[j] = web.ctl[j]
      /\ r.ctl[k] = [web.ctl[k] EXCEPT !.inputs = n, !.sending = TRUE]
  BY <1>1, <1>2 DEF WebRec, CtlRec
<1>4. /\ r.ctl[k].revoked = web.ctl[k].revoked /\ r.ctl[k].prior = web.ctl[k].prior
      /\ r.ctl[k].active = web.ctl[k].active /\ r.ctl[k].announced = web.ctl[k].announced
      /\ r.ctl[k].release = web.ctl[k].release /\ r.ctl[k].claim = web.ctl[k].claim
      /\ r.ctl[k].provisioned = web.ctl[k].provisioned
  BY <1>1, <1>3 DEF CtlRec
<1>5. Calm(web, r) /\ \A j \in Claims : Owing(r, j) => Owing(web, j)
  <2>1. web.ctl[k].announced =>
          /\ r.ctl[k].provisioned /\ r.ctl[k].claim \in {"settled", "back"}
          /\ r.ctl[k].release = web.ctl[k].release
    BY <1>1, <1>4 DEF AnnouncedFit
  <2>2. r.barrier \in {0, web.barrier} BY <1>3
  <2>3. r.ctl[k].release = "queued" <=> web.ctl[k].release = "queued" BY <1>4
  <2>4. \A j \in Claims : j # k => r.ctl[j] = web.ctl[j] BY <1>3
  <2> QED BY <1>1, <1>4, <2>1, <2>2, <2>3, <2>4, OneIsCalm
<1>6. BotIsAlone(desk, r) BY <1>3, HandsParts DEF BotIsAlone
<1>7. screen = "up" => OwedIsAwaited(desk, r, line) BY <1>5, HandsParts DEF OwedIsAwaited
<1>8. x \in OpRec /\ x.op = "input" /\ x.by = k BY <1>1 DEF OpRec
<1>9. web.ctl[k].announced /\ web.ctl[k].release = "none" BY <1>1, HandsParts DEF AnnouncedFit, Newest
<1> HIDE DEF x
<1>10. HandsFit(desk, r, line, Append(ops, x), screen = "up", held)
  BY <1>5, <1>6, <1>7, <1>8, <1>9, HandsParts, QueueHands DEF HandsFit, Calm
<1> QED BY <1>1, <1>2, <1>10

-----------------------------------------------------------------------------
(* What viewers and Agents ask for.                                           *)

\* While nothing is ready, what is owed after calm changes is awaited.
LEMMA QuietOwed ==
  ASSUME ControlAssumption, HandsIInv, Quiet, NEW r, Calm(web, r)
  PROVE  OwedIsAwaited(desk, r, line)
<1> SUFFICES ASSUME NEW k \in Claims, Owing(r, k) PROVE OwedTo(desk, line, k) BY DEF OwedIsAwaited
<1>1. ~Owing(web, k) BY HandsParts, NothingIsOwed
<1>2. web.ctl[k].active BY <1>1 DEF Calm
<1> QED BY <1>2, HandsParts, ActiveMayBeOwed DEF OwedTo

\* Whom a human may take the place of is not revoking, nor acting.
LEMMA AcceptingIsIdle ==
  ASSUME ControlAssumption, HandsIInv, CanAccept(desk), NEW r
  PROVE  BotIsAlone(desk, r)
<1> SUFFICES ASSUME desk.pending # 0 PROVE desk.call[desk.pending].at \notin {"revoking", "acting"}
  BY DEF BotIsAlone
<1>1. desk.pending \in Calls /\ desk.call[desk.pending].phase \in Human BY HandsParts
  DEF CanAccept, Human
<1>2. CallFits(desk, web, desk.pending) BY <1>1, HandsParts, CallFacts
<1> QED BY <1>1, <1>2 DEF CallFits

\* A viewer that expands the Screen claims it only while the Bot is not at work on it.
LEMMA SetModeHands ==
  ASSUME ControlAssumption, HandsIInv, NEW s \in Sessions, NEW mode \in {"idle", "expanded"},
         SetMode(s, mode)
  PROVE  HandsFit(desk', web', line', ops', screen' = "up", held')
<1> DEFINE v == [view EXCEPT ![s] = [mode |-> mode, suspended |-> FALSE]]
           w == IF view[s].mode = "expanded" /\ mode # "expanded" THEN RevokedFor(web, s) ELSE web
           claims == MayClaim(desk, w, v, s, FALSE)
           r == IF claims THEN Claimed(w, s, FALSE) ELSE w
<1>1. /\ claims => RoomForClaim
      /\ web' = r /\ Quiet
      /\ UNCHANGED <<desk, line, ops, screen, held>>
  BY DEF SetMode
<1>2. Fits(desk, w, line, ops) /\ w.last = web.last BY HandsParts, RevokedForFits
<1>3. Calm(web, w) /\ (web.now = 0 => w.now = 0)
  BY HandsParts, NewestIsOpen, RevokedForIsCalm DEF Calm
<1>4. claims => CanAccept(desk) BY DEF MayClaim
<1> HIDE DEF w, v, claims
<1>5. CASE claims
  <2>1. w.last < MaxClaims
    BY HandsParts, PartsTyped, <1>1, <1>2, <1>5, RoomIsLeft DEF ControlAssumption
  <2>2. Calm(w, Claimed(w, s, FALSE)) BY <1>2, <1>3, <2>1, PartsTyped, ClaimedIsCalm DEF Calm
  <2>3. Calm(web, Claimed(w, s, FALSE)) BY <1>3, <2>2, CalmGoesOn
  <2>4. BotIsAlone(desk, Claimed(w, s, FALSE)) BY <1>4, <1>5, AcceptingIsIdle
  <2>5. OwedIsAwaited(desk, Claimed(w, s, FALSE), line) BY <1>1, <2>3, QuietOwed
  <2>6. HandsFit(desk, Claimed(w, s, FALSE), line, ops, screen = "up", held)
    BY <2>3, <2>4, <2>5, HandsParts, WebHands
  <2> QED BY <1>1, <1>5, <2>6
<1>6. CASE ~claims
  <2>1. BotIsAlone(desk, w) BY <1>3, HandsParts DEF BotIsAlone
  <2>2. OwedIsAwaited(desk, w, line) BY <1>1, <1>3, QuietOwed
  <2>3. HandsFit(desk, w, line, ops, screen = "up", held) BY <1>3, <2>1, <2>2, HandsParts, WebHands
  <2> QED BY <1>1, <1>6, <2>3
<1> QED BY <1>5, <1>6

\* A request that does no more than revoke a controller.
LEMMA RevokingHands ==
  ASSUME ControlAssumption, HandsIInv, Quiet, NEW r, r = web', Calm(web, r), web.now = 0 => r.now = 0,
         UNCHANGED <<desk, line, ops, screen, held>>
  PROVE  HandsFit(desk', web', line', ops', screen' = "up", held')
<1>1. BotIsAlone(desk, r) BY HandsParts DEF BotIsAlone
<1>2. HandsFit(desk, r, line, ops, screen = "up", held) BY <1>1, HandsParts, QuietOwed, WebHands
<1> QED BY <1>2

\* A viewer that leaves is revoked.
LEMMA CloseSessionHands ==
  ASSUME ControlAssumption, HandsIInv, NEW s \in Sessions, CloseSession(s)
  PROVE  HandsFit(desk', web', line', ops', screen' = "up", held')
BY HandsParts, NewestIsOpen, RevokedForIsCalm, RevokingHands DEF CloseSession

\* A viewer that gives up the control is revoked.
LEMMA ReleaseControlHands ==
  ASSUME ControlAssumption, HandsIInv, NEW k \in Claims, ReleaseControl(k)
  PROVE  HandsFit(desk', web', line', ops', screen' = "up", held')
<1>1. k \in 0..web.last BY HandsParts, PartsTyped DEF ReleaseControl, Newest
<1>2. Calm(web, Revoked(web, k)) /\ (web.now = 0 => Revoked(web, k).now = 0)
  BY <1>1, HandsParts, NewestIsOpen, RevokedIsCalm
<1> QED BY <1>2, RevokingHands DEF ReleaseControl

\* An input is queued at its controller, or revokes it.
LEMMA InputHands ==
  ASSUME ControlAssumption, HandsIInv, NEW k \in Claims, Input(k)
  PROVE  HandsFit(desk', web', line', ops', screen' = "up", held')
<1>1. k \in 0..web.last BY HandsParts, PartsTyped DEF Input, Newest
<1>2. Calm(web, Revoked(web, k)) /\ (web.now = 0 => Revoked(web, k).now = 0)
  BY <1>1, HandsParts, NewestIsOpen, RevokedIsCalm
<1> DEFINE n == web.ctl[k].inputs + 1
           v == [web EXCEPT !.ctl[k].inputs = n]
<1> HIDE DEF n
<1>3. /\ v.now = web.now /\ v.barrier = web.barrier /\ \A j \in Claims : j # k => v.ctl[j] = web.ctl[j]
      /\ v.ctl[k] = [web.ctl[k] EXCEPT !.inputs = n] /\ web.ctl[k] \in CtlRec /\ AnnouncedFit(web)
      /\ web \in WebRec
  BY HandsParts DEF WebRec
<1> HIDE DEF v
<1>4. /\ v.ctl[k].revoked = web.ctl[k].revoked /\ v.ctl[k].prior = web.ctl[k].prior
      /\ v.ctl[k].active = web.ctl[k].active /\ v.ctl[k].announced = web.ctl[k].announced
      /\ v.ctl[k].release = web.ctl[k].release /\ v.ctl[k].claim = web.ctl[k].claim
      /\ v.ctl[k].provisioned = web.ctl[k].provisioned
  BY <1>3 DEF CtlRec
<1>5. Calm(web, v)
  <2>1. web.ctl[k].announced =>
          /\ v.ctl[k].provisioned /\ v.ctl[k].claim \in {"settled", "back"}
          /\ v.ctl[k].release = web.ctl[k].release
    BY <1>3, <1>4 DEF AnnouncedFit
  <2>2. v.barrier \in {0, web.barrier} BY <1>3
  <2>3. v.ctl[k].release = "queued" <=> web.ctl[k].release = "queued" BY <1>4
  <2>4. \A j \in Claims : j # k => v.ctl[j] = web.ctl[j] BY <1>3
  <2> QED BY <1>3, <1>4, <2>1, <2>2, <2>3, <2>4, OneIsCalm
<1>6. CASE CanAccept(desk)
  <2>1. web' = v BY <1>6 DEF Input, v, n
  <2> QED BY <1>3, <1>5, <2>1, RevokingHands DEF Input
<1>7. CASE ~CanAccept(desk) BY <1>2, <1>7, RevokingHands DEF Input
<1> QED BY <1>6, <1>7

\* imDone revokes the human, whose call stays activated.
LEMMA ImDoneHands ==
  ASSUME ControlAssumption, HandsIInv, NEW c \in Calls, ImDone(c)
  PROVE  HandsFit(desk', web', line', ops', screen' = "up", held')
<1> DEFINE u == desk.call[c]
           r == Revoked(web, web.now)
           d2 == [desk EXCEPT !.call[c].phase = "completing", !.call[c].back = "revoking",
                              !.call[c].backGate = web.now]
<1>1. /\ desk \in DeskRec /\ u \in CallRec /\ Quiet /\ u.phase = "held" /\ desk' = d2 /\ web' = r
      /\ UNCHANGED <<line, ops, screen, held>>
  BY HandsParts DEF ImDone
<1>2. /\ Stands(desk, d2) /\ \A j \in Calls : j # c => d2.call[j] = desk.call[j]
      /\ d2.call[c].activated = u.activated
  BY <1>1 DEF DeskRec, CallRec, Stands
<1> HIDE DEF d2
<1>3. web.now \in 0..web.last BY HandsParts, PartsTyped
<1>4. Calm(web, r) /\ r.now = 0 BY <1>3, HandsParts, NewestIsOpen, RevokedIsCalm
<1> HIDE DEF r
<1>5. HumansActivated(d2) BY <1>1, HandsParts, <1>2 DEF HumansActivated, Human
<1>6. BotIsAlone(d2, r) BY <1>4 DEF BotIsAlone
<1>7. LineInOrder(d2, line) /\ OwedIsAwaited(d2, r, line)
  BY <1>1, <1>4, QuietOwed, <1>2, HandsParts, StandsInOrder
<1>8. HandsFit(d2, r, line, ops, screen = "up", held) BY <1>4, <1>5, <1>6, <1>7, WebHands
<1> QED BY <1>1, <1>8

\* #cancelPending leaves the calls in order, and the Bot alone if it was.
LEMMA CancelledHands ==
  ASSUME ControlAssumption, NEW d \in DeskRec, NEW c \in Calls, NEW k, NEW l \in Seq(Calls), HumansActivated(d)
  PROVE  LET e == Cancelled(d, c, k) IN
         /\ HumansActivated(e) /\ e.pending = d.pending
         /\ \A j \in Calls : j # c => e.call[j] = d.call[j]
         /\ e.call[c].at = d.call[c].at /\ e.call[c].gate = d.call[c].gate
         /\ Cancellable(d, c) /\ d.call[c].phase \in Human =>
              /\ e.call[c].cancelled /\ e.call[c].stop = "revoking" /\ e.call[c].stopGate = k
              /\ e.call[c].completion = d.call[c].completion
         /\ LineInOrder(d, l) => LineInOrder(e, l)
         /\ \A r : BotIsAlone(d, r) => BotIsAlone(e, r)
<1> DEFINE e == Cancelled(d, c, k)
           u == d.call[c]
           q == [u EXCEPT !.cancelled = TRUE, !.phase = "settled"]
           t == IF u.phase \in Human THEN [q EXCEPT !.stop = "revoking", !.stopGate = k] ELSE Rejected(q)
<1>1. CASE ~Cancellable(d, c) BY <1>1 DEF Cancelled
<1>2. CASE Cancellable(d, c)
  <2>1. u \in CallRec /\ e = [d EXCEPT !.authority = "idle", !.call = [d.call EXCEPT ![c] = t]]
    BY <1>2 DEF Cancelled, DeskRec
  <2>2. q \in CallRec /\ q.at = u.at /\ q.gate = u.gate /\ q.back = u.back /\ q.cancelled = TRUE
        /\ q.phase = "settled" /\ q.activated = u.activated /\ q.completion = u.completion
    <3>1. [u EXCEPT !.cancelled = TRUE] \in CallRec BY <2>1 DEF CallRec
    <3>2. q \in CallRec BY ZenonT(60), <3>1 DEF CallRec, Phases
    <3> QED BY <2>1, <3>2 DEF CallRec
  <2> HIDE DEF q
  <2>3. /\ t.at = u.at /\ t.gate = u.gate /\ t.back = u.back /\ t.phase = "settled"
        /\ t.activated = u.activated \/ t.activated # "open"
        /\ u.phase \in Human => /\ t.cancelled = TRUE /\ t.stop = "revoking" /\ t.stopGate = k
                                /\ t.completion = u.completion
    <3>1. CASE u.phase \in Human BY <2>2, <3>1 DEF CallRec
    <3>2. CASE u.phase \notin Human
      <4>1. t = Rejected(q) BY <3>2
      <4>2. Rejected(q).gate = q.gate BY <2>2 DEF Rejected, CallRec
      <4> QED BY <2>2, <3>2, <4>1, <4>2, RejectedIs
    <3> QED BY <3>1, <3>2
  <2> HIDE DEF t, e
  <2>4. e.pending = d.pending /\ e.call[c] = t /\ \A j \in Calls : j # c => e.call[j] = d.call[j]
    BY <2>1 DEF DeskRec
  <2>5. HumansActivated(e) BY <2>3, <2>4 DEF Human, HumansActivated
  <2>6. \A j \in Calls : e.call[j].at = d.call[j].at BY <2>3, <2>4
  <2>7. LineInOrder(d, l) => LineInOrder(e, l) BY <2>4, <2>6, LineStays
  <2>8. \A r : BotIsAlone(d, r) => BotIsAlone(e, r)
    BY <2>3, <2>4 DEF DeskRec, Calls, ControlAssumption, BotIsAlone
  <2> QED BY <2>3, <2>4, <2>5, <2>7, <2>8 DEF e
<1> QED BY <1>1, <1>2

\* An abort of a call that a human holds revokes the human first.
LEMMA AbortHands ==
  ASSUME ControlAssumption, HandsIInv, NEW c \in Calls, Abort(c)
  PROVE  HandsFit(desk', web', line', ops', screen' = "up", held')
<1> DEFINE u == desk.call[c]
           d == [desk EXCEPT !.call[c].aborted = TRUE]
           cancels == u.at # "queued"
           revokes == cancels /\ Cancellable(desk, c) /\ u.phase \in Human
           e == Cancelled(d, c, web.now)
           r == Revoked(web, web.now)
<1>1. /\ desk \in DeskRec /\ u \in CallRec /\ Quiet /\ UNCHANGED <<line, ops, screen, held>>
      /\ desk' = (IF cancels THEN e ELSE d) /\ web' = (IF revokes THEN r ELSE web)
      /\ u.at \notin {"none", "ended"} /\ line \in Seq(Calls)
  BY HandsParts DEF Abort
<1>2. /\ d \in DeskRec /\ Stands(desk, d)
      /\ \A j \in Calls : /\ d.call[j].phase = desk.call[j].phase /\ d.call[j].back = desk.call[j].back
                          /\ d.call[j].activated = desk.call[j].activated
  <2> DEFINE t == [u EXCEPT !.aborted = TRUE]
  <2>1. t \in CallRec BY <1>1 DEF CallRec
  <2>2. d = [desk EXCEPT !.call = [desk.call EXCEPT ![c] = t]] OBVIOUS
  <2>3. /\ t.at = u.at /\ t.gate = u.gate /\ t.completion = u.completion /\ t.cancelled = u.cancelled
        /\ t.stop = u.stop /\ t.stopGate = u.stopGate /\ t.phase = u.phase /\ t.back = u.back
        /\ t.activated = u.activated
    BY <1>1 DEF CallRec
  <2> HIDE DEF t, d
  <2>4. d \in DeskRec /\ d.pending = desk.pending /\ d.call[c] = t
        /\ \A j \in Calls : j # c => d.call[j] = desk.call[j]
    BY <1>1, <2>1, <2>2 DEF DeskRec
  <2> QED BY <2>3, <2>4 DEF Stands
<1> HIDE DEF d
<1>3. HumansActivated(d) BY <1>2, HandsParts DEF HumansActivated
<1>4. LineInOrder(d, line) /\ BotIsAlone(d, web) BY <1>2, HandsParts, StandsInOrder
<1>5. \A k \in Claims : ~Owing(web, k) BY <1>1, HandsParts, NothingIsOwed
<1>6. /\ HumansActivated(e) /\ e.pending = d.pending /\ LineInOrder(e, line)
      /\ e.call[c].at = d.call[c].at /\ e.call[c].gate = d.call[c].gate
      /\ Cancellable(d, c) /\ d.call[c].phase \in Human =>
           /\ e.call[c].cancelled /\ e.call[c].stop = "revoking" /\ e.call[c].stopGate = web.now
           /\ e.call[c].completion = d.call[c].completion
      /\ BotIsAlone(e, web)
  <2>1. d \in DeskRec /\ HumansActivated(d) /\ line \in Seq(Calls) BY <1>1, <1>2, <1>3
  <2> HIDE DEF u
  <2>2. /\ HumansActivated(e) /\ e.pending = d.pending
        /\ LineInOrder(d, line) => LineInOrder(e, line)
        /\ e.call[c].at = d.call[c].at /\ e.call[c].gate = d.call[c].gate
        /\ Cancellable(d, c) /\ d.call[c].phase \in Human =>
             /\ e.call[c].cancelled /\ e.call[c].stop = "revoking" /\ e.call[c].stopGate = web.now
             /\ e.call[c].completion = d.call[c].completion
        /\ \A x : BotIsAlone(d, x) => BotIsAlone(e, x)
    BY <2>1, CancelledHands, SMTT(40)
  <2> QED BY <1>4, <2>2
<1>7. Cancellable(desk, c) => Cancellable(d, c) BY <1>2 DEF Stands, Cancellable
<1>8. web.now \in 0..web.last BY HandsParts, PartsTyped
<1>9. Calm(web, r) /\ r.now = 0 BY <1>8, HandsParts, NewestIsOpen, RevokedIsCalm
<1> HIDE DEF e, r
<1>10. CASE ~revokes
  <2> DEFINE d2 == IF cancels THEN e ELSE d
  <2>1. LineInOrder(d2, line) /\ HumansActivated(d2) /\ BotIsAlone(d2, web) BY <1>3, <1>4, <1>6
  <2>2. OwedIsAwaited(d2, web, line) BY <1>5 DEF OwedIsAwaited
  <2> HIDE DEF d2
  <2>3. HandsFit(d2, web, line, ops, screen = "up", held) BY <2>1, <2>2, DeskHands
  <2> HIDE DEF revokes
  <2>4. desk' = d2 /\ web' = web BY <1>1, <1>10 DEF d2
  <2> QED BY <1>1, <2>3, <2>4
<1>11. CASE revokes
  <2>1. desk' = e /\ web' = r BY <1>1, <1>11
  <2>2. desk.pending = c /\ c # 0 BY <1>1, <1>11, HandsParts, CallFacts DEF Working, CallRec
  <2>3. e.pending = c /\ d.call[c].phase \in Human /\ Cancellable(d, c)
    BY <1>2, <1>6, <1>7, <1>11, <2>2 DEF Stands
  <2>4. BotIsAlone(e, r) BY <1>9 DEF BotIsAlone
  <2>5. OwedIsAwaited(e, r, line)
    <3> SUFFICES ASSUME NEW k \in Claims, Owing(r, k) PROVE OwedTo(e, line, k) BY DEF OwedIsAwaited
    <3>1. web.ctl[k].active BY <1>5, <1>9 DEF Calm
    <3>2. k = web.now /\ u.at = "completing" /\ u.completion = "open"
      BY <1>1, <2>2, <3>1, HandsParts, ActiveMayBeOwed
    <3>3. d.call[c].at = "completing" /\ d.call[c].completion = "open" BY <1>2, <3>2 DEF Stands
    <3> QED BY <1>6, <2>2, <2>3, <3>2, <3>3 DEF OwedTo
  <2>6. HandsFit(e, r, line, ops, screen = "up", held) BY <1>6, <1>9, <2>4, <2>5, WebHands
  <2> QED BY <1>1, <2>1, <2>6
<1> QED BY <1>10, <1>11

-----------------------------------------------------------------------------
(* The human is done.                                                         *)

\* The catch of imDone: its call stands, and nobody is active before a claim is made for it.
LEMMA BackFailsHands ==
  ASSUME ControlAssumption, HandsIInv, NEW c \in Calls, desk.call[c].back \in GivingBack,
         BackFails(c, desk), NEW d2, NEW r, d2 = desk', r = web'
  PROVE  /\ Calm(web, r) /\ LineInOrder(d2, line) /\ HumansActivated(d2) /\ BotIsAlone(d2, r)
         /\ screen = "up" => OwedIsAwaited(d2, r, line)
<1> DEFINE u == desk.call[c]
<1>1. /\ desk \in DeskRec /\ u \in CallRec /\ CallFits(desk, web, c) /\ Fits(desk, web, line, ops)
      /\ web \in WebRec /\ Newest(web) /\ InOrder(web) /\ AnnouncedFit(web)
  BY HandsParts, CallFacts
<1>2. u.activated # "open" BY HandsParts DEF HumansActivated, GivingBack
<1>3. /\ Stands(desk, d2) /\ d2.call[c].activated = u.activated
      /\ \A j \in Calls : j # c => d2.call[j] = desk.call[j]
  <2>1. \/ d2 = [desk EXCEPT !.call[c].back = "no"]
        \/ d2 = [desk EXCEPT !.call[c].phase = "waiting", !.call[c].back = "no", !.authority = "idle"]
        \/ d2 = [[desk EXCEPT !.call[c].phase = "completing"] EXCEPT !.call[c].back = "restoring",
                                                                   !.call[c].backGate = web.last + 1]
    BY DEF BackFails
  <2>2. CASE d2 = [desk EXCEPT !.call[c].back = "no"] BY <1>1, <2>2 DEF DeskRec, CallRec, Stands
  <2>3. CASE d2 = [desk EXCEPT !.call[c].phase = "waiting", !.call[c].back = "no", !.authority = "idle"]
    BY <1>1, <2>3 DEF DeskRec, CallRec, Stands
  <2>4. CASE d2 = [[desk EXCEPT !.call[c].phase = "completing"] EXCEPT !.call[c].back = "restoring",
                                                                     !.call[c].backGate = web.last + 1]
    <3> DEFINE p == [desk EXCEPT !.call = [desk.call EXCEPT ![c] = [u EXCEPT !.phase = "completing"]]]
               n == web.last + 1
    <3> HIDE DEF n
    <3>1. [u EXCEPT !.phase = "completing"] \in CallRec BY <1>1 DEF CallRec, Phases
    <3>2. /\ p \in DeskRec /\ Stands(desk, p) /\ p.call[c].activated = u.activated
          /\ \A j \in Calls : j # c => p.call[j] = desk.call[j]
      <4>1. p \in DeskRec /\ p.pending = desk.pending /\ p.call[c] = [u EXCEPT !.phase = "completing"]
            /\ \A j \in Calls : j # c => p.call[j] = desk.call[j]
        BY <1>1, <3>1 DEF DeskRec
      <4> HIDE DEF p
      <4> QED BY <1>1, <4>1 DEF CallRec, Stands
    <3>3. d2 = [p EXCEPT !.call[c].back = "restoring", !.call[c].backGate = n] BY <2>4 DEF n
    <3> HIDE DEF p
    <3>4. /\ Stands(p, d2) /\ d2.call[c].activated = p.call[c].activated
          /\ \A j \in Calls : j # c => d2.call[j] = p.call[j]
      BY <3>2, <3>3 DEF DeskRec, CallRec, Stands
    <3> QED BY <3>2, <3>4 DEF Stands
  <2> QED BY <2>1, <2>2, <2>3, <2>4
<1>4. HumansActivated(d2) BY <1>2, <1>3, HandsParts DEF HumansActivated
<1>5. LineInOrder(d2, line) BY <1>3, HandsParts, StandsInOrder
<1>6. CASE r = web
  <2>1. Calm(web, web) BY <1>1 DEF Calm
  <2> QED BY <1>3, <1>4, <1>5, <1>6, <2>1, HandsParts, StandsInOrder
<1>7. CASE ~u.cancelled /\ \E s \in Sessions : r = Claimed(web, s, TRUE)
  <2>1. PICK s \in Sessions : r = Claimed(web, s, TRUE) BY <1>7
  <2>2. desk.pending = c /\ web.now = 0 /\ web.last < MaxClaims /\ c # 0
    BY <1>1, <1>7, CallFacts DEF CallFits, GivingBack
  <2>3. Calm(web, r) BY <1>1, <2>1, <2>2, ClaimedIsCalm
  <2>4. BotIsAlone(d2, r) BY <1>1, <1>3, <2>2 DEF CallFits, GivingBack, BotIsAlone, Stands
  <2>5. ASSUME screen = "up" PROVE OwedIsAwaited(d2, r, line)
    <3>1. \A k \in Claims : Owing(r, k) => Owing(web, k)
      <4>1. \A k \in Claims : web.ctl[k].active => k = web.now BY HandsParts, PartsTyped DEF Newest
      <4> QED BY <2>2, <2>3, <4>1 DEF Calm, Claims
    <3>2. OwedIsAwaited(desk, r, line) BY <2>5, <3>1, HandsParts DEF OwedIsAwaited
    <3> QED BY <1>3, <3>2, HandsParts, StandsInOrder
  <2> QED BY <1>4, <1>5, <2>3, <2>4, <2>5
<1>8. r = web \/ (~u.cancelled /\ \E s \in Sessions : r = Claimed(web, s, TRUE))
  BY ZenonT(60) DEF BackFails
<1> QED BY <1>6, <1>7, <1>8

\* imDone goes on.
LEMMA BackGoesOnHands ==
  ASSUME ControlAssumption, HandsIInv, NEW c \in Calls, desk.call[c].back \in GivingBack,
         NEW b \in GivingBack, NEW d2, d2 = [desk EXCEPT !.call[c].back = b]
  PROVE  /\ LineInOrder(d2, line) /\ HumansActivated(d2) /\ BotIsAlone(d2, web)
         /\ screen = "up" => OwedIsAwaited(d2, web, line)
<1>1. desk.call[c].activated # "open" BY HandsParts DEF HumansActivated, GivingBack
<1>2. /\ Stands(desk, d2) /\ d2.call[c].activated = desk.call[c].activated
      /\ \A j \in Calls : j # c => d2.call[j] = desk.call[j]
  BY HandsParts DEF DeskRec, CallRec, Stands
<1>3. HumansActivated(d2) BY <1>1, <1>2, HandsParts DEF HumansActivated
<1> QED BY <1>2, <1>3, HandsParts, StandsInOrder

\* imDone observes the Screen once the human was released, or gives it back.
LEMMA BackRevokedHands ==
  ASSUME ControlAssumption, HandsIInv, NEW c \in Calls, BackRevoked(c)
  PROVE  HandsFit(desk', web', line', ops', screen' = "up", held')
<1>1. desk.call[c].back \in GivingBack /\ UNCHANGED <<line, screen, held>>
  BY DEF BackRevoked, BackRevokedReady, GivingBack
<1>2. PICK d2 : d2 = desk' OBVIOUS
<1>3. PICK r : r = web' OBVIOUS
<1>4. CASE BackFails(c, desk) /\ UNCHANGED ops
  <2>1. HandsFit(d2, r, line, ops, screen = "up", held)
    BY <1>1, <1>2, <1>3, <1>4, BackFailsHands, WebHands
  <2> QED BY <1>1, <1>2, <1>3, <1>4, <2>1
<1>5. CASE /\ desk' = [desk EXCEPT !.call[c].back = "observing"] /\ UNCHANGED web
           /\ ops' = Append(ops, [op |-> "observe", by |-> c])
  <2> DEFINE x == [op |-> "observe", by |-> c]
  <2>1. x \in OpRec /\ x.op = "observe" BY DEF Calls, OpRec
  <2>2. ops' = Append(ops, x) BY <1>5
  <2> HIDE DEF x
  <2>3. Calm(web, web) BY HandsParts DEF Calm
  <2>4. /\ LineInOrder(d2, line) /\ HumansActivated(d2) /\ BotIsAlone(d2, web)
        /\ screen = "up" => OwedIsAwaited(d2, web, line)
    BY <1>1, <1>2, <1>5, BackGoesOnHands DEF GivingBack
  <2>5. HandsFit(d2, web, line, Append(ops, x), screen = "up", held)
    BY <2>1, <2>3, <2>4, HandsParts, QueueHands DEF HandsFit
  <2> QED BY <1>1, <1>2, <1>5, <2>2, <2>5
<1> QED BY <1>4, <1>5 DEF BackRevoked

\* imDone gave the Screen back to a human, or to nobody.
LEMMA RestoredHands ==
  ASSUME ControlAssumption, HandsIInv, NEW c \in Calls, Restored(c)
  PROVE  HandsFit(desk', web', line', ops', screen' = "up", held')
<1> DEFINE u == desk.call[c]
           k == u.backGate
           d == [desk EXCEPT !.call[c].back = "no"]
           e == [d EXCEPT !.call[c].phase = "held", !.authority = "takeover"]
           f == [d EXCEPT !.call[c].phase = "waiting", !.authority = "idle"]
<1>1. /\ desk' = (IF web.ctl[k].active THEN e ELSE f) /\ UNCHANGED <<web, line, ops, screen, held>>
      /\ u.back = "restoring"
  BY DEF Restored, RestoredReady
<1>2. u.activated # "open" BY <1>1, HandsParts DEF HumansActivated
<1>3. /\ d \in DeskRec /\ Stands(desk, d) /\ d.call[c].activated = u.activated
      /\ \A j \in Calls : j # c => d.call[j] = desk.call[j]
  <2> DEFINE t == [u EXCEPT !.back = "no"]
  <2>1. u \in CallRec BY HandsParts
  <2>2. t \in CallRec BY <2>1 DEF CallRec
  <2>3. d = [desk EXCEPT !.call = [desk.call EXCEPT ![c] = t]] OBVIOUS
  <2>4. /\ t.at = u.at /\ t.gate = u.gate /\ t.completion = u.completion /\ t.cancelled = u.cancelled
        /\ t.stop = u.stop /\ t.stopGate = u.stopGate /\ t.activated = u.activated
    BY <2>1 DEF CallRec
  <2> HIDE DEF t, d
  <2>5. d \in DeskRec /\ d.pending = desk.pending /\ d.call[c] = t
        /\ \A j \in Calls : j # c => d.call[j] = desk.call[j]
    BY <2>2, <2>3, HandsParts DEF DeskRec
  <2> QED BY <2>4, <2>5 DEF Stands
<1> HIDE DEF d
<1>4. /\ Stands(d, e) /\ e.call[c].activated = d.call[c].activated
      /\ \A j \in Calls : j # c => e.call[j] = d.call[j]
  BY <1>3 DEF DeskRec, CallRec, Stands
<1>5. /\ Stands(d, f) /\ f.call[c].activated = d.call[c].activated
      /\ \A j \in Calls : j # c => f.call[j] = d.call[j]
  BY <1>3 DEF DeskRec, CallRec, Stands
<1> HIDE DEF e, f
<1>6. PICK d2 : d2 = desk' OBVIOUS
<1>7. /\ Stands(desk, d2) /\ d2.call[c].activated = u.activated
      /\ \A j \in Calls : j # c => d2.call[j] = desk.call[j]
  BY <1>1, <1>3, <1>4, <1>5, <1>6 DEF Stands
<1>8. HumansActivated(d2) BY <1>2, <1>7, HandsParts DEF HumansActivated
<1>9. HandsFit(d2, web, line, ops, screen = "up", held) BY <1>7, <1>8, HandsParts, StandsInOrder, DeskHands
<1> QED BY <1>1, <1>6, <1>9

\* The image of a result is written.
LEMMA RecordedHands ==
  ASSUME ControlAssumption, HandsIInv, NEW c \in Calls, Recorded(c)
  PROVE  HandsFit(desk', web', line', ops', screen' = "up", held')
<1> DEFINE u == desk.call[c]
<1>1. /\ desk \in DeskRec /\ u \in CallRec /\ Fits(desk, web, line, ops) /\ Quiet
      /\ UNCHANGED <<ops, screen, held>>
  BY HandsParts DEF Recorded
<1>2. \A k \in Claims : ~Owing(web, k) BY <1>1, HandsParts, NothingIsOwed
<1>3. PICK d2 : d2 = desk' OBVIOUS
<1>4. CASE u.at = "recording" /\ desk' = Ended(desk, c) /\ line' = Tail(line) /\ UNCHANGED web
  <2>1. desk.pending = c /\ c # 0 /\ line # <<>> /\ Head(line) = c
    BY <1>1, <1>4, CallFacts DEF Working
  <2>2. /\ d2.pending = 0 /\ \A j \in Calls : j # c => d2.call[j] = desk.call[j]
        /\ d2.call[c].phase = u.phase /\ d2.call[c].back = u.back /\ d2.call[c].activated = u.activated
    BY <1>1, <1>3, <1>4, <2>1 DEF Ended, DeskRec, CallRec
  <2>3. LineInOrder(d2, Tail(line)) /\ HumansActivated(d2) /\ BotIsAlone(d2, web)
    BY <1>1, <2>1, <2>2, HandsParts, GoneFromLine
  <2>4. HandsFit(d2, web, Tail(line), ops, screen = "up", held)
    BY <1>2, <2>3, DeskHands DEF OwedIsAwaited
  <2> QED BY <1>1, <1>3, <1>4, <2>4
<1>5. CASE u.back = "recording" /\ BackFails(c, desk) /\ UNCHANGED line
  <2>1. PICK r : r = web' OBVIOUS
  <2>2. u.back \in GivingBack BY <1>5 DEF GivingBack
  <2>3. HandsFit(d2, r, line, ops, screen = "up", held)
    BY <1>3, <1>5, <2>1, <2>2, BackFailsHands, WebHands
  <2> QED BY <1>1, <1>3, <1>5, <2>1, <2>3
<1>6. CASE /\ u.back = "recording" /\ UNCHANGED <<web, line>>
           /\ desk' = [desk EXCEPT !.authority = "idle",
                                   !.call[c].phase = "settled", !.call[c].back = "no",
                                   !.call[c].completion = IF @ = "open" THEN "yes" ELSE @]
  <2>1. /\ d2.pending = desk.pending /\ \A j \in Calls : j # c => d2.call[j] = desk.call[j]
        /\ d2.call[c].at = u.at /\ d2.call[c].activated = u.activated
    BY <1>1, <1>3, <1>6 DEF DeskRec, CallRec
  <2>2. u.activated # "open" BY <1>6, HandsParts DEF HumansActivated
  <2>3. HumansActivated(d2) BY <2>1, <2>2, HandsParts DEF HumansActivated
  <2>4. LineInOrder(d2, line) BY <2>1, HandsParts, LineStays
  <2>5. BotIsAlone(d2, web) BY <2>1, HandsParts DEF BotIsAlone
  <2>6. HandsFit(d2, web, line, ops, screen = "up", held)
    BY <1>2, <2>3, <2>4, <2>5, DeskHands DEF OwedIsAwaited
  <2> QED BY <1>1, <1>3, <1>6, <2>6
<1> QED BY <1>1, <1>4, <1>5, <1>6 DEF Recorded

-----------------------------------------------------------------------------
(* The ends of what ran on the Screen.                                        *)

\* What ran, no release, leaves the queue.
LEMMA HeadGoes ==
  ASSUME ControlAssumption, HandsIInv, ops # <<>>, Head(ops).op # "release", NEW r, Calm(web, r)
  PROVE  /\ QueueFits(Tail(ops), r) /\ HeldFits(held, r)
         /\ screen = "up" => ActsFollow(Tail(ops), r)
<1>1. /\ QueueFits(ops, r) /\ HeldFits(held, r) /\ (screen = "up" => ActsFollow(ops, r))
  BY HandsParts, CalmLeaves
<1>2. \A i \in DOMAIN ops : ops[i].op = "input" => ops[i].by \in Claims BY HandsParts, QueueIsOf
<1>3. \A k \in Claims : Head(ops) # ReleaseOf(k) BY DEF ReleaseOf
<1> QED BY <1>1, <1>2, <1>3, HandsParts, LeavesQueue

\* The Screen is lost: whoever was in control is revoked, and the pending call is cancelled.
LEMMA LostHands ==
  ASSUME ControlAssumption, HandsIInv, NEW w \in WebRec, Calm(web, w), NowIsOpen(w), Lost(desk, w),
         line' = line, \/ ops' = ops
                       \/ ops # <<>> /\ Head(ops).op # "release" /\ ops' = Tail(ops)
  PROVE  HandsFit(desk', web', line', ops', screen' = "up", held')
<1> DEFINE v == Revoked(w, w.now)
           d == IF desk.pending = 0 THEN desk ELSE Cancelled(desk, desk.pending, w.now)
<1>1. desk' = d /\ web' = v /\ screen' = "down" /\ held' = [epoch |-> 0, keys |-> FALSE]
  BY DEF Lost
<1>2. Calm(w, v) /\ v.now = 0 BY RevokedIsCalm DEF NowIsOpen, Calm
<1> HIDE DEF v
<1>3. Calm(web, v) BY <1>2, CalmGoesOn
<1>4. LineInOrder(d, line) /\ HumansActivated(d)
  <2>1. CASE desk.pending = 0 BY <2>1, HandsParts
  <2>2. CASE desk.pending # 0 BY <2>2, HandsParts, CancelledHands
  <2> QED BY <2>1, <2>2
<1> HIDE DEF d
<1>5. BotIsAlone(d, v) BY <1>2 DEF BotIsAlone
<1>6. QueueFits(ops', v) BY <1>3, HandsParts, CalmLeaves, HeadGoes
<1>7. HeldFits(held', v) BY <1>1 DEF HeldFits
<1>8. PICK o : o = ops' OBVIOUS
<1>9. PICK h : h = held' OBVIOUS
<1>10. HandsFit(d, v, line, o, screen' = "up", h)
  BY <1>1, <1>3, <1>4, <1>5, <1>6, <1>7, <1>8, <1>9 DEF HandsFit, Calm
<1> QED BY <1>1, <1>8, <1>9, <1>10

\* A Screen is lost.
LEMMA ScreenLostHands ==
  ASSUME ControlAssumption, HandsIInv, ScreenLost
  PROVE  HandsFit(desk', web', line', ops', screen' = "up", held')
<1>1. Calm(web, web) BY HandsParts DEF Calm
<1> QED BY <1>1, HandsParts, NewestIsOpen, LostHands DEF ScreenLost

\* The observation of imDone is over.
LEMMA ObserveEndsHands ==
  ASSUME ControlAssumption, HandsIInv, NEW c \in Calls, ops # <<>>, ObserveEnds(c)
  PROVE  HandsFit(desk', web', line', ops', screen' = "up", held')
<1>1. /\ Head(ops) = [op |-> "observe", by |-> c] /\ ops' = Tail(ops) /\ UNCHANGED <<line, screen, held>>
  BY DEF ObserveEnds, Runs, OperationOver
<1>2. desk.call[c].back = "observing"
  <2>1. OpIsAwaited(Head(ops), desk, web) BY HandsParts, HeadIsAwaited
  <2>2. Head(ops).op = "observe" /\ Head(ops).by = c BY <1>1
  <2> QED BY <2>1, <2>2 DEF OpIsAwaited
<1>3. desk.call[c].back \in GivingBack /\ "recording" \in GivingBack BY <1>2 DEF GivingBack
<1>4. PICK d2 : d2 = desk' OBVIOUS
<1>5. PICK r : r = web' OBVIOUS
<1>6. /\ Calm(web, r) /\ LineInOrder(d2, line) /\ HumansActivated(d2) /\ BotIsAlone(d2, r)
      /\ screen = "up" => OwedIsAwaited(d2, r, line)
  <2>1. CASE BackFails(c, desk) BY <1>3, <1>4, <1>5, <2>1, BackFailsHands
  <2>2. CASE desk' = [desk EXCEPT !.call[c].back = "recording"] /\ web' = web
    <3>1. Calm(web, r) BY <1>5, <2>2, HandsParts DEF Calm
    <3> QED BY <1>3, <1>4, <1>5, <2>2, <3>1, BackGoesOnHands
  <2> QED BY <2>1, <2>2 DEF ObserveEnds
<1>7. Head(ops).op # "release" BY <1>1
<1>8. HandsFit(d2, r, line, Tail(ops), screen = "up", held) BY <1>6, <1>7, HeadGoes DEF HandsFit, Calm
<1> QED BY <1>1, <1>4, <1>5, <1>8

\* An action of the Bot is over, and lets nothing but the hands of the Bot go.
LEMMA ActEndsHands ==
  ASSUME ControlAssumption, HandsIInv, NEW c \in Calls, ops # <<>>, ActEnds(c)
  PROVE  HandsFit(desk', web', line', ops', screen' = "up", held')
<1> DEFINE u == desk.call[c]
<1>1. /\ Head(ops) = [op |-> "act", by |-> c] /\ ops' = Tail(ops) /\ UNCHANGED <<web, screen>> /\ Quiet
      /\ held' = held \/ held' = [epoch |-> 0, keys |-> FALSE]
  BY DEF ActEnds, Runs, OperationOver
<1>2. u.at = "acting"
  <2>1. OpIsAwaited(Head(ops), desk, web) BY HandsParts, HeadIsAwaited
  <2>2. Head(ops).op = "act" /\ Head(ops).by = c BY <1>1
  <2> QED BY <2>1, <2>2 DEF OpIsAwaited
<1>3. /\ desk \in DeskRec /\ u \in CallRec /\ Fits(desk, web, line, ops)
      /\ desk.pending = c /\ c # 0 /\ line # <<>> /\ Head(line) = c
  BY <1>2, HandsParts, CallFacts DEF Working
<1>4. \A k \in Claims : ~Owing(web, k) BY <1>1, HandsParts, NothingIsOwed
<1>5. Calm(web, web) BY HandsParts DEF Calm
<1>6. Head(ops).op # "release" BY <1>1
<1>7. PICK h : h = held' OBVIOUS
<1>8. /\ QueueFits(Tail(ops), web) /\ HeldFits(h, web) /\ (screen = "up" => ActsFollow(Tail(ops), web))
  BY <1>1, <1>7, <1>5, <1>6, HeadGoes DEF HeldFits
<1>9. PICK d2 : d2 = desk' OBVIOUS
<1>10. ASSUME NEW l2, LineInOrder(d2, l2), HumansActivated(d2), BotIsAlone(d2, web)
       PROVE  HandsFit(d2, web, l2, Tail(ops), screen = "up", h)
  BY <1>4, <1>8, <1>10, HandsParts DEF HandsFit, OwedIsAwaited
<1>11. ASSUME NEW e \in DeskRec, e.pending = c, \A j \in Calls : j # c => e.call[j] = desk.call[j],
              e.call[c].phase = u.phase, e.call[c].back = u.back, e.call[c].activated = u.activated,
              d2 = Ended(e, c), line' = Tail(line)
       PROVE  HandsFit(d2, web, Tail(line), Tail(ops), screen = "up", h)
  <2>1. /\ d2.pending = 0 /\ \A j \in Calls : j # c => d2.call[j] = desk.call[j]
        /\ d2.call[c].phase = u.phase /\ d2.call[c].back = u.back /\ d2.call[c].activated = u.activated
    BY <1>11 DEF Ended, DeskRec, CallRec
  <2>2. LineInOrder(d2, Tail(line)) /\ HumansActivated(d2) /\ BotIsAlone(d2, web)
    BY <1>3, <2>1, HandsParts, GoneFromLine
  <2> QED BY <1>10, <2>2
<1>12. CASE desk' = Ended([desk EXCEPT !.call[c].failed = TRUE], c) /\ line' = Tail(line)
  <2> DEFINE v == [u EXCEPT !.failed = TRUE]
             e == [desk EXCEPT !.call[c].failed = TRUE]
  <2>1. v \in CallRec /\ v.phase = u.phase /\ v.back = u.back /\ v.activated = u.activated
    BY <1>3 DEF CallRec
  <2>2. e = [desk EXCEPT !.call = [desk.call EXCEPT ![c] = v]] OBVIOUS
  <2> HIDE DEF v, e
  <2>3. /\ e \in DeskRec /\ e.pending = c /\ e.call[c] = v /\ \A j \in Calls : j # c => e.call[j] = desk.call[j]
    BY <1>3, <2>1, <2>2 DEF DeskRec
  <2>4. d2 = Ended(e, c) BY <1>9, <1>12 DEF e
  <2>5. HandsFit(d2, web, Tail(line), Tail(ops), screen = "up", h) BY <1>11, <1>12, <2>1, <2>3, <2>4
  <2> QED BY <1>1, <1>7, <1>9, <1>12, <2>5
<1>13. CASE desk' = Ended(desk, c) /\ line' = Tail(line)
  <2>1. HandsFit(d2, web, Tail(line), Tail(ops), screen = "up", h) BY <1>3, <1>9, <1>11, <1>13
  <2> QED BY <1>1, <1>7, <1>9, <1>13, <2>1
<1>14. ASSUME line' = line, d2.pending = c, \A j \in Calls : j # c => d2.call[j] = desk.call[j],
              d2.call[c].phase \in Human => u.phase \in Human,
              d2.call[c].back = u.back, d2.call[c].activated = u.activated, d2.call[c].at # "acting",
              d2.call[c].at # "revoking"
       PROVE  HandsFit(desk', web', line', ops', screen' = "up", held')
  <2>1. LineInOrder(d2, line) BY <1>2, <1>3, <1>14, HandsParts, LineStays
  <2>2. HumansActivated(d2) BY <1>14, HandsParts DEF HumansActivated
  <2>3. BotIsAlone(d2, web) BY <1>14 DEF BotIsAlone
  <2>4. HandsFit(d2, web, line, Tail(ops), screen = "up", h) BY <1>10, <2>1, <2>2, <2>3
  <2> QED BY <1>1, <1>7, <1>9, <1>14, <2>4
<1>15. CASE line' = line /\ desk' = [desk EXCEPT !.authority = "idle", !.call[c].phase = "settled",
                                                 !.call[c].at = "recording"]
  <2>1. /\ d2.pending = c /\ \A j \in Calls : j # c => d2.call[j] = desk.call[j]
        /\ d2.call[c].phase = "settled" /\ d2.call[c].back = u.back /\ d2.call[c].activated = u.activated
        /\ d2.call[c].at = "recording"
    BY <1>3, <1>9, <1>15 DEF DeskRec, CallRec
  <2> QED BY <1>14, <1>15, <2>1 DEF Human
<1>16. CASE line' = line /\ desk' = [desk EXCEPT !.call[c].at = "activating"]
  <2>1. /\ d2.pending = c /\ \A j \in Calls : j # c => d2.call[j] = desk.call[j]
        /\ d2.call[c].phase = u.phase /\ d2.call[c].back = u.back /\ d2.call[c].activated = u.activated
        /\ d2.call[c].at = "activating"
    BY <1>3, <1>9, <1>16 DEF DeskRec, CallRec
  <2> QED BY <1>14, <1>16, <2>1
<1> QED BY <1>12, <1>13, <1>15, <1>16 DEF ActEnds

\* What a human takes, or gives up, changes no call as far as the line and the releases go.
LEMMA OwnerStands ==
  ASSUME ControlAssumption, HandsIInv
  PROVE  /\ Stands(desk, WebClaimed(desk)) /\ HumansActivated(WebClaimed(desk))
         /\ Stands(desk, WebReleased(desk)) /\ HumansActivated(WebReleased(desk))
<1> DEFINE p == desk.pending
           h == [desk EXCEPT !.call[p].phase = "held", !.authority = "takeover"]
           q == [desk EXCEPT !.call[p].phase = "waiting"]
<1>1. desk \in DeskRec /\ (p # 0 => p \in Calls) /\ HumansActivated(desk) BY HandsParts
<1>2. Stands(desk, desk) BY DEF Stands
<1>3. ASSUME p # 0, desk.call[p].phase = "waiting"
      PROVE  Stands(desk, h) /\ HumansActivated(h)
  <2>1. /\ Stands(desk, h) /\ \A j \in Calls : j # p => h.call[j] = desk.call[j]
        /\ h.call[p].activated = desk.call[p].activated
    BY <1>1, <1>3 DEF DeskRec, CallRec, Stands
  <2>2. desk.call[p].activated # "open" BY <1>1, <1>3 DEF HumansActivated, Human
  <2> HIDE DEF h
  <2> QED BY <1>1, <2>1, <2>2 DEF HumansActivated
<1>4. ASSUME p # 0, desk.call[p].phase = "held"
      PROVE  Stands(desk, q) /\ HumansActivated(q) /\ q \in DeskRec
  <2>1. /\ Stands(desk, q) /\ \A j \in Calls : j # p => q.call[j] = desk.call[j]
        /\ q.call[p].activated = desk.call[p].activated
    BY <1>1, <1>4 DEF DeskRec, CallRec, Stands
  <2>2. desk.call[p].activated # "open" BY <1>1, <1>4 DEF HumansActivated, Human
  <2>3. q \in DeskRec BY <1>1, <1>4 DEF DeskRec, CallRec, Phases
  <2> HIDE DEF q
  <2> QED BY <1>1, <2>1, <2>2, <2>3 DEF HumansActivated
<1>5. ASSUME NEW d \in DeskRec, Stands(desk, d), HumansActivated(d), NEW b, NEW a,
             NEW e, e = [d EXCEPT !.webOwner = b, !.authority = a]
      PROVE  Stands(desk, e) /\ HumansActivated(e)
  <2>1. e.pending = d.pending /\ e.call = d.call BY <1>5 DEF DeskRec
  <2> QED BY <1>5, <2>1 DEF Stands, HumansActivated
<1>6. Stands(desk, WebClaimed(desk)) /\ HumansActivated(WebClaimed(desk))
  <2> HIDE DEF h
  <2>1. [desk EXCEPT !.authority = "takeover"] = [desk EXCEPT !.webOwner = desk.webOwner, !.authority = "takeover"]
    BY <1>1 DEF DeskRec
  <2>2. \/ WebClaimed(desk) = [desk EXCEPT !.webOwner = TRUE, !.authority = "web"]
        \/ p # 0 /\ desk.call[p].phase = "waiting" /\ WebClaimed(desk) = h
        \/ WebClaimed(desk) = [desk EXCEPT !.authority = "takeover"]
        \/ WebClaimed(desk) = desk
    BY DEF WebClaimed, h
  <2> QED BY <1>1, <1>2, <1>3, <1>5, <2>1, <2>2
<1>7. Stands(desk, WebReleased(desk)) /\ HumansActivated(WebReleased(desk))
  <2> HIDE DEF q
  <2> DEFINE phase == IF p = 0 THEN "settled" ELSE desk.call[p].phase
             left == IF phase = "held" THEN q ELSE desk
             a == CASE phase = "running" -> "agent"
                    [] phase \in {"takeover-requested", "completing"} -> "takeover"
                    [] OTHER -> "idle"
  <2>1. WebReleased(desk) = [left EXCEPT !.webOwner = FALSE, !.authority = a] BY DEF WebReleased, q
  <2>2. left \in DeskRec /\ Stands(desk, left) /\ HumansActivated(left)
    BY <1>1, <1>2, <1>4
  <2> HIDE DEF left, a
  <2> QED BY <1>5, <2>1, <2>2
<1> QED BY <1>6, <1>7

\* A release ends: its controller is announced no longer, and what it held is let go.
LEMMA ReleaseEndsHands ==
  ASSUME ControlAssumption, HandsIInv, NEW k \in Claims, ops # <<>>, ReleaseEnds(k)
  PROVE  HandsFit(desk', web', line', ops', screen' = "up", held')
<1>1. /\ Head(ops) = ReleaseOf(k) /\ Quiet /\ ops' = Tail(ops) /\ UNCHANGED <<line, screen>>
      /\ desk' = IF web.ctl[k].announced THEN WebReleased(desk) ELSE desk
  BY DEF ReleaseEnds, Runs, OperationOver, ReleaseOf
<1>2. web.ctl[k].release = "queued"
  <2>1. OpIsAwaited(Head(ops), desk, web) BY HandsParts, HeadIsAwaited
  <2>2. Head(ops).op = "release" /\ Head(ops).by = k BY <1>1 DEF ReleaseOf
  <2> QED BY <2>1, <2>2 DEF OpIsAwaited
<1>3. /\ web \in WebRec /\ web.ctl[k] \in CtlRec /\ AnnouncedFit(web) /\ Newest(web)
      /\ web.ctl[k].revoked /\ ~web.ctl[k].active
  BY <1>2, HandsParts DEF Newest
<1>4. PICK outcome \in {"done", "failed"} :
        /\ web' = [web EXCEPT !.ctl[k].release = outcome, !.ctl[k].announced = FALSE,
                              !.barrier = IF @ = k THEN 0 ELSE @]
        /\ held' = IF held.epoch = k THEN [epoch |-> 0, keys |-> FALSE] ELSE held
  BY DEF ReleaseEnds
<1>5. PICK r : r = web' OBVIOUS
<1> DEFINE b == IF web.barrier = k THEN 0 ELSE web.barrier
           c == [web.ctl[k] EXCEPT !.release = outcome, !.announced = FALSE]
<1>6. /\ c.release = outcome /\ c.announced = FALSE /\ c.active = FALSE
      /\ c.revoked = web.ctl[k].revoked /\ c.prior = web.ctl[k].prior
  BY <1>3 DEF CtlRec
<1>7. r = [now |-> web.now, last |-> web.last, barrier |-> b, ctl |-> [web.ctl EXCEPT ![k] = c]]
  <2>1. web' = [[web EXCEPT !.ctl = [web.ctl EXCEPT ![k] = c]] EXCEPT !.barrier = b]
    BY <1>3, <1>4 DEF WebRec, CtlRec
  <2> HIDE DEF c, b
  <2> QED BY <1>3, <1>5, <2>1 DEF WebRec
<1> HIDE DEF c
<1>8. /\ r.now = web.now /\ r.barrier \in {0, web.barrier} /\ r.ctl[k] = c
      /\ \A j \in Claims : j # k => r.ctl[j] = web.ctl[j]
  BY <1>3, <1>7 DEF WebRec
<1>9. AnnouncedFit(r)
  <2>1. /\ \A j \in Claims : j # k => r.ctl[j] = web.ctl[j]
        /\ r.barrier \in {0, web.barrier}
    BY <1>8
  <2>2. r.ctl[k].revoked = web.ctl[k].revoked /\ r.ctl[k].prior = web.ctl[k].prior BY <1>6, <1>8
  <2>3. r.ctl[k].active => r.ctl[k].announced BY <1>6, <1>8
  <2>4. r.ctl[k].announced =>
          /\ r.ctl[k].provisioned /\ r.ctl[k].claim \in {"settled", "back"}
          /\ r.ctl[k].release \notin {"done", "failed"}
          /\ r.ctl[k].active \/ r.ctl[k].revoked
    BY <1>6, <1>8
  <2> QED BY <1>3, <2>1, <2>2, <2>3, <2>4, OneAnnounced
<1>10. QueueFits(Tail(ops), r) /\ (screen = "up" => ActsFollow(Tail(ops), r))
  <2>1. \A j \in Claims : ReleaseOf(j) = ReleaseOf(k) => j = k BY DEF ReleaseOf
  <2>2. \A j \in Claims : /\ r.ctl[j].announced => web.ctl[j].announced /\ Head(ops) # ReleaseOf(j)
                          /\ web.ctl[j].announced /\ Head(ops) # ReleaseOf(j) => r.ctl[j].announced
                          /\ r.ctl[j].release = "queued" =>
                               web.ctl[j].release = "queued" /\ Head(ops) # ReleaseOf(j)
    BY <1>1, <1>4, <1>6, <1>8, <2>1
  <2>3. \A i \in DOMAIN ops : ops[i].op = "input" => ops[i].by \in Claims BY HandsParts, QueueIsOf
  <2> QED BY <2>2, <2>3, HandsParts, LeavesQueue
<1>11. PICK h : h = held' OBVIOUS
<1>12. HeldFits(h, r) BY <1>4, <1>11, <1>8, HandsParts DEF HeldFits
<1>13. OwedIsAwaited(desk, r, line)
  BY <1>1, HandsParts, NothingIsOwed, <1>6, <1>8 DEF OwedIsAwaited, Owing
<1>14. BotIsAlone(desk, r) BY <1>8, HandsParts DEF BotIsAlone
<1>15. PICK d2 : d2 = desk' OBVIOUS
<1>16. Stands(desk, d2) /\ HumansActivated(d2) BY <1>1, <1>15, OwnerStands, HandsParts DEF Stands
<1>17. LineInOrder(d2, line) /\ BotIsAlone(d2, r) /\ OwedIsAwaited(d2, r, line)
  BY <1>13, <1>14, <1>16, HandsParts, StandsInOrder
<1>18. HandsFit(d2, r, line, Tail(ops), screen = "up", h)
  BY <1>9, <1>10, <1>12, <1>16, <1>17 DEF HandsFit
<1> QED BY <1>1, <1>5, <1>11, <1>15, <1>18

\* An input is over: what it holds down is held under its controller, which is announced.
LEMMA InputEndsHands ==
  ASSUME ControlAssumption, HandsIInv, NEW k \in Claims, ops # <<>>, InputEnds(k)
  PROVE  HandsFit(desk', web', line', ops', screen' = "up", held')
<1>1. /\ Head(ops) = [op |-> "input", by |-> k] /\ Quiet /\ ops' = Tail(ops) /\ UNCHANGED line
  BY DEF InputEnds, Runs, OperationOver
<1>2. /\ web \in WebRec /\ web.ctl[k] \in CtlRec /\ AnnouncedFit(web) /\ NowIsOpen(web)
      /\ web.barrier \in 0..MaxClaims
  BY HandsParts, NewestIsOpen, PartsTyped
<1> DEFINE c == [web.ctl[k] EXCEPT !.sending = FALSE]
           r == CtlWith(web, k, c, web.barrier)
           sent == [web EXCEPT !.ctl[k].sending = FALSE]
           s == web.ctl[k].session
<1>3. sent = r
  <2> DEFINE f == [web.ctl EXCEPT ![k] = c]
  <2>1. sent = [web EXCEPT !.ctl = f] OBVIOUS
  <2> HIDE DEF f, sent
  <2>2. sent = [now |-> web.now, last |-> web.last, barrier |-> web.barrier, ctl |-> f]
    BY <1>2, <2>1 DEF WebRec
  <2> QED BY <2>2 DEF CtlWith, f
<1>4. /\ c \in CtlRec /\ c.release = web.ctl[k].release /\ c.active = web.ctl[k].active
      /\ c.claim = web.ctl[k].claim /\ c.revoked = web.ctl[k].revoked
      /\ c.prior = web.ctl[k].prior /\ c.provisioned = web.ctl[k].provisioned
      /\ c.announced = web.ctl[k].announced
  BY <1>2 DEF CtlRec
<1> HIDE DEF c
<1>5. /\ r \in WebRec /\ r.now = web.now /\ r.last = web.last /\ r.barrier = web.barrier /\ r.ctl[k] = c
      /\ \A j \in Claims : j # k => r.ctl[j] = web.ctl[j]
  BY SMTT(30), <1>2, <1>4, CtlWithIs
<1> HIDE DEF r, sent
<1>6. Calm(web, r)
  <2>1. \A j \in Claims : j # k => r.ctl[j] = web.ctl[j] BY <1>5
  <2>2. r.barrier \in {0, web.barrier} BY <1>5
  <2>3. r.ctl[k].revoked = web.ctl[k].revoked /\ r.ctl[k].prior = web.ctl[k].prior BY <1>4, <1>5
  <2>4. r.ctl[k].active = web.ctl[k].active /\ r.ctl[k].announced = web.ctl[k].announced BY <1>4, <1>5
  <2>5. r.ctl[k].release = "queued" <=> web.ctl[k].release = "queued" BY <1>4, <1>5
  <2>6. web.ctl[k].announced => /\ r.ctl[k].provisioned /\ r.ctl[k].claim \in {"settled", "back"}
                                /\ r.ctl[k].release = web.ctl[k].release
    BY <1>2, <1>4, <1>5 DEF AnnouncedFit
  <2> QED BY <1>2, <2>1, <2>2, <2>3, <2>4, <2>5, <2>6, OneIsCalm
<1>7. NowIsOpen(r)
  <2>1. \A j \in Claims : r.ctl[j].revoked = web.ctl[j].revoked /\ r.ctl[j].release = web.ctl[j].release
    BY <1>4, <1>5
  <2>2. web.last \in 0..MaxClaims /\ MaxClaims \in Nat /\ Claims = 1..MaxClaims BY HandsParts, PartsTyped
  <2>3. \A j \in 1..web.last : j \in Claims BY <2>2
  <2> QED BY <1>2, <1>5, <2>1, <2>3 DEF NowIsOpen
<1>8. AnnouncedFit(r) BY <1>6 DEF Calm
<1>9. Head(ops).op # "release" BY <1>1
<1>10. web.ctl[k].announced BY HandsParts, <1>1 DEF QueueFits
<1>11. ASSUME NEW v, Calm(web, v), web.now = 0 => v.now = 0, NEW h, HeldFits(h, v),
              web' = v, held' = h, UNCHANGED <<desk, screen>>
       PROVE  HandsFit(desk', web', line', ops', screen' = "up", held')
  <2>1. QueueFits(Tail(ops), v) /\ (screen = "up" => ActsFollow(Tail(ops), v)) BY <1>9, <1>11, HeadGoes
  <2>2. OwedIsAwaited(desk, v, line) BY <1>1, <1>11, QuietOwed
  <2>3. BotIsAlone(desk, v) BY <1>11, HandsParts DEF BotIsAlone
  <2>4. HandsFit(desk, v, line, Tail(ops), screen = "up", h)
    BY <1>11, <2>1, <2>2, <2>3, HandsParts DEF HandsFit, Calm
  <2> QED BY <1>1, <1>11, <2>4
<1>12. CASE /\ web' = r /\ UNCHANGED <<desk, screen>>
            /\ \E keys \in BOOLEAN : held' = [epoch |-> k, keys |-> keys]
  <2>1. PICK keys \in BOOLEAN : held' = [epoch |-> k, keys |-> keys] BY <1>12
  <2>2. PICK h : h = held' OBVIOUS
  <2>3. h.epoch = k BY <2>1, <2>2
  <2>4. HeldFits(h, r) BY <1>4, <1>5, <1>10, <2>3 DEF HeldFits
  <2> QED BY <1>5, <1>6, <1>11, <1>12, <2>2, <2>4
<1>13. CASE web' = RevokedFor(r, s) /\ UNCHANGED <<desk, screen, held>>
  <2>1. Calm(r, RevokedFor(r, s)) /\ (r.now = 0 => RevokedFor(r, s).now = 0)
    BY <1>5, <1>7, <1>8, RevokedForIsCalm
  <2>2. Calm(web, RevokedFor(r, s)) BY <1>6, <2>1, CalmGoesOn
  <2>3. HeldFits(held, RevokedFor(r, s)) BY <1>9, <2>2, HeadGoes
  <2> QED BY <1>5, <1>11, <1>13, <2>1, <2>2, <2>3
<1>14. CASE Lost(desk, r) BY <1>1, <1>5, <1>6, <1>7, <1>9, <1>14, LostHands
<1>15. \/ /\ web' = sent /\ UNCHANGED <<desk, screen>>
          /\ \E keys \in BOOLEAN : held' = [epoch |-> k, keys |-> keys]
       \/ web' = RevokedFor(sent, s) /\ UNCHANGED <<desk, screen, held>>
       \/ Lost(desk, sent)
  BY DEF InputEnds, sent
<1> QED BY <1>3, <1>12, <1>13, <1>14, <1>15

\* The answer to a claim puts a human in control only while the Bot neither acts nor revokes.
LEMMA ClaimEndsHands ==
  ASSUME ControlAssumption, HandsIInv, NEW k \in Claims, ops # <<>>, ClaimEnds(k)
  PROVE  HandsFit(desk', web', line', ops', screen' = "up", held')
<1>1. /\ Head(ops) = [op |-> "claim", by |-> k] /\ Quiet /\ ops' = Tail(ops) /\ UNCHANGED line
  BY DEF ClaimEnds, Runs, OperationOver
<1>2. web.ctl[k].claim = "asking"
  <2>1. OpIsAwaited(Head(ops), desk, web) BY HandsParts, HeadIsAwaited
  <2>2. Head(ops).op = "claim" /\ Head(ops).by = k BY <1>1
  <2> QED BY <2>1, <2>2 DEF OpIsAwaited
<1>3. /\ web \in WebRec /\ web.ctl[k] \in CtlRec /\ AnnouncedFit(web) /\ NowIsOpen(web)
      /\ web.barrier \in 0..MaxClaims /\ k # 0 /\ Newest(web) /\ web.last \in 0..MaxClaims
      /\ k \in 1..web.last
  BY <1>2, HandsParts, NewestIsOpen, PartsTyped
<1>4. ~web.ctl[k].announced BY <1>2, <1>3 DEF AnnouncedFit
<1>5. ~web.ctl[k].active BY <1>3, <1>4 DEF AnnouncedFit
<1>6. Head(ops).op # "release" BY <1>1
<1> DEFINE takes == ~web.ctl[k].revoked /\ (web.ctl[k].force \/ CanAccept(desk))
           answered == [web EXCEPT !.ctl[k].claim = "settled", !.ctl[k].provisioned = TRUE]
           taken == [answered EXCEPT !.ctl[k].active = TRUE, !.ctl[k].announced = TRUE]
           failed == [web EXCEPT !.ctl[k].claim = "failed"]
\* What one record of the controllers shows of another in which k was answered with a, and announced if b.
           Like(r, a, b) ==
             /\ r \in WebRec /\ r.now = web.now /\ r.last = web.last /\ r.barrier = web.barrier
             /\ \A j \in Claims : j # k => r.ctl[j] = web.ctl[j]
             /\ r.ctl[k].claim = a /\ r.ctl[k].active = b /\ r.ctl[k].announced = b
             /\ r.ctl[k].release = web.ctl[k].release /\ r.ctl[k].revoked = web.ctl[k].revoked
             /\ r.ctl[k].prior = web.ctl[k].prior /\ (b => r.ctl[k].provisioned)
<1>7. Like(failed, "failed", FALSE) /\ Like(answered, "settled", FALSE) /\ Like(taken, "settled", TRUE)
  <2> DEFINE u == web.ctl[k]
             cs == [u EXCEPT !.claim = "settled", !.provisioned = TRUE]
             ct == [u EXCEPT !.claim = "settled", !.provisioned = TRUE, !.active = TRUE, !.announced = TRUE]
             cf == [u EXCEPT !.claim = "failed"]
  <2>1. /\ cf \in CtlRec /\ cf.claim = "failed" /\ cf.active = FALSE /\ cf.announced = FALSE
        /\ cf.release = u.release /\ cf.revoked = u.revoked /\ cf.prior = u.prior
    BY <1>3, <1>4, <1>5 DEF CtlRec
  <2>2. /\ cs \in CtlRec /\ cs.claim = "settled" /\ cs.active = FALSE /\ cs.announced = FALSE
        /\ cs.release = u.release /\ cs.revoked = u.revoked /\ cs.prior = u.prior
    BY <1>3, <1>4, <1>5 DEF CtlRec
  <2>3. ct = [cs EXCEPT !.active = TRUE, !.announced = TRUE] BY <1>3 DEF CtlRec
  <2>4. /\ ct \in CtlRec /\ ct.claim = "settled" /\ ct.active = TRUE /\ ct.announced = TRUE
        /\ ct.release = u.release /\ ct.revoked = u.revoked /\ ct.prior = u.prior /\ ct.provisioned
    <3>1. [cs EXCEPT !.active = TRUE] \in CtlRec
      <4> HIDE DEF cs
      <4> QED BY <2>2 DEF CtlRec
    <3>2. ct \in CtlRec
      <4> HIDE DEF cs, ct
      <4>1. ct = [[cs EXCEPT !.active = TRUE] EXCEPT !.announced = TRUE] BY <2>3
      <4> QED BY <3>1, <4>1 DEF CtlRec
    <3> QED BY <1>3, <3>2 DEF CtlRec
  <2>5. failed = [web EXCEPT !.ctl = [web.ctl EXCEPT ![k] = cf]] OBVIOUS
  <2>6. answered = [web EXCEPT !.ctl = [web.ctl EXCEPT ![k] = cs]] BY <1>3 DEF WebRec, CtlRec
  <2>7. taken = [answered EXCEPT !.ctl = [answered.ctl EXCEPT ![k] =
                   [answered.ctl[k] EXCEPT !.active = TRUE, !.announced = TRUE]]]
    <3>1. answered \in WebRec
      <4> HIDE DEF answered, cs
      <4> QED BY <1>3, <2>2, <2>6 DEF WebRec
    <3> HIDE DEF answered
    <3> QED BY <3>1 DEF WebRec, CtlRec
  <2> HIDE DEF answered, taken, failed, cs, ct, cf, takes
  <2>8. /\ failed \in WebRec /\ failed.now = web.now /\ failed.last = web.last /\ failed.barrier = web.barrier
        /\ failed.ctl[k] = cf /\ \A j \in Claims : j # k => failed.ctl[j] = web.ctl[j]
    BY <1>3, <2>1, <2>5 DEF WebRec
  <2>9. /\ answered \in WebRec /\ answered.now = web.now /\ answered.last = web.last
        /\ answered.barrier = web.barrier
        /\ answered.ctl[k] = cs /\ \A j \in Claims : j # k => answered.ctl[j] = web.ctl[j]
    BY <1>3, <2>2, <2>6 DEF WebRec
  <2>10. taken = [answered EXCEPT !.ctl = [answered.ctl EXCEPT ![k] = ct]] BY <2>3, <2>7, <2>9
  <2>11. /\ taken \in WebRec /\ taken.now = web.now /\ taken.last = web.last /\ taken.barrier = web.barrier
         /\ taken.ctl[k] = ct /\ \A j \in Claims : j # k => taken.ctl[j] = web.ctl[j]
    BY <1>3, <2>4, <2>9, <2>10 DEF WebRec
  <2> QED BY <2>1, <2>2, <2>4, <2>8, <2>9, <2>11
<1> HIDE DEF answered, taken, failed
<1>8. ASSUME NEW r, NEW a, Like(r, a, FALSE) PROVE Calm(web, r) /\ NowIsOpen(r)
  <2>1. \A j \in Claims : j # k => r.ctl[j] = web.ctl[j] BY <1>8
  <2>2. r.barrier \in {0, web.barrier} BY <1>8
  <2>3. r.ctl[k].revoked = web.ctl[k].revoked /\ r.ctl[k].prior = web.ctl[k].prior BY <1>8
  <2>4. r.ctl[k].active = web.ctl[k].active /\ r.ctl[k].announced = web.ctl[k].announced
    BY <1>3, <1>4, <1>5, <1>8 DEF CtlRec
  <2>5. r.ctl[k].release = "queued" <=> web.ctl[k].release = "queued" BY <1>8
  <2>6. web.ctl[k].announced => /\ r.ctl[k].provisioned /\ r.ctl[k].claim \in {"settled", "back"}
                                /\ r.ctl[k].release = web.ctl[k].release
    BY <1>4
  <2>7. Calm(web, r) BY <1>3, <2>1, <2>2, <2>3, <2>4, <2>5, <2>6, OneIsCalm
  <2>8. \A j \in Claims : r.ctl[j].revoked = web.ctl[j].revoked /\ r.ctl[j].release = web.ctl[j].release
    BY <1>8
  <2>9. \A j \in 1..web.last : j \in Claims BY HandsParts, PartsTyped
  <2>10. NowIsOpen(r) BY <1>3, <1>8, <2>8, <2>9 DEF NowIsOpen
  <2> QED BY <2>7, <2>10
<1>9. ASSUME NEW r, Calm(web, r), r.now = web.now, NEW h, h = held \/ h.keys = FALSE,
             web' = r, held' = h, UNCHANGED <<desk, screen>>
      PROVE  HandsFit(desk', web', line', ops', screen' = "up", held')
  <2>1. QueueFits(Tail(ops), r) /\ HeldFits(held, r) /\ (screen = "up" => ActsFollow(Tail(ops), r))
    BY <1>6, <1>9, HeadGoes
  <2>2. OwedIsAwaited(desk, r, line) BY <1>1, <1>9, QuietOwed
  <2>3. BotIsAlone(desk, r) BY <1>9, HandsParts DEF BotIsAlone
  <2>4. HeldFits(h, r) BY <1>9, <2>1 DEF HeldFits
  <2>5. HandsFit(desk, r, line, Tail(ops), screen = "up", h)
    BY <1>9, <2>1, <2>2, <2>3, <2>4, HandsParts DEF HandsFit, Calm
  <2> QED BY <1>1, <1>9, <2>5
<1>10. CASE Lost(desk, failed)
  <2>1. failed \in WebRec /\ Calm(web, failed) /\ NowIsOpen(failed) BY <1>7, <1>8
  <2> QED BY <1>1, <1>6, <1>10, <2>1, LostHands
<1>11. CASE web' = failed /\ UNCHANGED <<desk, screen, held>>
  <2>1. Calm(web, failed) /\ failed.now = web.now BY <1>7, <1>8
  <2> QED BY <1>9, <1>11, <2>1
<1>12. CASE ~takes /\ held' = [epoch |-> k, keys |-> FALSE] /\ web' = answered /\ UNCHANGED <<desk, screen>>
  <2>1. Calm(web, answered) /\ answered.now = web.now BY <1>7, <1>8
  <2>2. PICK h : h = held' OBVIOUS
  <2>3. h.keys = FALSE BY <1>12, <2>2
  <2> QED BY <1>9, <1>12, <2>1, <2>2, <2>3
<1>13. CASE /\ takes /\ held' = [epoch |-> k, keys |-> FALSE] /\ web' = taken
            /\ desk' = WebClaimed(desk) /\ screen' = screen
  <2>1. ~web.ctl[k].revoked /\ k = web.now /\ web.ctl[k].release = "none"
    BY <1>3, <1>13 DEF NowIsOpen
  <2>2. \A i \in DOMAIN ops : ops[i].op # "act"
    <3> SUFFICES ASSUME NEW i \in DOMAIN ops, ops[i].op = "act" PROVE FALSE OBVIOUS
    <3>1. OpIsAwaited(ops[i], desk, web) BY HandsParts DEF OpsAreAwaited
    <3>2. ops[i].by \in Calls /\ desk.call[ops[i].by].at = "acting" BY <3>1 DEF OpIsAwaited
    <3>3. desk.pending = ops[i].by /\ desk.pending # 0 BY <3>2, HandsParts, CallFacts DEF Working, Calls
    <3> QED BY <1>3, <2>1, <3>2, <3>3, HandsParts DEF BotIsAlone
  <2>3. AnnouncedFit(taken)
    <3>1. \A j \in Claims : j # k => taken.ctl[j] = web.ctl[j] BY <1>7
    <3>2. taken.barrier \in {0, web.barrier} BY <1>7
    <3>3. taken.ctl[k].revoked = web.ctl[k].revoked /\ taken.ctl[k].prior = web.ctl[k].prior BY <1>7
    <3>4. taken.ctl[k].active => taken.ctl[k].announced BY <1>7
    <3>5. taken.ctl[k].announced =>
            /\ taken.ctl[k].provisioned /\ taken.ctl[k].claim \in {"settled", "back"}
            /\ taken.ctl[k].release \notin {"done", "failed"}
            /\ taken.ctl[k].active \/ taken.ctl[k].revoked
      BY <1>7, <2>1
    <3> QED BY <1>3, <3>1, <3>2, <3>3, <3>4, <3>5, OneAnnounced
  <2>4. Calm(web, answered) BY <1>7, <1>8
  <2>5. QueueFits(Tail(ops), answered) BY <1>6, <2>4, HeadGoes
  <2>6. QueueFits(Tail(ops), taken)
    <3>1. \A j \in Claims : /\ taken.ctl[j].release = answered.ctl[j].release
                            /\ answered.ctl[j].announced => taken.ctl[j].announced
      BY <1>7
    <3>2. \A i \in DOMAIN Tail(ops) : Tail(ops)[i].op = "input" => Tail(ops)[i].by \in Claims
      <4>1. \A i \in DOMAIN ops : ops[i].op = "input" => ops[i].by \in Claims BY HandsParts, QueueIsOf
      <4>2. ops \in Seq(OpRec) BY HandsParts
      <4>3. /\ Len(ops) \in Nat /\ DOMAIN ops = 1..Len(ops) /\ DOMAIN Tail(ops) = 1..(Len(ops) - 1)
            /\ \A i \in 1..(Len(ops) - 1) : Tail(ops)[i] = ops[i + 1]
        BY <4>2
      <4> QED BY <4>1, <4>3
    <3> QED BY <2>5, <3>1, <3>2 DEF QueueFits
  <2>7. ActsFollow(Tail(ops), taken)
    <3>1. \A i \in DOMAIN Tail(ops) : Tail(ops)[i].op # "act" BY HandsParts, <2>2
    <3> QED BY <3>1 DEF ActsFollow
  <2>8. OwedIsAwaited(desk, taken, line)
    BY <1>1, HandsParts, NothingIsOwed, <1>7, <2>1 DEF OwedIsAwaited, Owing
  <2>9. BotIsAlone(desk, taken) BY <1>7, HandsParts DEF BotIsAlone
  <2>10. PICK h : h = held' OBVIOUS
  <2>11. HeldFits(h, taken) BY <1>13, <2>10 DEF HeldFits
  <2>12. PICK d2 : d2 = WebClaimed(desk) OBVIOUS
  <2>13. LineInOrder(d2, line) /\ BotIsAlone(d2, taken) /\ OwedIsAwaited(d2, taken, line) /\ HumansActivated(d2)
    BY <2>8, <2>9, <2>12, OwnerStands, HandsParts, StandsInOrder
  <2>14. HandsFit(d2, taken, line, Tail(ops), screen = "up", h)
    BY <2>3, <2>6, <2>7, <2>11, <2>13 DEF HandsFit
  <2> QED BY <1>1, <1>13, <2>10, <2>12, <2>14
<1>14. \/ /\ held' = [epoch |-> k, keys |-> FALSE] /\ screen' = screen
          /\ web' = (IF takes THEN taken ELSE answered)
          /\ desk' = (IF takes THEN WebClaimed(desk) ELSE desk)
       \/ Lost(desk, failed)
       \/ web' = failed /\ UNCHANGED <<desk, screen, held>>
  BY DEF ClaimEnds, answered, taken, failed
<1> HIDE DEF takes
<1> QED BY <1>10, <1>11, <1>12, <1>13, <1>14

-----------------------------------------------------------------------------
(* The theorem.                                                               *)

\* Nobody is announced and nothing is held at first.
LEMMA HandsStart ==
  ASSUME ControlAssumption, ControlInit
  PROVE  HandsIInv
<1>1. ControlIInv BY ControlStarts
<1>2. \A c \in Calls : desk.call[c] = NewCall BY DEF ControlInit
<1>3. \A k \in Claims : web.ctl[k] = NewController BY DEF ControlInit
<1>4. desk.pending = 0 /\ web.barrier = 0 /\ held.keys = FALSE BY DEF ControlInit
<1>5. DOMAIN line = {} /\ DOMAIN ops = {} BY DEF ControlInit
<1>6. LineInOrder(desk, line) BY <1>5 DEF LineInOrder
<1>7. HumansActivated(desk) BY <1>2 DEF HumansActivated, NewCall, Human
<1>8. BotIsAlone(desk, web) BY <1>4 DEF BotIsAlone
<1>9. AnnouncedFit(web) BY <1>3, <1>4 DEF AnnouncedFit, NewController
<1>10. QueueFits(ops, web) BY <1>3, <1>5 DEF QueueFits, NewController
<1>11. HeldFits(held, web) BY <1>4 DEF HeldFits
<1>12. ActsFollow(ops, web) BY <1>5 DEF ActsFollow
<1>13. OwedIsAwaited(desk, web, line) BY <1>3 DEF OwedIsAwaited, Owing, NewController
<1> QED BY <1>1, <1>6, <1>7, <1>8, <1>9, <1>10, <1>11, <1>12, <1>13 DEF HandsIInv, HandsFit

\* An operation of the Surface ends only while one runs.
LEMMA EndsRun ==
  ASSUME QueueRuns, OperationEnds
  PROVE  busy /\ ops # <<>>
<1>1. busy BY ZenonT(60) DEF OperationEnds, ClaimEnds, ReleaseEnds, InputEnds, ActEnds, ObserveEnds,
                             Runs
<1> QED BY <1>1 DEF QueueRuns

\* Every step keeps the invariant.
LEMMA HandsKeep ==
  ASSUME ControlAssumption, HandsIInv, QueueRuns, [ControlNext]_controlVars
  PROVE  HandsIInv'
<1>1. ControlIInv' BY ControlKeeps DEF HandsIInv
<1> DEFINE Good == HandsFit(desk', web', line', ops', screen' = "up", held')
<1> SUFFICES Good BY <1>1, HandsPrimed DEF HandsIInv
<1>2. CASE Continue
  BY <1>2, OperationStartsHands, ClaimStartsHands, ClaimReturnsHands, ReleaseStartsHands,
     SendInputHands,
     CallStartsHands, CallRevokedHands, CallActivatedHands, CallCompletedHands, TakeOverContinuesHands,
     CancelRevertsHands, BackRevokedHands, RestoredHands DEF Continue
<1>3. CASE OperationEnds
  <2>1. ops # <<>> BY <1>3, EndsRun
  <2> QED BY <1>3, <2>1, ClaimEndsHands, ReleaseEndsHands, InputEndsHands, ActEndsHands, ObserveEndsHands
          DEF OperationEnds
<1>4. CASE \E c \in Calls : Recorded(c) BY <1>4, RecordedHands
<1>5. CASE Request
  BY <1>5, SetModeHands, CloseSessionHands, InputHands, ReleaseControlHands, AgentToolActHands,
     AbortHands, TakeOverHands, ImDoneHands, ScreenLostHands DEF Request
<1>6. CASE UNCHANGED controlVars BY <1>6 DEF HandsIInv, controlVars
<1> QED BY <1>2, <1>3, <1>4, <1>5, <1>6 DEF ControlNext

\* While an action of the Bot is on the Screen no human's input is, and nothing is held down.
LEMMA ActingIsAlone == HandsIInv /\ QueueRuns /\ Acting => ~Typing /\ held.keys = FALSE
<1> SUFFICES ASSUME HandsIInv, QueueRuns, Acting PROVE ~Typing /\ held.keys = FALSE OBVIOUS
<1> USE ControlAssumption
<1>1. /\ ops # <<>> /\ ops \in Seq(OpRec) /\ screen = "up" /\ Head(ops).op = "act"
  BY DEF Acting, QueueRuns
<1>2. 1 \in DOMAIN ops /\ ops[1] = Head(ops) /\ \A j \in DOMAIN ops : ~(j < 1) BY <1>1
<1>3. \A k \in Claims : ~web.ctl[k].announced BY <1>1, <1>2, HandsParts DEF ActsFollow
<1>4. ~held.keys BY <1>3, HandsParts DEF HeldFits
<1>5. held.keys \in BOOLEAN BY HandsParts DEF ControlIInv, RestTyped
<1> QED BY <1>1, <1>4, <1>5 DEF Typing

\* What a step does to what is on the Screen: nothing, the next operation starts, one ends (an
\* action of the Bot leaves nothing down that was not down), or the Screen is lost.
LEMMA HandStep ==
  ASSUME QueueRuns, [ControlNext]_controlVars
  PROVE  \/ UNCHANGED <<busy, held, screen>> /\ (busy => Head(ops') = Head(ops))
         \/ OperationStarts
         \/ /\ busy' = FALSE /\ (screen' = "up" => screen = "up")
            /\ Head(ops).op = "act" => held' = held \/ held'.keys = FALSE
         \/ screen' = "down"
<1> DEFINE Same == UNCHANGED <<busy, held, screen>> /\ (busy => Head(ops') = Head(ops))
<1>1. ASSUME UNCHANGED <<busy, held, screen, ops>> PROVE Same BY <1>1
<1>2. ASSUME UNCHANGED <<busy, held, screen>>, NEW h, NEW b \in Nat,
             ops' = Append(ops, [op |-> h, by |-> b]), h \in {"claim", "release", "input", "act", "observe"}
      PROVE  Same
  <2>1. [op |-> h, by |-> b] \in OpRec BY <1>2 DEF OpRec
  <2> DEFINE x == [op |-> h, by |-> b]
  <2> HIDE DEF x
  <2>2. busy => ops \in Seq(OpRec) /\ ops # <<>> BY DEF QueueRuns
  <2>3. busy => Head(Append(ops, x)) = Head(ops) BY <2>1, <2>2 DEF x
  <2> QED BY <1>2, <2>3 DEF x
<1>3. ASSUME NEW k \in Claims, ClaimStarts(k) \/ ClaimReturns(k) \/ ReleaseStarts(k) \/ SendInput(k)
      PROVE  Same
  <2>1. k \in Nat BY DEF Claims
  <2>2. UNCHANGED <<busy, held, screen>>
    BY <1>3 DEF ClaimStarts, ClaimReturns, ReleaseStarts, SendInput
  <2>3. ops' = ops \/ \E h \in {"claim", "release", "input"} : ops' = Append(ops, [op |-> h, by |-> k])
    BY <1>3 DEF ClaimStarts, ClaimReturns, ReleaseStarts, SendInput
  <2> HIDE DEF Same
  <2> QED BY <1>1, <1>2, <2>1, <2>2, <2>3
<1>4. ASSUME NEW c \in Calls,
             \/ CallStarts(c) \/ CallRevoked(c) \/ CallActivated(c)
             \/ CallCompleted(c) \/ TakeOverContinues(c) \/ CancelReverts(c)
             \/ BackRevoked(c) \/ Restored(c)
      PROVE  Same
  <2>1. c \in Nat BY DEF Calls
  <2>2. UNCHANGED <<busy, held, screen>>
    BY ZenonT(60), <1>4 DEF CallStarts, CallRevoked, CallActivated, CallCompleted, TakeOverContinues,
                            CancelReverts, BackRevoked, Restored
  <2>3. ops' = ops \/ \E h \in {"act", "observe"} : ops' = Append(ops, [op |-> h, by |-> c])
    BY ZenonT(60), <1>4 DEF CallStarts, CallRevoked, CallActivated, CallCompleted, TakeOverContinues,
                            CancelReverts, BackRevoked, Restored
  <2> HIDE DEF Same
  <2> QED BY <1>1, <1>2, <2>1, <2>2, <2>3
<1>5. CASE Continue
  <2> HIDE DEF Same
  <2> QED BY <1>3, <1>4, <1>5 DEF Continue, Same
<1>6. CASE \E c \in Calls : Recorded(c) BY <1>1, <1>6 DEF Recorded
<1>7. CASE Request
  <2>1. UNCHANGED <<busy, held, screen, ops>> \/ screen' = "down"
    BY ZenonT(60), <1>7 DEF Request, SetMode, CloseSession, Input, ReleaseControl, AgentToolAct, Abort,
                            TakeOver, ImDone, ScreenLost, Lost
  <2> QED BY <1>1, <2>1
<1>8. CASE UNCHANGED controlVars BY <1>1, <1>8 DEF controlVars
<1>9. CASE OperationEnds
  <2>1. busy' = FALSE
    BY ZenonT(60), <1>9 DEF OperationEnds, ClaimEnds, ReleaseEnds, InputEnds, ActEnds, ObserveEnds,
                            OperationOver
  <2>2. screen' = "down" \/ screen' = screen
    BY ZenonT(60), <1>9 DEF OperationEnds, ClaimEnds, ReleaseEnds, InputEnds, ActEnds, ObserveEnds, Lost
  <2>3. ASSUME Head(ops).op = "act" PROVE held' = held \/ held'.keys = FALSE
    <3>1. ASSUME NEW k \in Claims, ClaimEnds(k) \/ ReleaseEnds(k) \/ InputEnds(k) PROVE FALSE
      BY <2>3, <3>1 DEF ClaimEnds, ReleaseEnds, InputEnds, Runs
    <3>2. ASSUME NEW c \in Calls, ActEnds(c) PROVE held' = held \/ held'.keys = FALSE
      <4>1. held' = held \/ held' = [epoch |-> 0, keys |-> FALSE] BY <3>2 DEF ActEnds
      <4> QED BY <4>1
    <3>3. ASSUME NEW c \in Calls, ObserveEnds(c) PROVE held' = held BY <3>3 DEF ObserveEnds
    <3> QED BY <1>9, <3>1, <3>2, <3>3 DEF OperationEnds
  <2> QED BY <2>1, <2>2, <2>3
<1> HIDE DEF Same
<1> QED BY <1>5, <1>6, <1>7, <1>8, <1>9 DEF ControlNext, Same

\* No step passes the Screen from one hand to the other.
LEMMA HandsPassOver ==
  ASSUME ControlAssumption, HandsIInv, QueueRuns, HandsIInv', QueueRuns', [ControlNext]_controlVars
  PROVE  (Acting' => ~Typing /\ ~Typing') /\ (Typing' => ~Acting)
<1>1. Acting => ~Typing /\ held.keys = FALSE BY ActingIsAlone
<1>2. Acting' => ~Typing' /\ held'.keys = FALSE
  <2>1. (HandsIInv /\ QueueRuns /\ Acting => ~Typing /\ held.keys = FALSE)' BY ActingIsAlone, PTL
  <2> QED BY <2>1
<1>3. CASE UNCHANGED <<busy, held, screen>> /\ (busy => Head(ops') = Head(ops))
  BY <1>1, <1>2, <1>3 DEF Acting, Typing
<1>4. CASE OperationStarts
  BY <1>2, <1>4 DEF OperationStarts, OperationReady, Acting, Typing
<1>5. CASE /\ busy' = FALSE /\ (screen' = "up" => screen = "up")
           /\ Head(ops).op = "act" => held' = held \/ held'.keys = FALSE
  BY <1>1, <1>5 DEF Acting, Typing
<1>6. CASE screen' = "down" BY <1>6 DEF Acting, Typing
<1> QED BY <1>3, <1>4, <1>5, <1>6, HandStep

\* At most one hand is on a Bot Screen, and it changes hands only after it was let go (OneHand):
\* the queue of the Surface, the epochs of Web Control and the broker keep the actions of the Bot
\* and the input of a human apart, for any number of viewers, calls and claims.
THEOREM OneHandAtATime == ControlSpec => HandsOff
<1> USE ControlAssumption
<1> DEFINE Inv == HandsIInv /\ QueueRuns
           hand == {h \in {"agent", "human"} : IF h = "agent" THEN Acting ELSE Typing}
<1>1. ControlInit => Inv BY ControlStarts, HandsStart
<1>2. Inv /\ [ControlNext]_controlVars => Inv' BY HandsKeep, QueueKeepsRunning DEF HandsIInv
<1>3. ControlInit => OneHandOnScreen!Init BY DEF ControlInit, Acting, Typing, OneHandOnScreen!Init
<1>4. Inv /\ Inv' /\ [ControlNext]_controlVars => [OneHandOnScreen!Next]_hand
  <2> SUFFICES ASSUME Inv, Inv', [ControlNext]_controlVars PROVE [OneHandOnScreen!Next]_hand OBVIOUS
  <2>1. (Acting' => ~Typing /\ ~Typing') /\ (Typing' => ~Acting) BY HandsPassOver
  <2>2. hand' = {h \in {"agent", "human"} : IF h = "agent" THEN Acting' ELSE Typing'} OBVIOUS
  <2>3. CASE ~Acting' /\ ~Typing'
    <3>1. hand' = {} BY <2>2, <2>3
    <3> QED BY <3>1 DEF OneHandOnScreen!Next, OneHandOnScreen!LetGo
  <2>4. CASE Acting'
    <3>1. hand' = {"agent"} /\ (hand = {} \/ hand = {"agent"}) BY <2>1, <2>2, <2>4
    <3> QED BY <3>1 DEF OneHandOnScreen!Next, OneHandOnScreen!Grasp, OneHandOnScreen!Hands
  <2>5. CASE Typing'
    <3>1. hand' = {"human"} /\ (hand = {} \/ hand = {"human"}) BY <2>1, <2>2, <2>5
    <3> QED BY <3>1 DEF OneHandOnScreen!Next, OneHandOnScreen!Grasp, OneHandOnScreen!Hands
  <2> QED BY <2>3, <2>4, <2>5
<1> QED BY <1>1, <1>2, <1>3, <1>4, PTL DEF ControlSpec, HandsOff, OneHandOnScreen!Spec

-----------------------------------------------------------------------------
(* The shared seat. *)

\* The owner of the lease stands at the head of the line of those who asked for it.
OwnerLeads == leaseOwner # NoSurface => leaseLine # <<>> /\ Head(leaseLine) = leaseOwner

\* An operation that got the lease itself began while no human had its Screen.
AcquiredAlone == \A s \in Surfaces : acquired[s] => ~human[s]

\* A runtime that is being stopped is gone, and what still works for it is stale.
StoppingIsStale == \A s \in Surfaces : stopping[s] => ~live[s] /\ (at[s] # "idle" => stale[s])

\* Behind the owner stand, once each, the Screens whose operation waits for the lease.
WaitersFollow ==
  /\ \A i \in DOMAIN leaseLine : at[leaseLine[i]] = "waiting" \/ (i = 1 /\ leaseLine[i] = leaseOwner)
  /\ \A i, j \in DOMAIN leaseLine : i # j => leaseLine[i] # leaseLine[j]
  /\ \A s \in Surfaces : leaseOwner = s => at[s] # "waiting"

SeatIInv == SeatIsOwned /\ OwnerLeads /\ AcquiredAlone /\ StoppingIsStale /\ WaitersFollow

\* What giving the lease up leaves: the owner has left the line, and nobody else.
Given(s, cond) ==
  /\ leaseLine' \in Seq(Surfaces) /\ leaseOwner' \in Surfaces \cup {NoSurface}
  /\ leaseOwner' # NoSurface => leaseLine' # <<>> /\ Head(leaseLine') = leaseOwner'
  /\ leaseOwner # s => leaseOwner' = leaseOwner
  /\ cond => leaseOwner' # s
  /\ ~cond => leaseOwner' = leaseOwner

\* What the end of the head of a Screen's queue leaves.
Over(s) ==
  /\ queued' \in [Surfaces -> Seq({"act", "claim", "release", "stop"})]
  /\ at' \in [Surfaces -> {"idle", "waiting", "inside"}]
  /\ stale' \in [Surfaces -> BOOLEAN] /\ acquired' \in [Surfaces -> BOOLEAN]
  /\ at'[s] = "idle" /\ ~acquired'[s]
  /\ \A u \in Surfaces \ {s} :
       at'[u] = at[u] /\ stale'[u] = stale[u] /\ acquired'[u] = acquired[u]

\* Only the owner gives the lease up.
LEMMA GivenUp ==
  ASSUME SeatTypeOK, OwnerLeads, NEW s \in Surfaces, NEW cond \in BOOLEAN, LeaseGivenUp(s, cond)
  PROVE  Given(s, cond)
<1> USE DEF Given
<1>0. NoSurface \notin Surfaces /\ leaseLine \in Seq(Surfaces) BY SeatAssumption DEF SeatTypeOK
<1>1. CASE cond /\ leaseOwner = s
  <2>1. leaseOwner' = NoSurface /\ leaseLine' = Tail(leaseLine) /\ leaseLine # <<>>
    BY <1>0, <1>1 DEF LeaseGivenUp, OwnerLeads
  <2>2. leaseLine' \in Seq(Surfaces) BY <1>0, <2>1
  <2> QED BY <1>0, <1>1, <2>1, <2>2 DEF OwnerLeads
<1>2. CASE ~(cond /\ leaseOwner = s)
  <2>1. UNCHANGED <<leaseOwner, leaseLine>> BY <1>2 DEF LeaseGivenUp
  <2> QED BY <1>2, <2>1 DEF SeatTypeOK, OwnerLeads
<1> QED BY <1>1, <1>2

\* The line stays in order when nobody stops waiting and the lease at most is given up.
LEMMA WaitersStay ==
  ASSUME SeatTypeOK, WaitersFollow, OwnerLeads,
         UNCHANGED <<leaseOwner, leaseLine>> \/ \E s \in Surfaces, cond \in BOOLEAN : LeaseGivenUp(s, cond),
         \A u \in Surfaces : at'[u] = "waiting" <=> at[u] = "waiting"
  PROVE  WaitersFollow'
<1>0. NoSurface \notin Surfaces /\ leaseLine \in Seq(Surfaces) BY SeatAssumption DEF SeatTypeOK
<1>1. CASE UNCHANGED <<leaseOwner, leaseLine>>
  <2>1. \A i \in DOMAIN leaseLine : leaseLine[i] \in Surfaces BY <1>0
  <2> QED BY <1>1, <2>1 DEF WaitersFollow
<1>2. CASE leaseOwner' = NoSurface /\ leaseLine' = Tail(leaseLine) /\ leaseOwner # NoSurface
  <2>1. leaseLine # <<>> BY <1>2 DEF OwnerLeads
  <2>2. \A i \in DOMAIN leaseLine' : /\ i + 1 \in DOMAIN leaseLine /\ leaseLine'[i] = leaseLine[i + 1]
                                    /\ i + 1 # 1 /\ leaseLine[i + 1] \in Surfaces
    BY <1>0, <1>2, <2>1
  <2>3. \A i, j \in DOMAIN leaseLine' : i # j => i + 1 # j + 1 BY <1>0, <1>2, <2>1
  <2> QED BY <1>0, <1>2, <2>2, <2>3 DEF WaitersFollow
<1> QED BY <1>0, <1>1, <1>2 DEF LeaseGivenUp

\* The end of the head of a Screen's queue.
LEMMA HeadIsOver ==
  ASSUME SeatTypeOK, NEW s \in Surfaces, queued[s] # <<>>, HeadOver(s)
  PROVE  Over(s)
BY DEF SeatTypeOK, HeadOver, Over

\* The invariant holds at first.
LEMMA SeatInvariantInit == SeatInit => SeatIInv
BY SeatAssumption DEF SeatInit, SeatIInv, SeatIsOwned, SeatTypeOK, OwnerLeads, AcquiredAlone,
   StoppingIsStale, WaitersFollow

\* Every step of the seat keeps it.
LEMMA SeatInvariantNext == SeatIInv /\ [SeatNext]_seatVars => SeatIInv'
<1> SUFFICES ASSUME SeatIInv, [SeatNext]_seatVars PROVE SeatIInv' OBVIOUS
<1> USE DEF SeatIInv, AcquiredAlone, StoppingIsStale
<1>0. /\ SeatTypeOK /\ OwnerLeads /\ WaitersFollow /\ NoSurface \notin Surfaces
      /\ queued \in [Surfaces -> Seq({"act", "claim", "release", "stop"})]
      /\ at \in [Surfaces -> {"idle", "waiting", "inside"}]
      /\ live \in [Surfaces -> BOOLEAN] /\ human \in [Surfaces -> BOOLEAN]
      /\ acquired \in [Surfaces -> BOOLEAN] /\ stale \in [Surfaces -> BOOLEAN]
      /\ stopping \in [Surfaces -> BOOLEAN]
      /\ \A s \in Surfaces : /\ human[s] => live[s] /\ leaseOwner = s
                             /\ at[s] = "inside" /\ ~stale[s] => leaseOwner = s
  BY SeatAssumption DEF SeatIsOwned, SeatTypeOK
<1>1. ASSUME NEW s \in Surfaces, NEW op \in {"act", "claim", "release", "stop"}, Enqueue(s, op)
      PROVE  SeatIInv'
  <2>1. /\ queued' = [queued EXCEPT ![s] = Append(@, op)]
        /\ UNCHANGED <<at, acquired, stale, live, stopping, human, leaseLine, leaseOwner, failures>>
    BY <1>1 DEF Enqueue
  <2>2. queued' \in [Surfaces -> Seq({"act", "claim", "release", "stop"})] BY <1>0, <2>1
  <2>3. SeatTypeOK' BY <2>1, <2>2, <1>0 DEF SeatTypeOK
  <2>4. WaitersFollow' BY <1>0, <2>1, WaitersStay
  <2> QED BY <1>0, <2>1, <2>3, <2>4 DEF SeatIsOwned, OwnerLeads
<1>2. ASSUME NEW s \in Surfaces, AskLease(s) PROVE SeatIInv'
  <2>1. /\ UNCHANGED <<live, stopping, human, leaseOwner, failures>>
        /\ at[s] = "idle" /\ queued[s] # <<>>
    BY <1>2 DEF AskLease, HeadIs
  <2>2. CASE ~live[s]
    <3>1. HeadOver(s) /\ UNCHANGED leaseLine BY <1>2, <2>2 DEF AskLease
    <3>2. SeatTypeOK' BY <1>0, <2>1, <3>1, HeadIsOver DEF SeatTypeOK, Over
    <3>3. Over(s) BY <1>0, <2>1, <3>1, HeadIsOver
    <3>4. WaitersFollow' BY <1>0, <2>1, <3>1, <3>3, WaitersStay DEF Over
    <3> QED BY <1>0, <2>1, <3>1, <3>2, <3>3, <3>4 DEF SeatIsOwned, OwnerLeads, Over
  <2>3. CASE live[s] /\ leaseOwner = s
    <3>1. at' = [at EXCEPT ![s] = "inside"] /\ UNCHANGED <<queued, stale, acquired, leaseLine>>
      BY <1>2, <2>3 DEF AskLease
    <3>2. SeatTypeOK' BY <1>0, <2>1, <3>1 DEF SeatTypeOK
    <3>3. WaitersFollow' BY <1>0, <2>1, <3>1, WaitersStay
    <3> QED BY <1>0, <2>1, <2>3, <3>1, <3>2, <3>3 DEF SeatIsOwned, OwnerLeads
  <2>4. CASE live[s] /\ leaseOwner # s
    <3>1. /\ at' = [at EXCEPT ![s] = "waiting"] /\ leaseLine' = Append(leaseLine, s)
          /\ UNCHANGED <<queued, stale, acquired>>
      BY <1>2, <2>4 DEF AskLease
    <3>2. leaseLine \in Seq(Surfaces) BY <1>0 DEF SeatTypeOK
    <3>3. leaseLine' \in Seq(Surfaces) BY <3>1, <3>2
    <3>4. leaseLine # <<>> => leaseLine' # <<>> /\ Head(leaseLine') = Head(leaseLine)
      BY <3>1, <3>2
    <3>5. SeatTypeOK' BY <1>0, <2>1, <3>1, <3>3 DEF SeatTypeOK
    <3>6. OwnerLeads' BY <1>0, <2>1, <3>4 DEF OwnerLeads
    <3>7. WaitersFollow'
      <4>1. \A i \in DOMAIN leaseLine : leaseLine[i] \in Surfaces /\ leaseLine[i] # s
        BY <1>0, <2>1, <2>4, <3>2 DEF WaitersFollow
      <4>2. \A i \in DOMAIN leaseLine' :
              \/ i \in DOMAIN leaseLine /\ leaseLine'[i] = leaseLine[i]
              \/ i = Len(leaseLine) + 1 /\ leaseLine'[i] = s BY <3>1, <3>2
      <4>3. at'[s] = "waiting" /\ \A u \in Surfaces : u # s => at'[u] = at[u] BY <1>0, <3>1
      <4>4. leaseOwner' = leaseOwner /\ leaseOwner # s BY <2>1, <2>4
      <4>5. \A i \in DOMAIN leaseLine' :
              at'[leaseLine'[i]] = "waiting" \/ (i = 1 /\ leaseLine'[i] = leaseOwner')
        BY <1>0, <4>1, <4>2, <4>3, <4>4 DEF WaitersFollow
      <4>6. \A i, j \in DOMAIN leaseLine' : i # j => leaseLine'[i] # leaseLine'[j]
        BY <1>0, <4>1, <4>2 DEF WaitersFollow
      <4>7. \A u \in Surfaces : leaseOwner' = u => at'[u] # "waiting" BY <1>0, <4>3, <4>4
        DEF WaitersFollow
      <4> QED BY <4>5, <4>6, <4>7 DEF WaitersFollow
    <3> QED BY <1>0, <2>1, <2>4, <3>1, <3>5, <3>6, <3>7 DEF SeatIsOwned
  <2> QED BY <2>2, <2>3, <2>4, <1>0
<1>3. ASSUME NEW s \in Surfaces, LeaseGranted(s) PROVE SeatIInv'
  <2>1. SeatTypeOK' BY <1>3 DEF LeaseGranted, SeatIsOwned, SeatTypeOK
  <2>2. \A u \in Surfaces : ~human[u] /\ ~(at[u] = "inside" /\ ~stale[u])
    BY <1>0, <1>3 DEF LeaseGranted
  <2>3. OwnerLeads' BY <1>3 DEF LeaseGranted, OwnerLeads
  <2>4. /\ leaseOwner' = s /\ at' = [at EXCEPT ![s] = "inside"]
        /\ acquired' = [acquired EXCEPT ![s] = TRUE] /\ UNCHANGED <<stale, live, stopping, human>>
    BY <1>3 DEF LeaseGranted
  <2>5. SeatIsOwned' BY <1>0, <2>1, <2>2, <2>4 DEF SeatIsOwned
  <2>6. AcquiredAlone' BY <2>2, <2>4
  <2>7. 1 \in DOMAIN leaseLine /\ leaseLine[1] = s /\ leaseLine \in Seq(Surfaces) /\ leaseOwner = NoSurface
    BY <1>3 DEF LeaseGranted, SeatIsOwned, SeatTypeOK
  <2>8. at[s] = "waiting" BY <1>0, <2>7 DEF WaitersFollow
  <2>9. StoppingIsStale' BY <1>0, <2>4, <2>8
  <2>10. WaitersFollow' BY <1>3, <2>7, <1>0, <2>4 DEF LeaseGranted, WaitersFollow
  <2> QED BY <2>3, <2>5, <2>6, <2>9, <2>10
<1>4. ASSUME NEW s \in Surfaces, ActionEnds(s) PROVE SeatIInv'
  <2>1. /\ HeadOver(s) /\ LeaseGivenUp(s, acquired[s]) /\ queued[s] # <<>> /\ acquired[s] \in BOOLEAN
        /\ UNCHANGED <<live, stopping, human, failures>>
    BY <1>0, <1>4 DEF ActionEnds, HeadIs
  <2>a. Over(s) BY <1>0, <2>1, HeadIsOver
  <2>b. Given(s, acquired[s]) BY <1>0, <2>1, GivenUp
  <2>2. SeatTypeOK' BY <1>0, <2>1, <2>a, <2>b DEF SeatTypeOK, Over, Given
  <2>3. \A u \in Surfaces : human[u] => leaseOwner' = u BY <1>0, <2>1, <2>b DEF Given
  <2>4. WaitersFollow' BY <1>0, <1>4, <2>1, <2>a, WaitersStay DEF ActionEnds, Over
  <2> QED BY <1>0, <2>1, <2>2, <2>3, <2>4, <2>a, <2>b DEF SeatIsOwned, OwnerLeads, Over, Given
<1>5. ASSUME NEW s \in Surfaces, AuthorityEnds(s) PROVE SeatIInv'
  <2>0. HeadOver(s) /\ queued[s] # <<>> /\ at[s] = "inside" BY <1>5 DEF AuthorityEnds, HeadIs
  <2>a. \A u \in Surfaces : at'[u] = "waiting" <=> at[u] = "waiting"
    BY <1>0, <2>0, HeadIsOver DEF Over
  <2>b. acquired[s] \in BOOLEAN BY <1>0
  <2>1. CASE /\ live[s] /\ ~stale[s]
             /\ human' = [human EXCEPT ![s] = TRUE]
             /\ UNCHANGED <<leaseOwner, leaseLine, live, stopping, failures>>
    <3>1. SeatTypeOK' BY <1>0, <2>0, <2>1, HeadIsOver DEF SeatTypeOK, Over
    <3>2. WaitersFollow' BY <1>0, <2>1, <2>a, WaitersStay
    <3> QED BY <1>0, <2>0, <2>1, <3>1, <3>2, HeadIsOver DEF SeatIsOwned, OwnerLeads, Over
  <2>2. CASE /\ LeaseGivenUp(s, acquired[s])
             /\ UNCHANGED <<human, live, stopping, failures>>
    <3>1. SeatTypeOK' BY <1>0, <2>0, <2>2, HeadIsOver, GivenUp DEF SeatTypeOK, Over, Given
    <3>2. \A u \in Surfaces : human[u] => leaseOwner' = u BY <1>0, <2>2, GivenUp DEF Given
    <3>3. Over(s) BY <1>0, <2>0, HeadIsOver
    <3>4. Given(s, acquired[s]) BY <1>0, <2>2, GivenUp
    <3>5. WaitersFollow' BY <1>0, <2>2, <2>a, <2>b, WaitersStay
    <3> QED BY <1>0, <2>0, <2>2, <3>1, <3>2, <3>3, <3>4, <3>5 DEF SeatIsOwned, OwnerLeads, Over, Given
  <2>3. CASE /\ failures < MaxFailures /\ failures' = failures + 1
             /\ live' = [live EXCEPT ![s] = FALSE]
             /\ stopping' = [stopping EXCEPT ![s] = TRUE]
             /\ human' = [human EXCEPT ![s] = FALSE]
             /\ LeaseGivenUp(s, TRUE)
    <3>a. Over(s) BY <1>0, <2>0, HeadIsOver
    <3>b. Given(s, TRUE) BY <1>0, <2>3, GivenUp
    <3>c. live' \in [Surfaces -> BOOLEAN] /\ stopping' \in [Surfaces -> BOOLEAN] /\ human' \in [Surfaces -> BOOLEAN]
      BY <1>0, <2>3
    <3>d. failures' \in 0..MaxFailures
      BY <1>0, <2>3, SeatAssumption DEF SeatTypeOK
    <3>1. SeatTypeOK' BY <3>a, <3>b, <3>c, <3>d DEF SeatTypeOK, Over, Given
    <3>2. WaitersFollow' BY <1>0, <2>3, <2>a, WaitersStay
    <3> QED BY <1>0, <2>0, <2>3, <3>1, <3>2, <3>a, <3>b DEF SeatIsOwned, OwnerLeads, Over, Given
  <2> QED BY <1>5, <2>1, <2>2, <2>3 DEF AuthorityEnds
<1>6. ASSUME NEW s \in Surfaces, ReleaseInput(s) \/ StopSurface(s) PROVE SeatIInv'
  <2>1. /\ HeadOver(s) /\ queued[s] # <<>> /\ at[s] = "idle"
        /\ human' = [human EXCEPT ![s] = FALSE]
        /\ UNCHANGED <<stopping, failures>>
        /\ live' = live \/ live' = [live EXCEPT ![s] = FALSE]
    BY <1>6 DEF ReleaseInput, StopSurface, HeadIs
  <2>2. PICK cond \in BOOLEAN : LeaseGivenUp(s, cond) BY <1>0, <1>6 DEF ReleaseInput, StopSurface
  <2>a. Over(s) BY <1>0, <2>1, HeadIsOver
  <2>b. Given(s, cond) BY <1>0, <2>2, GivenUp
  <2>c. live' \in [Surfaces -> BOOLEAN] /\ human' \in [Surfaces -> BOOLEAN]
    BY <1>0, <2>1
  <2>3. SeatTypeOK' BY <1>0, <2>1, <2>a, <2>b, <2>c DEF SeatTypeOK, Over, Given
  <2>4. WaitersFollow' BY <1>0, <2>1, <2>2, <2>a, WaitersStay DEF Over
  <2> QED BY <1>0, <2>1, <2>3, <2>4, <2>a, <2>b DEF SeatIsOwned, OwnerLeads, Over, Given
<1>7. ASSUME NEW s \in Surfaces, RuntimeFails(s) \/ RuntimeStopped(s) PROVE SeatIInv'
  <2>1. LeaseGivenUp(s, TRUE) /\ UNCHANGED <<queued, at, acquired>>
    BY <1>7 DEF RuntimeFails, RuntimeStopped
  <2>b. Given(s, TRUE) BY <1>0, <2>1, GivenUp
  <2>c. WaitersFollow' BY <1>0, <2>1, WaitersStay
  <2>2. CASE RuntimeFails(s)
    <3>1. /\ failures < MaxFailures /\ failures' = failures + 1 /\ failures \in 0..MaxFailures
          /\ stale' = [stale EXCEPT ![s] = at[s] # "idle"] /\ (at[s] # "idle") \in BOOLEAN
          /\ live' = [live EXCEPT ![s] = FALSE] /\ stopping' = [stopping EXCEPT ![s] = TRUE]
          /\ human' = [human EXCEPT ![s] = FALSE]
      BY <2>2, <1>0 DEF RuntimeFails, SeatTypeOK
    <3>2. failures' \in 0..MaxFailures BY <3>1, SeatAssumption
    <3>3. stale' \in [Surfaces -> BOOLEAN]
      <4> DEFINE b == at[s] # "idle"
      <4>1. b \in BOOLEAN /\ stale' = [stale EXCEPT ![s] = b] BY <3>1
      <4> HIDE DEF b
      <4> QED BY <1>0, <4>1
    <3>4. SeatTypeOK' BY <1>0, <2>1, <2>b, <3>1, <3>2, <3>3 DEF SeatTypeOK, Given
    <3> QED BY <1>0, <2>1, <2>b, <2>c, <3>1, <3>4 DEF SeatIsOwned, OwnerLeads, Given
  <2>3. CASE RuntimeStopped(s)
    <3>1. SeatTypeOK' BY <1>0, <2>1, <2>3, <2>b DEF RuntimeStopped, SeatTypeOK, Given
    <3> QED BY <1>0, <2>1, <2>3, <2>b, <2>c, <3>1 DEF RuntimeStopped, SeatIsOwned, OwnerLeads, Given
  <2> QED BY <1>7, <2>2, <2>3
<1>8. ASSUME NEW s \in Surfaces, StartSurface(s) PROVE SeatIInv'
  <2>1. SeatTypeOK' BY <1>0, <1>8 DEF StartSurface, SeatTypeOK
  <2>2. WaitersFollow' BY <1>0, <1>8, WaitersStay DEF StartSurface
  <2> QED BY <1>0, <1>8, <2>1, <2>2 DEF StartSurface, SeatIsOwned, OwnerLeads
<1>9. CASE UNCHANGED seatVars
  BY <1>9 DEF seatVars, SeatIsOwned, SeatTypeOK, OwnerLeads, WaitersFollow
<1> QED BY <1>1, <1>2, <1>3, <1>4, <1>5, <1>6, <1>7, <1>8, <1>9 DEF SeatNext, Progress

\* A human in control of a Screen owns the shared seat, and so does whatever of a
\* running Screen is inside: no input goes to another Screen's workspace.
THEOREM SeatHasItsOwner == SeatSpec => []SeatIsOwned
<1>1. SeatIInv => SeatIsOwned BY DEF SeatIInv
<1> QED BY <1>1, SeatInvariantInit, SeatInvariantNext, PTL DEF SeatSpec

=============================================================================
