----------------------------- MODULE ThreadProofs -----------------------------
(***************************************************************************)
(* Proofs about what a Thread shows and about the dictation of what is     *)
(* sent to it: Transcript, for any numbers of Turns, blocks, chunks and    *)
(* calls, and Dictation, for any sets of recordings and requests.          *)
(***************************************************************************)
EXTENDS Dictation, Transcript, WellFoundedInduction, TLAPS

-----------------------------------------------------------------------------
(* Dictation. *)

\* Every stop and cancel is on a recording.
RequestsAreOn ==
  \A q \in Requests : request[q].op # "none" => request[q].on \in Recordings

\* A cancel request has marked its recording.
CancelsMark ==
  \A c \in Requests : request[c].op = "cancel" => request[c].on \in cancelled

\* voxtype has no more to write of words that were handed out, and hears nothing before a start.
HandedOut ==
  /\ \A r \in Recordings : start[r] \in {"new", "clearing"} => voice[r] = "none"
  /\ \A q \in Requests :
       request[q].outcome = "success" => request[q].op # "none" /\ voice[request[q].on] = "made"
  /\ HandedOutIsGone

\* With a client that waits for the answer of a start: a start under way is
\* that of the active recording, and a request is on one that has started.
OneAtATime ==
  ~eager =>
    /\ \A r \in Recordings : Starting(r) => active = r
    /\ \A q \in Requests : request[q].on \in Recordings => start[request[q].on] = "ended"

DictationIInv ==
  /\ TypeOK
  /\ ActiveIsShown
  /\ RequestsAreOn
  /\ CancelsMark
  /\ HandedOut
  /\ OneAtATime
  /\ ShownIsOwned

--------------------------------------------------------------------------------
\* A start begins only when no recording is active.
LEMMA StartStep ==
  ASSUME DictationIInv, NEW r \in Recordings, Start(r)
  PROVE  DictationIInv'
<1>1. TypeOK'
  BY DictationAssumption DEF DictationIInv, TypeOK, Request, Outcomes, Start
<1>2. ActiveIsShown'
  BY DictationAssumption DEF DictationIInv, TypeOK, ActiveIsShown, Starting, Start
<1>3. RequestsAreOn'
  BY DictationAssumption DEF DictationIInv, TypeOK, RequestsAreOn, Start
<1>4. CancelsMark'
  BY DictationAssumption DEF DictationIInv, TypeOK, CancelsMark, Start
<1>5. HandedOut'
  BY DictationAssumption DEF DictationIInv, TypeOK, HandedOut, HandedOutIsGone, RequestsAreOn, Request,
                             Start
<1>6. OneAtATime'
  BY DictationAssumption DEF DictationIInv, TypeOK, OneAtATime, Starting, Start
<1>7. ShownIsOwned'
  BY DictationAssumption DEF DictationIInv, TypeOK, ShownIsOwned, OneAtATime, Starting, Start
<1> QED BY <1>1, <1>2, <1>3, <1>4, <1>5, <1>6, <1>7 DEF DictationIInv

\* The start goes on, or cannot.
LEMMA StartSpawnsStep ==
  ASSUME DictationIInv, NEW r \in Recordings, StartSpawns(r)
  PROVE  DictationIInv'
<1>1. TypeOK'
  BY DictationAssumption DEF DictationIInv, TypeOK, Request, Outcomes, StartSpawns
<1>2. ActiveIsShown'
  BY DictationAssumption DEF DictationIInv, TypeOK, ActiveIsShown, Starting, StartSpawns
<1>3. RequestsAreOn'
  BY DictationAssumption DEF DictationIInv, TypeOK, RequestsAreOn, StartSpawns
<1>4. CancelsMark'
  BY DictationAssumption DEF DictationIInv, TypeOK, CancelsMark, StartSpawns
<1>5. HandedOut'
  BY DictationAssumption DEF DictationIInv, TypeOK, HandedOut, HandedOutIsGone, RequestsAreOn, Request,
                             StartSpawns
<1>6. OneAtATime'
  BY DictationAssumption DEF DictationIInv, TypeOK, OneAtATime, Starting, StartSpawns
<1>7. ShownIsOwned'
  BY DictationAssumption DEF DictationIInv, TypeOK, ShownIsOwned, OneAtATime, Starting, StartSpawns
<1> QED BY <1>1, <1>2, <1>3, <1>4, <1>5, <1>6, <1>7 DEF DictationIInv

\* The command has started the recording.
LEMMA StartSucceedsStep ==
  ASSUME DictationIInv, NEW r \in Recordings, StartSucceeds(r)
  PROVE  DictationIInv'
<1>1. TypeOK'
  BY DictationAssumption DEF DictationIInv, TypeOK, Request, Outcomes, StartSucceeds
<1>2. ActiveIsShown'
  BY DictationAssumption DEF DictationIInv, TypeOK, ActiveIsShown, Starting, StartSucceeds
<1>3. RequestsAreOn'
  BY DictationAssumption DEF DictationIInv, TypeOK, RequestsAreOn, StartSucceeds
<1>4. CancelsMark'
  BY DictationAssumption DEF DictationIInv, TypeOK, CancelsMark, StartSucceeds
<1>5. HandedOut'
  BY DictationAssumption DEF DictationIInv, TypeOK, HandedOut, HandedOutIsGone, RequestsAreOn, Request,
                             StartSucceeds
<1>6. OneAtATime'
  BY DictationAssumption DEF DictationIInv, TypeOK, OneAtATime, Starting, StartSucceeds
<1>7. ShownIsOwned'
  BY DictationAssumption DEF DictationIInv, TypeOK, ShownIsOwned, OneAtATime, Starting, StartSucceeds
<1> QED BY <1>1, <1>2, <1>3, <1>4, <1>5, <1>6, <1>7 DEF DictationIInv

\* The start command fails.
LEMMA StartCommandFailsStep ==
  ASSUME DictationIInv, NEW r \in Recordings, StartCommandFails(r)
  PROVE  DictationIInv'
<1>1. TypeOK'
  BY DictationAssumption DEF DictationIInv, TypeOK, Request, Outcomes, StartCommandFails
<1>2. ActiveIsShown'
  BY DictationAssumption DEF DictationIInv, TypeOK, ActiveIsShown, Starting, StartCommandFails
<1>3. RequestsAreOn'
  BY DictationAssumption DEF DictationIInv, TypeOK, RequestsAreOn, StartCommandFails
<1>4. CancelsMark'
  BY DictationAssumption DEF DictationIInv, TypeOK, CancelsMark, StartCommandFails
<1>5. HandedOut'
  BY DictationAssumption DEF DictationIInv, TypeOK, HandedOut, HandedOutIsGone, RequestsAreOn, Request,
                             StartCommandFails
<1>6. OneAtATime'
  BY DictationAssumption DEF DictationIInv, TypeOK, OneAtATime, Starting, StartCommandFails
<1>7. ShownIsOwned'
  BY DictationAssumption DEF DictationIInv, TypeOK, ShownIsOwned, OneAtATime, Starting,
                             StartCommandFails
<1> QED BY <1>1, <1>2, <1>3, <1>4, <1>5, <1>6, <1>7 DEF DictationIInv

\* A failed start clears #active.
LEMMA StartFailsStep ==
  ASSUME DictationIInv, NEW r \in Recordings, StartFails(r)
  PROVE  DictationIInv'
<1>1. TypeOK'
  BY DictationAssumption DEF DictationIInv, TypeOK, Request, Outcomes, StartFails
<1>2. ActiveIsShown'
  BY DictationAssumption DEF DictationIInv, TypeOK, ActiveIsShown, Starting, StartFails
<1>3. RequestsAreOn'
  BY DictationAssumption DEF DictationIInv, TypeOK, RequestsAreOn, StartFails
<1>4. CancelsMark'
  BY DictationAssumption DEF DictationIInv, TypeOK, CancelsMark, StartFails
<1>5. HandedOut'
  BY DictationAssumption DEF DictationIInv, TypeOK, HandedOut, HandedOutIsGone, RequestsAreOn, Request,
                             StartFails
<1>6. OneAtATime'
  BY DictationAssumption DEF DictationIInv, TypeOK, OneAtATime, Starting, StartFails
<1>7. ShownIsOwned'
  BY DictationAssumption DEF DictationIInv, TypeOK, ShownIsOwned, OneAtATime, Starting, StartFails
<1> QED BY <1>1, <1>2, <1>3, <1>4, <1>5, <1>6, <1>7 DEF DictationIInv

\* A stop shows that it transcribes.
LEMMA StopStep ==
  ASSUME DictationIInv, NEW q \in Requests, Stop(q)
  PROVE  DictationIInv'
<1>1. TypeOK'
  BY DictationAssumption DEF DictationIInv, TypeOK, Request, Outcomes, Stop, Arrives
<1>2. ActiveIsShown'
  BY DictationAssumption DEF DictationIInv, TypeOK, ActiveIsShown, Starting, Stop, Arrives
<1>3. RequestsAreOn'
  BY DictationAssumption DEF DictationIInv, TypeOK, RequestsAreOn, Stop, Arrives
<1>4. CancelsMark'
  BY DictationAssumption DEF DictationIInv, TypeOK, CancelsMark, Stop, Arrives
<1>5. HandedOut'
  BY DictationAssumption DEF DictationIInv, TypeOK, HandedOut, HandedOutIsGone, RequestsAreOn, Request,
                             Stop, Arrives
<1>6. OneAtATime'
  BY DictationAssumption DEF DictationIInv, TypeOK, OneAtATime, Starting, Stop, Arrives
<1>7. ShownIsOwned'
  BY DictationAssumption DEF DictationIInv, TypeOK, ShownIsOwned, OneAtATime, Starting, Stop, Arrives
<1> QED BY <1>1, <1>2, <1>3, <1>4, <1>5, <1>6, <1>7 DEF DictationIInv

\* voxtype writes the transcript it was asked for.
LEMMA TranscriptWrittenStep ==
  ASSUME DictationIInv, NEW r \in Recordings, TranscriptWritten(r)
  PROVE  DictationIInv'
<1>1. TypeOK'
  BY DictationAssumption DEF DictationIInv, TypeOK, Request, Outcomes, RequestsAreOn, TranscriptWritten
<1>2. ActiveIsShown'
  BY DictationAssumption DEF DictationIInv, TypeOK, ActiveIsShown, Starting, TranscriptWritten
<1>3. RequestsAreOn'
  BY DictationAssumption DEF DictationIInv, TypeOK, RequestsAreOn, TranscriptWritten
<1>4. CancelsMark'
  BY DictationAssumption DEF DictationIInv, TypeOK, CancelsMark, TranscriptWritten
<1>5. HandedOut'
  BY DictationAssumption DEF DictationIInv, TypeOK, HandedOut, HandedOutIsGone, RequestsAreOn, Request,
                             TranscriptWritten
<1>6. OneAtATime'
  BY DictationAssumption DEF DictationIInv, TypeOK, OneAtATime, Starting, TranscriptWritten
<1>7. ShownIsOwned'
  BY DictationAssumption DEF DictationIInv, TypeOK, ShownIsOwned, OneAtATime, Starting,
                             TranscriptWritten
<1> QED BY <1>1, <1>2, <1>3, <1>4, <1>5, <1>6, <1>7 DEF DictationIInv

\* The stop's command ends.
LEMMA StopEndsStep ==
  ASSUME DictationIInv, NEW q \in Requests, StopEnds(q)
  PROVE  DictationIInv'
<1>1. TypeOK'
  <2>1. PICK result \in {"success", "empty", "timeout", "failure"} :
          request' = [request EXCEPT ![q].at = "cleaning",
                                     ![q].outcome = StopOutcome(q, result)]
    BY DEF StopEnds
  <2>2. StopOutcome(q, result) \in Outcomes
    BY DEF StopOutcome, Outcomes
  <2>3. request[q] \in Request
    BY DEF DictationIInv, TypeOK
  <2>4. [request[q] EXCEPT !.at = "cleaning", !.outcome = StopOutcome(q, result)] \in Request
    BY <2>2, <2>3 DEF Request
  <2>5. request' \in [Requests -> Request]
    BY <2>1, <2>4 DEF DictationIInv, TypeOK
  <2> QED BY <2>5 DEF DictationIInv, TypeOK, StopEnds, Voiced
<1>2. ActiveIsShown'
  BY DictationAssumption DEF DictationIInv, TypeOK, ActiveIsShown, Starting, StopEnds, StopOutcome,
                             Voiced
<1>3. RequestsAreOn'
  BY DictationAssumption DEF DictationIInv, TypeOK, RequestsAreOn, StopEnds, StopOutcome, Voiced
<1>4. CancelsMark'
  BY DictationAssumption DEF DictationIInv, TypeOK, CancelsMark, StopEnds, StopOutcome, Voiced
<1>5. HandedOut'
  BY DictationAssumption DEF DictationIInv, TypeOK, HandedOut, HandedOutIsGone, RequestsAreOn, Request,
                             StopEnds, StopOutcome, Voiced
<1>6. OneAtATime'
  BY DictationAssumption DEF DictationIInv, TypeOK, OneAtATime, Starting, StopEnds, StopOutcome, Voiced
<1>7. ShownIsOwned'
  BY DictationAssumption DEF DictationIInv, TypeOK, ShownIsOwned, OneAtATime, Starting, StopEnds,
                             StopOutcome, Voiced
<1> QED BY <1>1, <1>2, <1>3, <1>4, <1>5, <1>6, <1>7 DEF DictationIInv

\* A cancel marks the active recording.
LEMMA CancelStep ==
  ASSUME DictationIInv, NEW q \in Requests, Cancel(q)
  PROVE  DictationIInv'
<1>1. TypeOK'
  BY DictationAssumption DEF DictationIInv, TypeOK, Request, Outcomes, Cancel, Arrives
<1>2. ActiveIsShown'
  BY DictationAssumption DEF DictationIInv, TypeOK, ActiveIsShown, Starting, Cancel, Arrives
<1>3. RequestsAreOn'
  BY DictationAssumption DEF DictationIInv, TypeOK, RequestsAreOn, Cancel, Arrives
<1>4. CancelsMark'
  BY DictationAssumption DEF DictationIInv, TypeOK, CancelsMark, Cancel, Arrives
<1>5. HandedOut'
  BY DictationAssumption DEF DictationIInv, TypeOK, HandedOut, HandedOutIsGone, RequestsAreOn, Request,
                             Cancel, Arrives
<1>6. OneAtATime'
  BY DictationAssumption DEF DictationIInv, TypeOK, OneAtATime, Starting, Cancel, Arrives
<1>7. ShownIsOwned'
  BY DictationAssumption DEF DictationIInv, TypeOK, ShownIsOwned, OneAtATime, Starting, Cancel, Arrives
<1> QED BY <1>1, <1>2, <1>3, <1>4, <1>5, <1>6, <1>7 DEF DictationIInv

\* The cancel's command ends.
LEMMA CancelEndsStep ==
  ASSUME DictationIInv, NEW q \in Requests, CancelEnds(q)
  PROVE  DictationIInv'
<1>1. TypeOK'
  BY DictationAssumption DEF DictationIInv, TypeOK, Request, Outcomes, CancelEnds
<1>2. ActiveIsShown'
  BY DictationAssumption DEF DictationIInv, TypeOK, ActiveIsShown, Starting, CancelEnds
<1>3. RequestsAreOn'
  BY DictationAssumption DEF DictationIInv, TypeOK, RequestsAreOn, CancelEnds
<1>4. CancelsMark'
  BY DictationAssumption DEF DictationIInv, TypeOK, CancelsMark, CancelEnds
<1>5. HandedOut'
  BY DictationAssumption DEF DictationIInv, TypeOK, HandedOut, HandedOutIsGone, RequestsAreOn, Request,
                             CancelEnds
<1>6. OneAtATime'
  BY DictationAssumption DEF DictationIInv, TypeOK, OneAtATime, Starting, CancelEnds
<1>7. ShownIsOwned'
  BY DictationAssumption DEF DictationIInv, TypeOK, ShownIsOwned, OneAtATime, Starting, CancelEnds
<1> QED BY <1>1, <1>2, <1>3, <1>4, <1>5, <1>6, <1>7 DEF DictationIInv

\* A request cleans up and releases its recording.
LEMMA CleanedStep ==
  ASSUME DictationIInv, NEW q \in Requests, Cleaned(q)
  PROVE  DictationIInv'
<1>1. TypeOK'
  BY DictationAssumption DEF DictationIInv, TypeOK, Request, Outcomes, Cleaned, Shown, Resting,
                             Releases, Removed
<1>2. ActiveIsShown'
  BY DictationAssumption DEF DictationIInv, TypeOK, ActiveIsShown, Starting, Cleaned, Shown, Resting,
                             Releases, Removed
<1>3. RequestsAreOn'
  BY DictationAssumption DEF DictationIInv, TypeOK, RequestsAreOn, Cleaned, Shown, Resting, Releases,
                             Removed
<1>4. CancelsMark'
  BY DictationAssumption DEF DictationIInv, TypeOK, CancelsMark, Cleaned, Shown, Resting, Releases,
                             Removed
<1>5. HandedOut'
  BY DictationAssumption DEF DictationIInv, TypeOK, HandedOut, HandedOutIsGone, RequestsAreOn, Request,
                             Cleaned, Shown, Resting,
                             Releases, Removed
<1>6. OneAtATime'
  BY DictationAssumption DEF DictationIInv, TypeOK, OneAtATime, Starting, Cleaned, Shown, Resting,
                             Releases, Removed
<1>7. ShownIsOwned'
  BY DictationAssumption DEF DictationIInv, TypeOK, ShownIsOwned, OneAtATime, Starting, Cleaned, Shown,
                             Resting, Releases, Removed
<1> QED BY <1>1, <1>2, <1>3, <1>4, <1>5, <1>6, <1>7 DEF DictationIInv

-------------------------------------------------------------------------------
\* At start-up nothing is recorded and nothing requested.
LEMMA DictationInit == Init => DictationIInv
  BY DictationAssumption
  DEF Init, DictationIInv, TypeOK, Request, NewRequest, Outcomes, ActiveIsShown,
      RequestsAreOn, CancelsMark, HandedOut, HandedOutIsGone, OneAtATime, ShownIsOwned, Starting

\* Every step keeps the strengthened invariant.
LEMMA DictationNext ==
  ASSUME DictationIInv, [Next]_vars
  PROVE  DictationIInv'
<1>1. ASSUME NEW r \in Recordings,
             \/ Start(r) \/ StartSpawns(r) \/ StartSucceeds(r)
             \/ StartCommandFails(r) \/ StartFails(r) \/ TranscriptWritten(r)
      PROVE  DictationIInv'
  BY <1>1, StartStep, StartSpawnsStep, StartSucceedsStep, StartCommandFailsStep, StartFailsStep,
     TranscriptWrittenStep
<1>2. ASSUME NEW q \in Requests,
             \/ Stop(q) \/ StopEnds(q)
             \/ Cancel(q) \/ CancelEnds(q) \/ Cleaned(q)
      PROVE  DictationIInv'
  BY <1>2, StopStep, StopEndsStep, CancelStep, CancelEndsStep, CleanedStep
<1>3. CASE UNCHANGED vars
  BY <1>3 DEF vars, DictationIInv, TypeOK, ActiveIsShown, RequestsAreOn, CancelsMark,
              HandedOut, HandedOutIsGone, OneAtATime, ShownIsOwned, Starting
<1> QED BY <1>1, <1>2, <1>3 DEF Next

\* The strengthened invariant holds in every reachable state.
THEOREM DictationInvariant == Spec => []DictationIInv
<1>1. DictationIInv /\ [Next]_vars => DictationIInv'
  BY DictationNext
<1> QED BY DictationInit, <1>1, PTL DEF Spec

\* Every variable of DictationService keeps its type.
THEOREM TypeCorrect == Spec => []TypeOK
<1>1. DictationIInv => TypeOK
  BY DEF DictationIInv
<1> QED BY <1>1, DictationInvariant, PTL

\* #state shows the active recording, whatever ends late.
THEOREM ActiveShown == Spec => []ActiveIsShown
<1>1. DictationIInv => ActiveIsShown
  BY DEF DictationIInv
<1> QED BY <1>1, DictationInvariant, PTL

\* A client that waits for the answer of a start is never shown a recording
\* that is not active.
THEOREM ShownOwned == Spec => []ShownIsOwned
<1>1. DictationIInv => ShownIsOwned
  BY DEF DictationIInv
<1> QED BY <1>1, DictationInvariant, PTL

\* The words that were handed out are on disk no more (#removeArtifacts).
THEOREM TranscriptsRemoved == Spec => []HandedOutIsGone
<1>1. DictationIInv => HandedOutIsGone
  BY DEF DictationIInv, HandedOut
<1> QED BY <1>1, DictationInvariant, PTL

\* State and files together (#state, #active and the removal of artifacts).
THEOREM TruthIsShown == Spec => []ShowsTheTruth
<1>1. TypeOK /\ ActiveIsShown /\ ShownIsOwned /\ HandedOutIsGone => ShowsTheTruth
  BY DEF ShowsTheTruth
<1> QED BY <1>1, TypeCorrect, ActiveShown, ShownOwned, TranscriptsRemoved, PTL

\* A stop that is overtaken by a cancel hands out no transcript.
THEOREM CancelledIsSilent == Spec => CancelWins
<1> DEFINE Silent ==
      \A q, c \in Requests :
        /\ request[c].op = "cancel" /\ request[c].on = request[q].on
        /\ request[q].op = "stop" /\ request[q].outcome = "none"
        => request'[q].outcome # "success"
<1>1. DictationIInv /\ [Next]_vars => [Silent]_vars
  <2> SUFFICES ASSUME DictationIInv, Next, NEW q \in Requests, NEW c \in Requests,
                      request[c].op = "cancel", request[c].on = request[q].on,
                      request[q].op = "stop", request[q].outcome = "none"
               PROVE  request'[q].outcome # "success"
    OBVIOUS
  <2>1. request[q].on \in cancelled
    BY DEF DictationIInv, CancelsMark
  <2>2. request[q] \in Request /\ request \in [Requests -> Request]
    BY DEF DictationIInv, TypeOK
  <2>3. ASSUME NEW r \in Recordings,
               \/ Start(r) \/ StartSpawns(r) \/ StartSucceeds(r)
               \/ StartCommandFails(r) \/ StartFails(r) \/ TranscriptWritten(r)
        PROVE  request' = request
    BY <2>3 DEF Start, StartSpawns, StartSucceeds, StartCommandFails, StartFails, TranscriptWritten
  <2>4. ASSUME NEW p \in Requests, Stop(p) \/ CancelEnds(p) \/ Cleaned(p)
        PROVE  request'[q].outcome # "success"
    BY <2>2, <2>4 DEF Stop, Arrives, CancelEnds, Cleaned, Request
  <2>5. ASSUME NEW p \in Requests, Cancel(p)
        PROVE  request'[q].outcome # "success"
    BY <2>2, <2>5 DEF Cancel, Arrives, Request
  <2>6. ASSUME NEW p \in Requests, StopEnds(p)
        PROVE  request'[q].outcome # "success"
    BY <2>1, <2>2, <2>6 DEF StopEnds, StopOutcome, Request
  <2> QED BY <2>3, <2>4, <2>5, <2>6 DEF Next
<1> QED BY <1>1, DictationInvariant, PTL DEF Spec, CancelWins

\* With a client that waits for the answer of a start, a recording is ended
\* by its own stop, its own cancel or its own failed start (#release).
THEOREM OwnEnds == Spec => EndedByItsOwn
<1> DEFINE Own ==
      ~eager => \A r \in Recordings : active = r /\ active' # r =>
        \/ \E q \in Requests : request[q].on = r /\ request[q].at = "cleaning"
        \/ start[r] \in {"spawnFailed", "failed"}
<1>1. DictationIInv /\ [Next]_vars => [Own]_vars
  <2> SUFFICES ASSUME DictationIInv, Next, ~eager, active \in Recordings, active' # active
               PROVE  \/ \E q \in Requests : request[q].on = active /\ request[q].at = "cleaning"
                      \/ start[active] \in {"spawnFailed", "failed"}
    OBVIOUS
  <2>1. ASSUME NEW r \in Recordings, StartFails(r)
        PROVE  start[active] \in {"spawnFailed", "failed"}
    BY <2>1 DEF DictationIInv, OneAtATime, Starting, StartFails
  <2>2. ASSUME NEW r \in Recordings,
               \/ Start(r) \/ StartSpawns(r) \/ StartSucceeds(r) \/ StartCommandFails(r)
               \/ TranscriptWritten(r)
        PROVE  FALSE
    BY <2>2, DictationAssumption DEF Start, StartSpawns, StartSucceeds, StartCommandFails,
                                     TranscriptWritten
  <2>3. ASSUME NEW p \in Requests,
               Stop(p) \/ StopEnds(p) \/ Cancel(p) \/ CancelEnds(p)
        PROVE  FALSE
    BY <2>3 DEF Stop, StopEnds, Cancel, CancelEnds
  <2>4. ASSUME NEW p \in Requests, Cleaned(p)
        PROVE  request[p].on = active /\ request[p].at = "cleaning"
    BY <2>4 DEF Cleaned, Releases
  <2> QED BY <2>1, <2>2, <2>3, <2>4 DEF Next
<1> QED BY <1>1, DictationInvariant, PTL DEF Spec, EndedByItsOwn

-----------------------------------------------------------------------------
(* Transcript. *)

\* What the pipe from the worker carries, and a row of the transcript.
ToolEvents == {"tool.started", "tool.updated", "tool.completed", "tool.failed", "request", "cancel"}
BlockEvents == Kinds \cup {"delta", "end"}
Events ==
  [type : BlockEvents \cup ToolEvents \cup {"turn.completed", "turn.cancelled", "error"},
   turn : TurnIds, key : Nat \cup Calls, n : Nat]
Rows ==
  [turn : TurnIds, kind : Kinds \cup {"tool"}, key : Nat \cup Calls,
   state : {"streaming", "running", "completed", "failed"}, text : Nat, seq : Nat \ {0}]
Sessions ==
  [phase : {"running", "finished", "closed"}, block : [Kinds -> Nat], text : [Kinds -> Nat],
   blocks : Nat, tool : [Calls -> {"none", "running", "asking", "answered"}], closing : BOOLEAN]

Natives ==
  [texts : SUBSET (Nat \X Nat \X Nat), lossy : SUBSET TurnIds, events : Nat, lapses : Nat]

TranscriptTyped ==
  /\ rows \subseteq Rows
  /\ turn \in [latest : 0..MaxTurns, working : BOOLEAN]
  /\ ctx \in [turn : {NoTurn} \cup TurnIds, started : SUBSET Calls, dispatched : SUBSET Calls]
  /\ ready \in BOOLEAN
  /\ sess \in [TurnIds -> Sessions]
  /\ serving \subseteq TurnIds \X Calls
  /\ native \in Natives

\* An event names a call or a block, and a Turn that began, of which n was the last.
EventFits(e, n) ==
  /\ e \in Events /\ e.turn <= n
  /\ e.type \in ToolEvents => e.key \in Calls
  /\ e.type \in BlockEvents => e.key \in Nat
PipeFits(u, n) == u \in Seq(Events) /\ \A i \in DOMAIN u : EventFits(u[i], n)

\* The Turn that works is the latest, its session is there, and there is nothing of later ones.
WorkIsLatest ==
  /\ turn.working <=> ctx.turn # NoTurn
  /\ ctx.turn # NoTurn => /\ ctx.turn = turn.latest
                          /\ sess[ctx.turn].phase # "closed" /\ ~sess[ctx.turn].closing
  /\ ctx.turn = NoTurn => ctx.started = {}
NothingAhead ==
  /\ \A r \in rows : r.turn <= turn.latest
  /\ \A r \in serving : r[1] <= turn.latest
  /\ \A t \in TurnIds : t > turn.latest => sess[t] = ClosedSession

\* Places and blocks are taken once; a block streams until it is completed.
RowsFit ==
  /\ \E n \in Nat : \A r \in rows : r.seq <= n
  /\ \A r, q \in rows : q.seq = r.seq => q = r
  /\ \A r, q \in rows : r.kind \in Kinds /\ IsBlock(q, r.turn, r.key) => q = r
  /\ \A r \in rows : r.kind \in Kinds => r.state \in {"streaming", "completed"}

\* A call that was seen to start, or that is served, has its row.
CallHasRow(t, c) == \E q \in rows : IsToolCall(q, c) /\ q.turn = t
StartedHaveRows == \A c \in ctx.started : CallHasRow(ctx.turn, c)

\* With wire u, requests sv served, Turn w at work, and the call in the given state: a request on
\* the wire is waited for, or its cancel follows it; before the next request of a call that is
\* served or on the wire there is its cancel.
Asks(e, t, c) == e.type = "request" /\ e.turn = t /\ e.key = c
Drops(e, t, c) == e = Event("cancel", t, c, 0)
RequestFits(t, c, u, sv, w, st) ==
  \A i \in DOMAIN u : Asks(u[i], t, c) =>
    /\ <<t, c>> \in sv => \E j \in DOMAIN u : j < i /\ Drops(u[j], t, c)
    /\ w = t =>
         /\ st = "asking" \/ \E j \in DOMAIN u : j > i /\ Drops(u[j], t, c)
         /\ \A j \in DOMAIN u : j > i /\ Asks(u[j], t, c) =>
              \E d \in DOMAIN u : i < d /\ d < j /\ Drops(u[d], t, c)
RequestsFit ==
  \A t \in TurnIds : \A c \in Calls : RequestFits(t, c, wire, serving, ctx.turn, sess[t].tool[c])
ServedFit ==
  \A r \in serving :
    /\ CallHasRow(r[1], r[2])
    /\ sess[r[1]].tool[r[2]] = "asking" \/ Cancelled(r[1], r[2])
    /\ \/ ctx.turn = r[1] /\ r[2] \in ctx.dispatched
       \/ sess[r[1]].closing \/ sess[r[1]].phase = "closed"

\* The events of block b of Turn t.
OfBlock(e, t, b) == e.type \in BlockEvents /\ e.turn = t /\ e.key = b
StartOf(e, t, b) == OfBlock(e, t, b) /\ e.type \in Kinds
EndOf(e, t, b) == OfBlock(e, t, b) /\ e.type = "end"
Adds(e, t, b) == IF e.type = "delta" /\ OfBlock(e, t, b) THEN e.n ELSE 0
\* With the deltas among the first events of u, up to n - 1, the text of a block grows from x to y.
Grows(u, n, t, b, x, y) ==
  \E acc \in [1..n -> Nat] :
    /\ acc[1] = x /\ acc[n] = y
    /\ \A i \in 1..(n - 1) : acc[i + 1] = acc[i] + Adds(u[i], t, b)

BlockShown(rs, t, b) == \E r \in rs : IsBlock(r, t, b)
TextIs(rs, t, b, x) ==
  \/ \E r \in rs : IsBlock(r, t, b) /\ r.text = x
  \/ ~BlockShown(rs, t, b) /\ x = 0

\* Block b of a Turn t that works, with wire u, rows rs, session s, and the texts of the blocks
\* that ended.
StartFits(t, b, u, rs) ==
  /\ BlockShown(rs, t, b) \/ \E i \in DOMAIN u : StartOf(u[i], t, b)
  /\ \A i \in DOMAIN u : StartOf(u[i], t, b) =>
       /\ ~BlockShown(rs, t, b)
       /\ \A j \in DOMAIN u : OfBlock(u[j], t, b) => j >= i
       /\ \A j \in DOMAIN u : StartOf(u[j], t, b) => j = i
EndFits(t, b, u, rs, s, texts) ==
  \A i \in DOMAIN u : EndOf(u[i], t, b) =>
    /\ \A j \in DOMAIN u : OfBlock(u[j], t, b) => j <= i
    /\ \A k \in Kinds : s.block[k] # b
    /\ \E x, y \in Nat : TextIs(rs, t, b, x) /\ Grows(u, i, t, b, x, y) /\ <<t, b, y>> \in texts
RowFits(t, b, u, rs, s) ==
  \A r \in rs : IsBlock(r, t, b) /\ r.state # "streaming" =>
    /\ \A i \in DOMAIN u : ~OfBlock(u[i], t, b)
    /\ \A k \in Kinds : s.block[k] # b
OpenFits(t, b, u, rs, s) ==
  \A k \in Kinds : s.block[k] = b =>
    \E x \in Nat : TextIs(rs, t, b, x) /\ Grows(u, Len(u) + 1, t, b, x, s.text[k])
BlockFits(t, b, u, rs, s, texts) ==
  /\ StartFits(t, b, u, rs) /\ EndFits(t, b, u, rs, s, texts)
  /\ RowFits(t, b, u, rs, s) /\ OpenFits(t, b, u, rs, s)

\* There are no blocks beyond those the session counted; an open one is counted, and open once.
CountFits(t, u, rs, s) ==
  /\ \A i \in DOMAIN u : u[i].turn = t /\ u[i].type \in BlockEvents => u[i].key \in 1..s.blocks
  /\ \A r \in rs : r.turn = t /\ r.kind \in Kinds => r.key \in 1..s.blocks
  /\ \A k \in Kinds : s.block[k] \in 0..s.blocks
  /\ \A k, l \in Kinds : s.block[k] = s.block[l] => k = l \/ s.block[k] = NoTurn

StreamFits(t, u, rs, s, texts) ==
  CountFits(t, u, rs, s) /\ \A b \in 1..s.blocks : BlockFits(t, b, u, rs, s, texts)

StreamsFit ==
  ctx.turn # NoTurn /\ ctx.turn \notin native.lossy =>
    StreamFits(ctx.turn, wire, rows, sess[ctx.turn], native.texts)

TextsWhole ==
  \A r \in rows : /\ r.kind \in Kinds /\ r.state = "completed" /\ r.turn \notin native.lossy
                  => <<r.turn, r.key, r.text>> \in native.texts

TranscriptIInv ==
  /\ TranscriptTyped /\ PipeFits(wire, turn.latest) /\ WorkIsLatest /\ NothingAhead
  /\ RowsFit /\ OnlyWorkIsBusy
  /\ StartedHaveRows /\ RequestsFit /\ ServedFit /\ StreamsFit /\ TextsWhole

-----------------------------------------------------------------------------
\* Event m is written after what is under way.
Put(u, v, m) == v = Append(u, m)
\* The first event of what is under way is read.
Taken(u, v, m) == u # <<>> /\ m = Head(u) /\ v = Tail(u)

\* A list with one more member.
LEMMA OneMore ==
  ASSUME NEW S, NEW q \in Seq(S), NEW m \in S, NEW v, Put(q, v, m)
  PROVE  /\ v \in Seq(S) /\ Len(q) \in Nat /\ Len(v) = Len(q) + 1
         /\ DOMAIN q = 1..Len(q) /\ DOMAIN v = 1..(Len(q) + 1)
         /\ \A i \in DOMAIN q : i \in DOMAIN v /\ v[i] = q[i] /\ i <= Len(q) /\ i \in Nat /\ i > 0
         /\ \A i \in DOMAIN v : i \in DOMAIN q \/ i = Len(q) + 1
         /\ Len(q) + 1 \in DOMAIN v /\ v[Len(q) + 1] = m
<1>0. v = Append(q, m) BY DEF Put
<1>1. v \in Seq(S) /\ Len(v) = Len(q) + 1 BY <1>0
<1>2. Len(q) \in Nat /\ DOMAIN q = 1..Len(q) OBVIOUS
<1>3. DOMAIN v = 1..(Len(q) + 1) BY <1>1
<1>4. \A i \in 1..Len(q) : v[i] = q[i] BY <1>0
<1>5. v[Len(q) + 1] = m BY <1>0
<1> QED BY <1>1, <1>2, <1>3, <1>4, <1>5

\* A list without its first member.
LEMMA OneLess ==
  ASSUME NEW S, NEW q \in Seq(S), NEW v, NEW m, Taken(q, v, m)
  PROVE  /\ v \in Seq(S) /\ Len(v) \in Nat /\ Len(q) = Len(v) + 1 /\ m \in S
         /\ DOMAIN q = 1..Len(q) /\ DOMAIN v = 1..Len(v) /\ 1 \in DOMAIN q /\ q[1] = m
         /\ \A i \in DOMAIN v : /\ i \in Nat /\ i > 0 /\ i + 1 \in DOMAIN q /\ i + 1 # 1
                                /\ v[i] = q[i + 1]
         /\ \A i \in DOMAIN q : /\ i \in Nat /\ i > 0
                                /\ i # 1 => i - 1 \in DOMAIN v /\ v[i - 1] = q[i]
<1>0. q # <<>> /\ m = Head(q) /\ v = Tail(q) BY DEF Taken
<1>1. Len(q) \in Nat /\ Len(q) # 0 /\ DOMAIN q = 1..Len(q) BY <1>0
<1>2. v \in Seq(S) /\ Len(v) = Len(q) - 1 BY <1>0, <1>1
<1>3. DOMAIN v = 1..(Len(q) - 1) BY <1>2
<1>4. \A i \in 1..(Len(q) - 1) : v[i] = q[i + 1] BY <1>0, <1>1
<1>5. q[1] = m BY <1>0, <1>1
<1>6. m \in S BY <1>1, <1>5
<1> QED BY <1>1, <1>2, <1>3, <1>4, <1>5, <1>6

\* What an event adds to the text of a block is a number.
LEMMA AddsNat ==
  ASSUME NEW e \in Events, NEW t, NEW b
  PROVE  Adds(e, t, b) \in Nat
BY DEF Events, Adds

\* A text that grows along a list does so along a longer one, and by what the new event adds.
LEMMA GrowsMore ==
  ASSUME NEW u \in Seq(Events), NEW m \in Events, NEW v, Put(u, v, m),
         NEW t, NEW b, NEW x \in Nat, NEW y \in Nat
  PROVE  /\ \A n \in 1..(Len(u) + 1) : Grows(u, n, t, b, x, y) => Grows(v, n, t, b, x, y)
         /\ Grows(u, Len(u) + 1, t, b, x, y) => Grows(v, Len(v) + 1, t, b, x, y + Adds(m, t, b))
<1>1. /\ Len(u) \in Nat /\ Len(v) = Len(u) + 1 /\ DOMAIN u = 1..Len(u)
      /\ \A i \in 1..Len(u) : v[i] = u[i]
      /\ v[Len(u) + 1] = m
  <2> HIDE DEF Events
  <2> QED BY OneMore
<1>2. ASSUME NEW n \in 1..(Len(u) + 1), Grows(u, n, t, b, x, y)
      PROVE  Grows(v, n, t, b, x, y)
  <2>1. PICK acc \in [1..n -> Nat] : /\ acc[1] = x /\ acc[n] = y
                                     /\ \A i \in 1..(n - 1) : acc[i + 1] = acc[i] + Adds(u[i], t, b)
    BY <1>2 DEF Grows
  <2>2. \A i \in 1..(n - 1) : v[i] = u[i] BY <1>1
  <2> QED BY <2>1, <2>2 DEF Grows
<1>3. ASSUME Grows(u, Len(u) + 1, t, b, x, y)
      PROVE  Grows(v, Len(v) + 1, t, b, x, y + Adds(m, t, b))
  <2> DEFINE n == Len(u) + 1
  <2>0. n \in Nat /\ n > 0 /\ Len(v) + 1 = n + 1 BY <1>1
  <2>1. PICK acc \in [1..n -> Nat] : /\ acc[1] = x /\ acc[n] = y
                                     /\ \A i \in 1..(n - 1) : acc[i + 1] = acc[i] + Adds(u[i], t, b)
    BY <1>3 DEF Grows
  <2>2. Adds(m, t, b) \in Nat /\ v[n] = m BY AddsNat, <1>1
  <2>3. \A i \in 1..(n - 1) : v[i] = u[i] BY <1>1
  <2> HIDE DEF n
  <2> DEFINE more == [i \in 1..(n + 1) |-> IF i = n + 1 THEN y + Adds(m, t, b) ELSE acc[i]]
  <2>4. more \in [1..(n + 1) -> Nat] BY <2>0, <2>1, <2>2
  <2>5. more[1] = x /\ more[n + 1] = y + Adds(m, t, b) BY <2>0, <2>1
  <2>6. ASSUME NEW i \in 1..n PROVE more[i + 1] = more[i] + Adds(v[i], t, b)
    <3>1. CASE i = n
      <4>1. more[i + 1] = y + Adds(m, t, b) /\ more[i] = acc[n] BY <3>1, <2>0
      <4> QED BY <4>1, <3>1, <2>1, <2>2
    <3>2. CASE i # n
      <4>1. i \in 1..(n - 1) /\ i + 1 # n + 1 /\ i # n + 1 /\ i + 1 \in 1..(n + 1) /\ i \in 1..(n + 1)
        BY <3>2, <2>0
      <4>2. more[i + 1] = acc[i + 1] /\ more[i] = acc[i] BY <4>1
      <4> QED BY <4>1, <4>2, <2>1, <2>3
    <3> QED BY <3>1, <3>2
  <2> HIDE DEF more
  <2>7. (n + 1) - 1 = n BY <2>0
  <2>8. Grows(v, n + 1, t, b, x, y + Adds(m, t, b)) BY <2>4, <2>5, <2>6, <2>7 DEF Grows
  <2> QED BY <2>8, <2>0
<1> QED BY <1>2, <1>3

\* When the first event is read the text has grown by what it adds.
LEMMA GrowsLess ==
  ASSUME NEW u \in Seq(Events), NEW v, NEW m, Taken(u, v, m), NEW t, NEW b,
         NEW x \in Nat, NEW y \in Nat, NEW n \in 1..(Len(v) + 1), Grows(u, n + 1, t, b, x, y)
  PROVE  Grows(v, n, t, b, x + Adds(m, t, b), y)
<1>1. /\ Len(v) \in Nat /\ u[1] = m /\ m \in Events /\ DOMAIN v = 1..Len(v)
      /\ \A i \in 1..Len(v) : v[i] = u[i + 1]
  <2> HIDE DEF Events
  <2> QED BY OneLess
<1>2. n \in Nat /\ n > 0 /\ n <= Len(v) + 1 BY <1>1
<1>3. PICK acc \in [1..(n + 1) -> Nat] :
         /\ acc[1] = x /\ acc[n + 1] = y
         /\ \A i \in 1..((n + 1) - 1) : acc[i + 1] = acc[i] + Adds(u[i], t, b)
  BY DEF Grows
<1>4. \A i \in 1..n : acc[i + 1] = acc[i] + Adds(u[i], t, b) BY <1>2, <1>3
<1> DEFINE less == [i \in 1..n |-> acc[i + 1]]
<1>5. less \in [1..n -> Nat] BY <1>2, <1>3
<1>6. less[1] = x + Adds(m, t, b) /\ less[n] = y BY <1>2, <1>4, <1>1, <1>3
<1>7. ASSUME NEW i \in 1..(n - 1) PROVE less[i + 1] = less[i] + Adds(v[i], t, b)
  <2>1. i \in 1..n /\ i + 1 \in 1..n /\ i \in 1..Len(v) BY <1>1, <1>2
  <2>2. less[i + 1] = acc[(i + 1) + 1] /\ less[i] = acc[i + 1] BY <2>1
  <2>3. acc[(i + 1) + 1] = acc[i + 1] + Adds(u[i + 1], t, b) BY <2>1, <1>4
  <2> QED BY <2>1, <2>2, <2>3, <1>1
<1> HIDE DEF less
<1> QED BY <1>5, <1>6, <1>7 DEF Grows

\* No event, no growth.
LEMMA GrowsNone ==
  ASSUME NEW u, NEW t, NEW b, NEW x
  PROVE  /\ \A y : Grows(u, 1, t, b, x, y) => x = y
         /\ x \in Nat => Grows(u, 1, t, b, x, x)
<1>1. \A y : Grows(u, 1, t, b, x, y) => x = y BY DEF Grows
<1>2. ASSUME x \in Nat PROVE Grows(u, 1, t, b, x, x)
  <2> DEFINE acc == [i \in 1..1 |-> x]
  <2>1. acc \in [1..1 -> Nat] /\ acc[1] = x BY <1>2
  <2>2. 1..(1 - 1) = {} OBVIOUS
  <2> HIDE DEF acc
  <2> QED BY <2>1, <2>2 DEF Grows
<1> QED BY <1>1, <1>2

-----------------------------------------------------------------------------
\* What else is written leaves a block as it is.
LEMMA BlockMore ==
  ASSUME NEW t, NEW b \in Nat, NEW u \in Seq(Events), NEW m \in Events, NEW v, Put(u, v, m),
         NEW rs, NEW s \in Sessions, NEW texts, ~OfBlock(m, t, b), BlockFits(t, b, u, rs, s, texts)
  PROVE  BlockFits(t, b, v, rs, s, texts)
<1>1. /\ Len(u) \in Nat /\ Len(v) = Len(u) + 1 /\ DOMAIN u = 1..Len(u) /\ DOMAIN v = 1..(Len(u) + 1)
      /\ \A i \in DOMAIN u : i \in DOMAIN v /\ v[i] = u[i] /\ i <= Len(u) /\ i \in Nat /\ i > 0
      /\ \A i \in DOMAIN v : i \in DOMAIN u \/ i = Len(u) + 1
      /\ v[Len(u) + 1] = m
  <2> HIDE DEF Events
  <2> QED BY OneMore
<1>2. \A i \in DOMAIN v : OfBlock(v[i], t, b) => i \in DOMAIN u /\ v[i] = u[i] BY <1>1
<1>3. \A i \in DOMAIN v : StartOf(v[i], t, b) => i \in DOMAIN u /\ v[i] = u[i]
  BY <1>2 DEF StartOf
<1>4. \A i \in DOMAIN v : EndOf(v[i], t, b) => i \in DOMAIN u /\ v[i] = u[i] BY <1>2 DEF EndOf
<1>5. StartFits(t, b, v, rs)
  BY <1>1, <1>2, <1>3 DEF StartFits, BlockFits
<1>6. EndFits(t, b, v, rs, s, texts)
  <2> SUFFICES ASSUME NEW i \in DOMAIN v, EndOf(v[i], t, b)
               PROVE  /\ \A j \in DOMAIN v : OfBlock(v[j], t, b) => j <= i
                      /\ \A k \in Kinds : s.block[k] # b
                      /\ \E x, y \in Nat : /\ TextIs(rs, t, b, x) /\ Grows(v, i, t, b, x, y)
                                           /\ <<t, b, y>> \in texts
    BY DEF EndFits
  <2>1. i \in DOMAIN u /\ EndOf(u[i], t, b) BY <1>4
  <2>2. /\ \A j \in DOMAIN u : OfBlock(u[j], t, b) => j <= i
        /\ \A k \in Kinds : s.block[k] # b
        /\ \E x, y \in Nat : /\ TextIs(rs, t, b, x) /\ Grows(u, i, t, b, x, y)
                             /\ <<t, b, y>> \in texts
    BY <2>1 DEF EndFits, BlockFits
  <2>3. i \in 1..(Len(u) + 1) BY <1>1, <2>1
  <2>4. \A x, y \in Nat : Grows(u, i, t, b, x, y) => Grows(v, i, t, b, x, y) BY <2>3, GrowsMore
  <2> QED BY <1>2, <2>2, <2>4
<1>7. RowFits(t, b, v, rs, s) BY <1>1, <1>2 DEF RowFits, BlockFits
<1>8. OpenFits(t, b, v, rs, s)
  <2> SUFFICES ASSUME NEW k \in Kinds, s.block[k] = b
               PROVE  \E x \in Nat : TextIs(rs, t, b, x) /\ Grows(v, Len(v) + 1, t, b, x, s.text[k])
    BY DEF OpenFits
  <2>1. PICK x \in Nat : TextIs(rs, t, b, x) /\ Grows(u, Len(u) + 1, t, b, x, s.text[k])
    BY DEF OpenFits, BlockFits
  <2>2. s.text[k] \in Nat BY DEF Sessions
  <2>3. Adds(m, t, b) = 0 BY DEF Adds
  <2>4. Grows(v, Len(v) + 1, t, b, x, s.text[k] + Adds(m, t, b)) BY <2>1, <2>2, GrowsMore
  <2>5. s.text[k] + Adds(m, t, b) = s.text[k] BY <2>2, <2>3
  <2> QED BY <2>1, <2>4, <2>5
<1> QED BY <1>5, <1>6, <1>7, <1>8 DEF BlockFits

\* A session that does no more with a block than before leaves it as it is.
LEMMA BlockSession ==
  ASSUME NEW t, NEW b, NEW u, NEW rs, NEW s, NEW z, NEW texts, NEW ends, texts \subseteq ends,
         \A k \in Kinds : z.block[k] = b => s.block[k] = b /\ z.text[k] = s.text[k],
         BlockFits(t, b, u, rs, s, texts)
  PROVE  BlockFits(t, b, u, rs, z, ends)
<1>1. StartFits(t, b, u, rs) BY DEF BlockFits
<1>2. EndFits(t, b, u, rs, z, ends) BY DEF BlockFits, EndFits
<1>3. RowFits(t, b, u, rs, z) BY DEF RowFits, BlockFits
<1>4. OpenFits(t, b, u, rs, z) BY DEF BlockFits, OpenFits
<1> QED BY <1>1, <1>2, <1>3, <1>4 DEF BlockFits

\* The text shown is that of the row of the block.
LEMMA TextOfRows ==
  ASSUME NEW t, NEW b, NEW rs, NEW qs, \A r : IsBlock(r, t, b) => (r \in rs <=> r \in qs)
  PROVE  /\ BlockShown(rs, t, b) <=> BlockShown(qs, t, b)
         /\ \A x : TextIs(rs, t, b, x) <=> TextIs(qs, t, b, x)
<1>1. BlockShown(rs, t, b) <=> BlockShown(qs, t, b) BY DEF BlockShown
<1> QED BY <1>1 DEF TextIs

\* Rows of other things do not matter to a block.
LEMMA BlockRows ==
  ASSUME NEW t, NEW b, NEW u, NEW rs, NEW qs, NEW s, NEW texts,
         \A r : IsBlock(r, t, b) => (r \in rs <=> r \in qs),
         BlockFits(t, b, u, rs, s, texts)
  PROVE  BlockFits(t, b, u, qs, s, texts)
<1>1. /\ BlockShown(rs, t, b) <=> BlockShown(qs, t, b)
      /\ \A x : TextIs(rs, t, b, x) <=> TextIs(qs, t, b, x)
  BY TextOfRows
<1>2. StartFits(t, b, u, qs) BY <1>1 DEF StartFits, BlockFits
<1>3. EndFits(t, b, u, qs, s, texts) BY <1>1 DEF BlockFits, EndFits
<1>4. RowFits(t, b, u, qs, s) BY DEF RowFits, BlockFits
<1>5. OpenFits(t, b, u, qs, s) BY <1>1 DEF BlockFits, OpenFits
<1> QED BY <1>2, <1>3, <1>4, <1>5 DEF BlockFits

\* A block starts.
LEMMA BlockStart ==
  ASSUME NEW t, NEW b \in Nat, NEW u \in Seq(Events), NEW m \in Events, NEW v, Put(u, v, m),
         NEW rs, NEW s, NEW texts, StartOf(m, t, b),
         \A i \in DOMAIN u : ~OfBlock(u[i], t, b), ~BlockShown(rs, t, b),
         \A k \in Kinds : s.block[k] = b => s.text[k] = 0
  PROVE  BlockFits(t, b, v, rs, s, texts)
<1>1. /\ Len(u) \in Nat /\ Len(v) = Len(u) + 1 /\ DOMAIN u = 1..Len(u) /\ DOMAIN v = 1..(Len(u) + 1)
      /\ \A i \in DOMAIN u : i \in DOMAIN v /\ v[i] = u[i]
      /\ \A i \in DOMAIN v : i \in DOMAIN u \/ i = Len(u) + 1
      /\ v[Len(u) + 1] = m /\ Len(u) + 1 \in DOMAIN v
  <2> HIDE DEF Events
  <2> QED BY OneMore
<1>2. \A i \in DOMAIN v : OfBlock(v[i], t, b) => i = Len(u) + 1 BY <1>1
<1>3. OfBlock(m, t, b) /\ m.type \in Kinds /\ m.type # "end" /\ m.type # "delta"
  BY DEF StartOf, Kinds
<1>4. StartFits(t, b, v, rs) BY <1>1, <1>2 DEF StartFits, StartOf
<1>5. EndFits(t, b, v, rs, s, texts) BY <1>1, <1>2, <1>3 DEF EndFits, EndOf
<1>6. RowFits(t, b, v, rs, s) BY DEF RowFits, BlockShown
<1>7. OpenFits(t, b, v, rs, s)
  <2> SUFFICES ASSUME NEW k \in Kinds, s.block[k] = b
               PROVE  \E x \in Nat : TextIs(rs, t, b, x) /\ Grows(v, Len(v) + 1, t, b, x, s.text[k])
    BY DEF OpenFits
  <2>1. TextIs(rs, t, b, 0) /\ s.text[k] = 0 BY DEF TextIs
  <2> DEFINE n == Len(v) + 1
             acc == [i \in 1..n |-> 0]
  <2>2. n \in Nat /\ n > 0 BY <1>1
  <2>3. ASSUME NEW i \in 1..(n - 1) PROVE Adds(v[i], t, b) = 0
    <3>1. i \in DOMAIN v BY <1>1
    <3> QED BY <3>1, <1>1, <1>2, <1>3 DEF Adds
  <2> HIDE DEF n
  <2>4. acc \in [1..n -> Nat] /\ acc[1] = 0 /\ acc[n] = 0 BY <2>2
  <2>5. \A i \in 1..(n - 1) : acc[i + 1] = 0 /\ acc[i] = 0 BY <2>2
  <2> HIDE DEF acc
  <2>6. ASSUME NEW i \in 1..(n - 1) PROVE acc[i + 1] = acc[i] + Adds(v[i], t, b)
    <3>1. acc[i + 1] = 0 /\ acc[i] = 0 /\ Adds(v[i], t, b) = 0 BY <2>3, <2>5
    <3> QED BY <3>1
  <2>7. Grows(v, n, t, b, 0, 0) BY <2>4, <2>6 DEF Grows
  <2> QED BY <2>1, <2>7 DEF n
<1> QED BY <1>4, <1>5, <1>6, <1>7 DEF BlockFits

\* The text of open block b grows by n.
OpenGrows(s, z, b, n) ==
  \A l \in Kinds : z.block[l] = b => s.block[l] = b /\ z.text[l] = s.text[l] + n

\* An open block grows.
LEMMA BlockDelta ==
  ASSUME NEW t, NEW b \in Nat, NEW u \in Seq(Events), NEW m \in Events, NEW v, Put(u, v, m),
         NEW rs, NEW s \in Sessions, NEW z, NEW texts, OfBlock(m, t, b), m.type = "delta",
         BlockFits(t, b, u, rs, s, texts), NEW k \in Kinds, s.block[k] = b,
         OpenGrows(s, z, b, m.n)
  PROVE  BlockFits(t, b, v, rs, z, texts)
<1>1. /\ Len(u) \in Nat /\ Len(v) = Len(u) + 1 /\ DOMAIN u = 1..Len(u) /\ DOMAIN v = 1..(Len(u) + 1)
      /\ \A i \in DOMAIN u : i \in DOMAIN v /\ v[i] = u[i] /\ i <= Len(u) /\ i \in Nat /\ i > 0
      /\ \A i \in DOMAIN v : i \in DOMAIN u \/ i = Len(u) + 1
      /\ v[Len(u) + 1] = m
  <2> HIDE DEF Events
  <2> QED BY OneMore
<1>2. \A i \in DOMAIN u : ~EndOf(u[i], t, b) BY DEF BlockFits, EndFits
<1>3. ~EndOf(m, t, b) /\ ~StartOf(m, t, b) BY DEF EndOf, StartOf, Kinds
<1>4. \A i \in DOMAIN v : StartOf(v[i], t, b) => i \in DOMAIN u /\ v[i] = u[i] BY <1>1, <1>3
<1>5. StartFits(t, b, v, rs) BY <1>1, <1>4 DEF StartFits, BlockFits
<1>6. EndFits(t, b, v, rs, z, texts) BY <1>1, <1>2, <1>3 DEF EndFits
<1>7. RowFits(t, b, v, rs, z) BY DEF RowFits, BlockFits
<1>8. OpenFits(t, b, v, rs, z)
  <2> SUFFICES ASSUME NEW l \in Kinds, z.block[l] = b
               PROVE  \E x \in Nat : TextIs(rs, t, b, x) /\ Grows(v, Len(v) + 1, t, b, x, z.text[l])
    BY DEF OpenFits
  <2>1. s.block[l] = b /\ z.text[l] = s.text[l] + m.n BY DEF OpenGrows
  <2>2. PICK x \in Nat : TextIs(rs, t, b, x) /\ Grows(u, Len(u) + 1, t, b, x, s.text[l])
    BY <2>1 DEF OpenFits, BlockFits
  <2>3. s.text[l] \in Nat BY DEF Sessions
  <2>4. Adds(m, t, b) = m.n BY DEF Adds
  <2>5. Grows(v, Len(v) + 1, t, b, x, s.text[l] + Adds(m, t, b)) BY <2>2, <2>3, GrowsMore
  <2> QED BY <2>1, <2>2, <2>4, <2>5
<1> QED BY <1>5, <1>6, <1>7, <1>8 DEF BlockFits

\* An open block ends, with the text it has.
LEMMA BlockEnd ==
  ASSUME NEW t, NEW b \in Nat, NEW u \in Seq(Events), NEW m \in Events, NEW v, Put(u, v, m),
         NEW rs, NEW s \in Sessions, NEW z, NEW texts, NEW ends, texts \subseteq ends, EndOf(m, t, b),
         BlockFits(t, b, u, rs, s, texts), NEW k \in Kinds, s.block[k] = b,
         <<t, b, s.text[k]>> \in ends, \A l \in Kinds : z.block[l] # b
  PROVE  BlockFits(t, b, v, rs, z, ends)
<1>1. /\ Len(u) \in Nat /\ Len(v) = Len(u) + 1 /\ DOMAIN u = 1..Len(u) /\ DOMAIN v = 1..(Len(u) + 1)
      /\ \A i \in DOMAIN u : i \in DOMAIN v /\ v[i] = u[i] /\ i <= Len(u) /\ i \in Nat /\ i > 0
      /\ \A i \in DOMAIN v : i \in DOMAIN u \/ i = Len(u) + 1
      /\ v[Len(u) + 1] = m
  <2> HIDE DEF Events
  <2> QED BY OneMore
<1>2. \A i \in DOMAIN u : ~EndOf(u[i], t, b) BY DEF BlockFits, EndFits
<1>3. ~StartOf(m, t, b) BY DEF EndOf, StartOf, Kinds
<1>4. \A i \in DOMAIN v : StartOf(v[i], t, b) => i \in DOMAIN u /\ v[i] = u[i] BY <1>1, <1>3
<1>5. StartFits(t, b, v, rs) BY <1>1, <1>4 DEF StartFits, BlockFits
<1>6. EndFits(t, b, v, rs, z, ends)
  <2> SUFFICES ASSUME NEW i \in DOMAIN v, EndOf(v[i], t, b)
               PROVE  /\ \A j \in DOMAIN v : OfBlock(v[j], t, b) => j <= i
                      /\ \E x, y \in Nat : /\ TextIs(rs, t, b, x) /\ Grows(v, i, t, b, x, y)
                                           /\ <<t, b, y>> \in ends
    BY DEF EndFits
  <2>1. i = Len(u) + 1 BY <1>1, <1>2
  <2>2. PICK x \in Nat : TextIs(rs, t, b, x) /\ Grows(u, Len(u) + 1, t, b, x, s.text[k])
    BY DEF OpenFits, BlockFits
  <2>3. s.text[k] \in Nat BY DEF Sessions
  <2>4. i \in 1..(Len(u) + 1) BY <2>1, <1>1
  <2>5. Grows(v, i, t, b, x, s.text[k]) BY <2>1, <2>2, <2>3, <2>4, GrowsMore
  <2>6. \A j \in DOMAIN v : j <= i BY <2>1, <1>1
  <2>7. x \in Nat /\ TextIs(rs, t, b, x) BY <2>2
  <2> QED BY <2>3, <2>5, <2>6, <2>7
<1>7. RowFits(t, b, v, rs, z) BY DEF RowFits, BlockFits
<1>8. OpenFits(t, b, v, rs, z) BY DEF OpenFits
<1> QED BY <1>5, <1>6, <1>7, <1>8 DEF BlockFits

\* What else is read leaves a block as it is.
LEMMA BlockLess ==
  ASSUME NEW t, NEW b \in Nat, NEW u \in Seq(Events), NEW v, NEW m, Taken(u, v, m),
         NEW rs, NEW s \in Sessions, NEW texts, ~OfBlock(m, t, b), BlockFits(t, b, u, rs, s, texts),
         rs \subseteq Rows
  PROVE  BlockFits(t, b, v, rs, s, texts)
<1>1. /\ Len(v) \in Nat /\ Len(u) = Len(v) + 1 /\ m \in Events
      /\ DOMAIN u = 1..Len(u) /\ DOMAIN v = 1..Len(v) /\ 1 \in DOMAIN u /\ u[1] = m
      /\ \A i \in DOMAIN v : i \in Nat /\ i > 0 /\ i + 1 \in DOMAIN u /\ i + 1 # 1 /\ v[i] = u[i + 1]
      /\ \A i \in DOMAIN u : i \in Nat /\ i > 0 /\ (i # 1 => i - 1 \in DOMAIN v /\ v[i - 1] = u[i])
  <2> HIDE DEF Events
  <2> QED BY OneLess
<1>2. Adds(m, t, b) = 0 BY DEF Adds
<1>3. StartFits(t, b, v, rs)
  <2>0. StartFits(t, b, u, rs) BY DEF BlockFits
  <2>1. BlockShown(rs, t, b) \/ \E i \in DOMAIN v : StartOf(v[i], t, b)
    <3>1. SUFFICES ASSUME NEW i \in DOMAIN u, StartOf(u[i], t, b)
                   PROVE  \E j \in DOMAIN v : StartOf(v[j], t, b)
      BY <2>0 DEF StartFits
    <3>2. i # 1 BY <3>1, <1>1 DEF StartOf
    <3> QED BY <3>1, <3>2, <1>1
  <2>2. ASSUME NEW i \in DOMAIN v, StartOf(v[i], t, b)
        PROVE  /\ ~BlockShown(rs, t, b)
               /\ \A j \in DOMAIN v : OfBlock(v[j], t, b) => j >= i
               /\ \A j \in DOMAIN v : StartOf(v[j], t, b) => j = i
    <3>1. i \in Nat /\ i + 1 \in DOMAIN u /\ StartOf(u[i + 1], t, b) BY <2>2, <1>1
    <3>2. /\ ~BlockShown(rs, t, b)
          /\ \A j \in DOMAIN u : OfBlock(u[j], t, b) => j >= i + 1
          /\ \A j \in DOMAIN u : StartOf(u[j], t, b) => j = i + 1
      BY <3>1, <2>0 DEF StartFits
    <3>3. \A j \in DOMAIN v : /\ j \in Nat
                              /\ OfBlock(v[j], t, b) => j + 1 >= i + 1
                              /\ StartOf(v[j], t, b) => j + 1 = i + 1
      BY <3>2, <1>1
    <3> QED BY <3>1, <3>2, <3>3
  <2> QED BY <2>1, <2>2 DEF StartFits
<1>4. EndFits(t, b, v, rs, s, texts)
  <2> SUFFICES ASSUME NEW i \in DOMAIN v, EndOf(v[i], t, b)
               PROVE  /\ \A j \in DOMAIN v : OfBlock(v[j], t, b) => j <= i
                      /\ \A k \in Kinds : s.block[k] # b
                      /\ \E x, y \in Nat : /\ TextIs(rs, t, b, x) /\ Grows(v, i, t, b, x, y)
                                           /\ <<t, b, y>> \in texts
    BY DEF EndFits
  <2>1. i \in Nat /\ i + 1 \in DOMAIN u /\ EndOf(u[i + 1], t, b) BY <1>1
  <2>2. /\ \A j \in DOMAIN u : OfBlock(u[j], t, b) => j <= i + 1
        /\ \A k \in Kinds : s.block[k] # b
        /\ \E x, y \in Nat : /\ TextIs(rs, t, b, x) /\ Grows(u, i + 1, t, b, x, y)
                             /\ <<t, b, y>> \in texts
    BY <2>1 DEF EndFits, BlockFits
  <2>3. \A j \in DOMAIN v : j \in Nat /\ (OfBlock(v[j], t, b) => j + 1 <= i + 1) BY <2>2, <1>1
  <2>4. PICK x \in Nat, y \in Nat : /\ TextIs(rs, t, b, x) /\ Grows(u, i + 1, t, b, x, y)
                                    /\ <<t, b, y>> \in texts
    BY <2>2
  <2>5. i \in 1..(Len(v) + 1) BY <1>1
  <2>6. Grows(v, i, t, b, x + Adds(m, t, b), y) BY <2>4, <2>5, GrowsLess
  <2>7. x + Adds(m, t, b) = x BY <1>2, <2>4
  <2>8. \A j \in DOMAIN v : OfBlock(v[j], t, b) => j <= i BY <2>1, <2>3
  <2> QED BY <2>2, <2>4, <2>6, <2>7, <2>8
<1>5. RowFits(t, b, v, rs, s) BY <1>1 DEF RowFits, BlockFits
<1>6. OpenFits(t, b, v, rs, s)
  <2> SUFFICES ASSUME NEW k \in Kinds, s.block[k] = b
               PROVE  \E x \in Nat : TextIs(rs, t, b, x) /\ Grows(v, Len(v) + 1, t, b, x, s.text[k])
    BY DEF OpenFits
  <2>1. PICK x \in Nat : TextIs(rs, t, b, x) /\ Grows(u, Len(u) + 1, t, b, x, s.text[k])
    BY DEF OpenFits, BlockFits
  <2>2. s.text[k] \in Nat BY DEF Sessions
  <2>3. Len(v) + 1 \in 1..(Len(v) + 1) /\ Len(u) + 1 = (Len(v) + 1) + 1 BY <1>1
  <2>4. Grows(v, Len(v) + 1, t, b, x + Adds(m, t, b), s.text[k]) BY <2>1, <2>2, <2>3, GrowsLess
  <2>5. x + Adds(m, t, b) = x BY <1>2, <2>1
  <2> QED BY <2>1, <2>4, <2>5
<1> QED BY <1>3, <1>4, <1>5, <1>6 DEF BlockFits

\* The start of a block is read, and shown in row r.
LEMMA BlockReadStart ==
  ASSUME NEW t, NEW b \in Nat, NEW u \in Seq(Events), NEW v, NEW m, Taken(u, v, m),
         NEW rs, NEW s \in Sessions, NEW texts, StartOf(m, t, b), BlockFits(t, b, u, rs, s, texts),
         NEW r, IsBlock(r, t, b), r.state = "streaming", r.text = 0
  PROVE  BlockFits(t, b, v, rs \cup {r}, s, texts) /\ ~BlockShown(rs, t, b)
<1>1. /\ Len(v) \in Nat /\ Len(u) = Len(v) + 1 /\ m \in Events
      /\ DOMAIN u = 1..Len(u) /\ DOMAIN v = 1..Len(v) /\ 1 \in DOMAIN u /\ u[1] = m
      /\ \A i \in DOMAIN v : i \in Nat /\ i > 0 /\ i + 1 \in DOMAIN u /\ i + 1 # 1 /\ v[i] = u[i + 1]
  <2> HIDE DEF Events
  <2> QED BY OneLess
<1>2. Adds(m, t, b) = 0 BY DEF Adds, StartOf, Kinds
<1>3. /\ ~BlockShown(rs, t, b)
      /\ \A j \in DOMAIN u : StartOf(u[j], t, b) => j = 1
  BY <1>1 DEF StartFits, BlockFits
<1>4. BlockShown(rs \cup {r}, t, b) BY DEF BlockShown
<1>5. \A x : TextIs(rs, t, b, x) => TextIs(rs \cup {r}, t, b, x)
  BY <1>3 DEF TextIs, BlockShown
<1>6. StartFits(t, b, v, rs \cup {r}) BY <1>1, <1>3, <1>4 DEF StartFits
<1>7. EndFits(t, b, v, rs \cup {r}, s, texts)
  <2> SUFFICES ASSUME NEW i \in DOMAIN v, EndOf(v[i], t, b)
               PROVE  /\ \A j \in DOMAIN v : OfBlock(v[j], t, b) => j <= i
                      /\ \A k \in Kinds : s.block[k] # b
                      /\ \E x, y \in Nat : /\ TextIs(rs \cup {r}, t, b, x)
                                           /\ Grows(v, i, t, b, x, y) /\ <<t, b, y>> \in texts
    BY DEF EndFits
  <2>1. i \in Nat /\ i + 1 \in DOMAIN u /\ EndOf(u[i + 1], t, b) BY <1>1
  <2>2. /\ \A j \in DOMAIN u : OfBlock(u[j], t, b) => j <= i + 1
        /\ \A k \in Kinds : s.block[k] # b
        /\ \E x, y \in Nat : /\ TextIs(rs, t, b, x) /\ Grows(u, i + 1, t, b, x, y)
                             /\ <<t, b, y>> \in texts
    BY <2>1 DEF EndFits, BlockFits
  <2>3. \A j \in DOMAIN v : j \in Nat /\ (OfBlock(v[j], t, b) => j + 1 <= i + 1) BY <2>2, <1>1
  <2>4. PICK x \in Nat, y \in Nat : /\ TextIs(rs, t, b, x) /\ Grows(u, i + 1, t, b, x, y)
                                    /\ <<t, b, y>> \in texts
    BY <2>2
  <2>5. i \in 1..(Len(v) + 1) BY <1>1
  <2>6. Grows(v, i, t, b, x + Adds(m, t, b), y) BY <2>4, <2>5, GrowsLess
  <2>7. x + Adds(m, t, b) = x BY <1>2, <2>4
  <2>8. \A j \in DOMAIN v : OfBlock(v[j], t, b) => j <= i BY <2>1, <2>3
  <2> QED BY <2>2, <2>4, <2>6, <2>7, <2>8, <1>5
<1>8. RowFits(t, b, v, rs \cup {r}, s) BY <1>3 DEF RowFits, BlockShown
<1>9. OpenFits(t, b, v, rs \cup {r}, s)
  <2> SUFFICES ASSUME NEW k \in Kinds, s.block[k] = b
               PROVE  \E x \in Nat : /\ TextIs(rs \cup {r}, t, b, x)
                                     /\ Grows(v, Len(v) + 1, t, b, x, s.text[k])
    BY DEF OpenFits
  <2>1. PICK x \in Nat : TextIs(rs, t, b, x) /\ Grows(u, Len(u) + 1, t, b, x, s.text[k])
    BY DEF OpenFits, BlockFits
  <2>2. s.text[k] \in Nat BY DEF Sessions
  <2>3. Len(v) + 1 \in 1..(Len(v) + 1) /\ Len(u) + 1 = (Len(v) + 1) + 1 BY <1>1
  <2>4. Grows(v, Len(v) + 1, t, b, x + Adds(m, t, b), s.text[k]) BY <2>1, <2>2, <2>3, GrowsLess
  <2>5. x + Adds(m, t, b) = x BY <1>2, <2>1
  <2> QED BY <2>1, <2>4, <2>5, <1>5
<1> QED BY <1>3, <1>6, <1>7, <1>8, <1>9 DEF BlockFits

\* The rows of a block were updated: each has n more text and is in the given state.
Updated(rs, qs, t, b, n, st) ==
  /\ \A q \in rs : IsBlock(q, t, b) /\ q.state = "streaming" =>
       \E r \in qs : IsBlock(r, t, b) /\ r.text = q.text + n /\ r.state = st
  /\ \A r \in qs : IsBlock(r, t, b) =>
       \E q \in rs : /\ IsBlock(q, t, b)
                     /\ IF q.state = "streaming" THEN r.text = q.text + n /\ r.state = st
                                                 ELSE r = q

\* A delta is read, and what is shown grows by it.
LEMMA BlockReadDelta ==
  ASSUME NEW t, NEW b \in Nat, NEW u \in Seq(Events), NEW v, NEW m, Taken(u, v, m),
         NEW rs, NEW qs, NEW s \in Sessions, NEW texts, OfBlock(m, t, b), m.type = "delta",
         BlockFits(t, b, u, rs, s, texts), rs \subseteq Rows, Updated(rs, qs, t, b, m.n, "streaming")
  PROVE  BlockFits(t, b, v, qs, s, texts)
<1>1. /\ Len(v) \in Nat /\ Len(u) = Len(v) + 1 /\ m \in Events
      /\ DOMAIN u = 1..Len(u) /\ DOMAIN v = 1..Len(v) /\ 1 \in DOMAIN u /\ u[1] = m
      /\ \A i \in DOMAIN v : i \in Nat /\ i > 0 /\ i + 1 \in DOMAIN u /\ i + 1 # 1 /\ v[i] = u[i + 1]
      /\ \A i \in DOMAIN u : i \in Nat /\ i > 0 /\ (i # 1 => i - 1 \in DOMAIN v /\ v[i - 1] = u[i])
  <2> HIDE DEF Events
  <2> QED BY OneLess
<1>2. Adds(m, t, b) = m.n BY DEF Adds
<1>3. \A j \in DOMAIN u : ~StartOf(u[j], t, b)
  <2> SUFFICES ASSUME NEW j \in DOMAIN u, StartOf(u[j], t, b) PROVE FALSE
    OBVIOUS
  <2>1. 1 >= j BY <1>1 DEF StartFits, BlockFits
  <2>2. j = 1 BY <2>1, <1>1
  <2> QED BY <2>2, <1>1 DEF StartOf, Kinds
<1>4. BlockShown(rs, t, b) BY <1>3 DEF StartFits, BlockFits
<1>5. \A q \in rs : IsBlock(q, t, b) => q.state = "streaming" BY <1>1 DEF RowFits, BlockFits
<1>6. BlockShown(qs, t, b) BY <1>4, <1>5 DEF BlockShown, Updated
<1>7. \A x : TextIs(rs, t, b, x) => TextIs(qs, t, b, x + m.n)
  BY <1>4, <1>5 DEF TextIs, Updated
<1>8. StartFits(t, b, v, qs) BY <1>1, <1>3, <1>6 DEF StartFits
<1>9. EndFits(t, b, v, qs, s, texts)
  <2> SUFFICES ASSUME NEW i \in DOMAIN v, EndOf(v[i], t, b)
               PROVE  /\ \A j \in DOMAIN v : OfBlock(v[j], t, b) => j <= i
                      /\ \A k \in Kinds : s.block[k] # b
                      /\ \E x, y \in Nat : /\ TextIs(qs, t, b, x)
                                           /\ Grows(v, i, t, b, x, y) /\ <<t, b, y>> \in texts
    BY DEF EndFits
  <2>1. i \in Nat /\ i + 1 \in DOMAIN u /\ EndOf(u[i + 1], t, b) BY <1>1
  <2>2. /\ \A j \in DOMAIN u : OfBlock(u[j], t, b) => j <= i + 1
        /\ \A k \in Kinds : s.block[k] # b
        /\ \E x, y \in Nat : /\ TextIs(rs, t, b, x) /\ Grows(u, i + 1, t, b, x, y)
                             /\ <<t, b, y>> \in texts
    BY <2>1 DEF EndFits, BlockFits
  <2>3. \A j \in DOMAIN v : j \in Nat /\ (OfBlock(v[j], t, b) => j + 1 <= i + 1) BY <2>2, <1>1
  <2>4. PICK x \in Nat, y \in Nat : /\ TextIs(rs, t, b, x) /\ Grows(u, i + 1, t, b, x, y)
                                    /\ <<t, b, y>> \in texts
    BY <2>2
  <2>5. i \in 1..(Len(v) + 1) BY <1>1
  <2>6. Grows(v, i, t, b, x + m.n, y) BY <2>4, <2>5, <1>2, GrowsLess
  <2>7. x + m.n \in Nat BY <1>1, <2>4 DEF Events
  <2>8. \A j \in DOMAIN v : OfBlock(v[j], t, b) => j <= i BY <2>1, <2>3
  <2>9. TextIs(qs, t, b, x + m.n) BY <2>4, <1>7
  <2> QED BY <2>2, <2>4, <2>6, <2>7, <2>8, <2>9
<1>10. RowFits(t, b, v, qs, s) BY <1>5 DEF RowFits, Updated
<1>11. OpenFits(t, b, v, qs, s)
  <2> SUFFICES ASSUME NEW k \in Kinds, s.block[k] = b
               PROVE  \E x \in Nat : TextIs(qs, t, b, x) /\ Grows(v, Len(v) + 1, t, b, x, s.text[k])
    BY DEF OpenFits
  <2>1. PICK x \in Nat : TextIs(rs, t, b, x) /\ Grows(u, Len(u) + 1, t, b, x, s.text[k])
    BY DEF OpenFits, BlockFits
  <2>2. s.text[k] \in Nat BY DEF Sessions
  <2>3. Len(v) + 1 \in 1..(Len(v) + 1) /\ Len(u) + 1 = (Len(v) + 1) + 1 BY <1>1
  <2>4. Grows(v, Len(v) + 1, t, b, x + m.n, s.text[k]) BY <2>1, <2>2, <2>3, <1>2, GrowsLess
  <2>5. x + m.n \in Nat BY <1>1, <2>1 DEF Events
  <2>6. TextIs(qs, t, b, x + m.n) BY <2>1, <1>7
  <2> QED BY <2>4, <2>5, <2>6
<1> QED BY <1>8, <1>9, <1>10, <1>11 DEF BlockFits

\* The rows of a block were completed.
Completed(rs, qs, t, b) == Updated(rs, qs, t, b, 0, "completed")
\* What is shown of a block is the text it ended with.
ShownWhole(qs, t, b, texts) == \A r \in qs : IsBlock(r, t, b) => <<t, b, r.text>> \in texts
\* A block is shown in one row.
ShownOnce(rs, t, b) == \A q, r \in rs : IsBlock(q, t, b) /\ IsBlock(r, t, b) => q = r

\* The end of a block is read: what is shown is the text it ended with.
LEMMA BlockReadEnd ==
  ASSUME NEW t, NEW b \in Nat, NEW u \in Seq(Events), NEW v, NEW m, Taken(u, v, m),
         NEW rs, NEW qs, NEW s \in Sessions, NEW texts, EndOf(m, t, b),
         BlockFits(t, b, u, rs, s, texts), rs \subseteq Rows, Completed(rs, qs, t, b),
         ShownOnce(rs, t, b)
  PROVE  /\ BlockFits(t, b, v, qs, s, texts)
         /\ ShownWhole(qs, t, b, texts)
<1>1. /\ Len(v) \in Nat /\ Len(u) = Len(v) + 1 /\ m \in Events
      /\ DOMAIN u = 1..Len(u) /\ DOMAIN v = 1..Len(v) /\ 1 \in DOMAIN u /\ u[1] = m
      /\ \A i \in DOMAIN v : i \in Nat /\ i > 0 /\ i + 1 \in DOMAIN u /\ i + 1 # 1 /\ v[i] = u[i + 1]
      /\ \A i \in DOMAIN u : i \in Nat /\ i > 0 /\ (i # 1 => i - 1 \in DOMAIN v /\ v[i - 1] = u[i])
  <2> HIDE DEF Events
  <2> QED BY OneLess
<1>2. OfBlock(m, t, b) BY DEF EndOf
<1>3. \A j \in DOMAIN u : ~StartOf(u[j], t, b)
  <2> SUFFICES ASSUME NEW j \in DOMAIN u, StartOf(u[j], t, b) PROVE FALSE
    OBVIOUS
  <2>1. 1 >= j BY <1>1, <1>2 DEF StartFits, BlockFits
  <2>2. j = 1 BY <2>1, <1>1
  <2> QED BY <2>2, <1>1 DEF StartOf, EndOf, Kinds
<1>4. BlockShown(rs, t, b) BY <1>3 DEF StartFits, BlockFits
<1>5. \A q \in rs : IsBlock(q, t, b) => q.state = "streaming"
  BY <1>1, <1>2 DEF RowFits, BlockFits
<1>6. BlockShown(qs, t, b) BY <1>4, <1>5 DEF BlockShown, Completed, Updated
<1>7. /\ \A j \in DOMAIN u : OfBlock(u[j], t, b) => j <= 1
      /\ \A k \in Kinds : s.block[k] # b
      /\ \E x, y \in Nat : /\ TextIs(rs, t, b, x) /\ Grows(u, 1, t, b, x, y)
                           /\ <<t, b, y>> \in texts
  BY <1>1 DEF EndFits, BlockFits
<1>8. \A j \in DOMAIN v : ~OfBlock(v[j], t, b)
  <2> SUFFICES ASSUME NEW j \in DOMAIN v, OfBlock(v[j], t, b) PROVE FALSE
    OBVIOUS
  <2>1. j \in Nat /\ j > 0 /\ j + 1 <= 1 BY <1>1, <1>7
  <2> QED BY <2>1
<1>9. BlockFits(t, b, v, qs, s, texts)
  BY <1>6, <1>8, <1>7 DEF StartFits, StartOf, EndFits, EndOf, RowFits, OpenFits, BlockFits
<1>10. ASSUME NEW r \in qs, IsBlock(r, t, b) PROVE <<t, b, r.text>> \in texts
  <2>1. PICK x \in Nat, y \in Nat : /\ TextIs(rs, t, b, x) /\ Grows(u, 1, t, b, x, y)
                                    /\ <<t, b, y>> \in texts
    BY <1>7
  <2>2. x = y BY <2>1, GrowsNone
  <2>3. PICK q \in rs : IsBlock(q, t, b) /\ r.text = q.text + 0 BY <1>5, <1>10 DEF Completed, Updated
  <2>4. PICK p \in rs : IsBlock(p, t, b) /\ p.text = x BY <2>1, <1>4 DEF TextIs
  <2>5. p = q BY <2>3, <2>4 DEF ShownOnce
  <2>6. r.text = x BY <2>1, <2>3, <2>4, <2>5
  <2> QED BY <2>1, <2>2, <2>6
<1> QED BY <1>9, <1>10 DEF ShownWhole

-----------------------------------------------------------------------------
\* An event of a block of Turn t.
OfTurn(e, t) == e.turn = t /\ e.type \in BlockEvents

\* What else is written leaves the blocks of a Turn as they are.
LEMMA StreamMore ==
  ASSUME NEW t, NEW u \in Seq(Events), NEW m \in Events, NEW v, Put(u, v, m),
         NEW rs, NEW s \in Sessions, NEW texts, ~OfTurn(m, t), StreamFits(t, u, rs, s, texts)
  PROVE  StreamFits(t, v, rs, s, texts)
<1>1. /\ \A i \in DOMAIN u : i \in DOMAIN v /\ v[i] = u[i]
      /\ \A i \in DOMAIN v : i \in DOMAIN u \/ i = Len(u) + 1
      /\ v[Len(u) + 1] = m
  <2> HIDE DEF Events
  <2> QED BY OneMore
<1>2. CountFits(t, v, rs, s) BY <1>1 DEF CountFits, StreamFits, OfTurn
<1>3. ASSUME NEW b \in 1..s.blocks PROVE BlockFits(t, b, v, rs, s, texts)
  <2>1. BlockFits(t, b, u, rs, s, texts) /\ ~OfBlock(m, t, b) BY DEF StreamFits, OfTurn, OfBlock
  <2>2. b \in Nat BY DEF Sessions
  <2> QED BY <2>1, <2>2, BlockMore
<1> QED BY <1>2, <1>3 DEF StreamFits

\* A session that only forgets blocks, or does something else.
LEMMA StreamSession ==
  ASSUME NEW t, NEW u, NEW rs, NEW s \in Sessions, NEW z \in Sessions, NEW texts, NEW ends,
         texts \subseteq ends, z.blocks = s.blocks,
         \A k \in Kinds : z.block[k] # NoTurn => z.block[k] = s.block[k] /\ z.text[k] = s.text[k],
         StreamFits(t, u, rs, s, texts)
  PROVE  StreamFits(t, u, rs, z, ends)
<1>1. CountFits(t, u, rs, z) BY DEF StreamFits, Sessions, CountFits, NoTurn
<1>2. ASSUME NEW b \in 1..z.blocks PROVE BlockFits(t, b, u, rs, z, ends)
  <2>1. BlockFits(t, b, u, rs, s, texts) BY DEF StreamFits
  <2>2. b # NoTurn BY DEF NoTurn, Sessions
  <2>3. \A k \in Kinds : z.block[k] = b => s.block[k] = b /\ z.text[k] = s.text[k] BY <2>2
  <2> QED BY <2>1, <2>3, BlockSession
<1> QED BY <1>1, <1>2 DEF StreamFits

\* Rows of other things do not matter to the blocks of a Turn.
LEMMA StreamRows ==
  ASSUME NEW t, NEW u, NEW rs, NEW qs, NEW s, NEW texts,
         \A r : r.turn = t /\ r.kind \in Kinds => (r \in rs <=> r \in qs),
         StreamFits(t, u, rs, s, texts)
  PROVE  StreamFits(t, u, qs, s, texts)
<1>1. CountFits(t, u, qs, s) BY DEF CountFits, StreamFits
<1>2. ASSUME NEW b \in 1..s.blocks PROVE BlockFits(t, b, u, qs, s, texts)
  <2>1. BlockFits(t, b, u, rs, s, texts) BY DEF StreamFits
  <2>2. \A r : IsBlock(r, t, b) => (r \in rs <=> r \in qs) BY DEF IsBlock
  <2> QED BY <2>1, <2>2, BlockRows
<1> QED BY <1>1, <1>2 DEF StreamFits

\* The next block of a session starts.
LEMMA StreamStart ==
  ASSUME NEW t, NEW b, NEW u \in Seq(Events), NEW m \in Events, NEW v, Put(u, v, m),
         NEW rs, NEW s \in Sessions, NEW z \in Sessions, NEW texts, StartOf(m, t, b),
         b = s.blocks + 1, z.blocks = b, NEW k \in Kinds,
         z.block = [s.block EXCEPT ![k] = b], z.text = [s.text EXCEPT ![k] = 0],
         StreamFits(t, u, rs, s, texts)
  PROVE  StreamFits(t, v, rs, z, texts)
<1>1. /\ \A i \in DOMAIN u : i \in DOMAIN v /\ v[i] = u[i]
      /\ \A i \in DOMAIN v : i \in DOMAIN u \/ i = Len(u) + 1
      /\ v[Len(u) + 1] = m
  <2> HIDE DEF Events
  <2> QED BY OneMore
<1>2. /\ s.blocks \in Nat /\ b \in Nat /\ s.block \in [Kinds -> Nat] /\ s.text \in [Kinds -> Nat]
  BY DEF Sessions
<1>3. /\ \A l \in Kinds : z.block[l] = IF l = k THEN b ELSE s.block[l]
      /\ \A l \in Kinds : z.text[l] = IF l = k THEN 0 ELSE s.text[l]
  BY <1>2
<1>4. CountFits(t, u, rs, s) BY DEF StreamFits
<1>5. m.key = b BY DEF StartOf, OfBlock
<1>6. CountFits(t, v, rs, z)
  <2>1. 1..s.blocks \subseteq 1..b /\ b \in 1..b /\ 0..s.blocks \subseteq 0..b /\ b \in 0..b
    BY <1>2
  <2>2. \A i \in DOMAIN v : v[i].turn = t /\ v[i].type \in BlockEvents => v[i].key \in 1..b
    BY <1>1, <1>4, <1>5, <2>1 DEF CountFits
  <2>3. \A r \in rs : r.turn = t /\ r.kind \in Kinds => r.key \in 1..b BY <1>4, <2>1 DEF CountFits
  <2>4. \A l \in Kinds : z.block[l] \in 0..b BY <1>3, <1>4, <2>1 DEF CountFits
  <2>5. \A l \in Kinds : s.block[l] # b BY <1>2, <1>4 DEF CountFits
  <2>6. \A l, o \in Kinds : z.block[l] = z.block[o] => l = o \/ z.block[l] = NoTurn
    BY <1>3, <1>4, <2>5 DEF CountFits
  <2> QED BY <2>2, <2>3, <2>4, <2>6 DEF CountFits
<1>7. ASSUME NEW c \in 1..s.blocks PROVE BlockFits(t, c, v, rs, z, texts)
  <2>1. BlockFits(t, c, u, rs, s, texts) BY DEF StreamFits
  <2>2. c \in Nat /\ c # b BY <1>2
  <2>3. ~OfBlock(m, t, c) BY <1>5, <2>2 DEF OfBlock
  <2>4. BlockFits(t, c, v, rs, s, texts) BY <2>1, <2>2, <2>3, BlockMore
  <2>5. \A l \in Kinds : z.block[l] = c => s.block[l] = c /\ z.text[l] = s.text[l]
    BY <1>3, <2>2
  <2> QED BY <2>4, <2>5, BlockSession
<1>8. BlockFits(t, b, v, rs, z, texts)
  <2>1. b \notin 1..s.blocks BY <1>2
  <2>2. \A i \in DOMAIN u : ~OfBlock(u[i], t, b) BY <1>4, <2>1 DEF CountFits, OfBlock
  <2>3. ~BlockShown(rs, t, b) BY <1>4, <2>1 DEF CountFits, BlockShown, IsBlock
  <2>4. \A l \in Kinds : s.block[l] # b BY <1>2, <1>4 DEF CountFits
  <2>5. \A l \in Kinds : z.block[l] = b => z.text[l] = 0 BY <1>3, <2>4
  <2> QED BY <1>2, <2>2, <2>3, <2>5, BlockStart
<1>9. \A c \in 1..b : c \in 1..s.blocks \/ c = b BY <1>2
<1> QED BY <1>6, <1>7, <1>8, <1>9 DEF StreamFits

\* The block of kind k that is open is b.
OpenIs(s, k, b) == b = s.block[k] /\ b # NoTurn
\* The session goes on with n more text in the open block of kind k, or without that block.
BlockGrown(s, z, k, n) ==
  z.blocks = s.blocks /\ z.block = s.block /\ z.text = [s.text EXCEPT ![k] = @ + n]
Ended(s, z, k) ==
  /\ z.blocks = s.blocks /\ z.block = [s.block EXCEPT ![k] = NoTurn]
  /\ z.text = [s.text EXCEPT ![k] = 0]
DeltaOf(e, t, b, n) == OfBlock(e, t, b) /\ e.type = "delta" /\ e.n = n

\* An open block grows.
LEMMA StreamDelta ==
  ASSUME NEW t, NEW b, NEW u \in Seq(Events), NEW m \in Events, NEW v, Put(u, v, m),
         NEW rs, NEW s \in Sessions, NEW z \in Sessions, NEW texts, NEW n,
         DeltaOf(m, t, b, n), NEW k \in Kinds, OpenIs(s, k, b), BlockGrown(s, z, k, n),
         StreamFits(t, u, rs, s, texts)
  PROVE  StreamFits(t, v, rs, z, texts)
<1>0. /\ OfBlock(m, t, b) /\ m.type = "delta" /\ b = s.block[k] /\ b # NoTurn
      /\ z.blocks = s.blocks /\ z.block = s.block /\ z.text = [s.text EXCEPT ![k] = @ + m.n]
  BY DEF DeltaOf, OpenIs, BlockGrown
<1>1. /\ \A i \in DOMAIN u : i \in DOMAIN v /\ v[i] = u[i]
      /\ \A i \in DOMAIN v : i \in DOMAIN u \/ i = Len(u) + 1
      /\ v[Len(u) + 1] = m
  <2> HIDE DEF Events
  <2> QED BY OneMore
<1>2. /\ s.blocks \in Nat /\ s.block \in [Kinds -> Nat] /\ s.text \in [Kinds -> Nat]
  BY DEF Sessions
<1>3. \A l \in Kinds : z.text[l] = IF l = k THEN s.text[l] + m.n ELSE s.text[l] BY <1>0, <1>2
<1>4. CountFits(t, u, rs, s) BY DEF StreamFits
<1>5. m.key = b /\ b \in 1..s.blocks BY <1>0, <1>2, <1>4 DEF OfBlock, CountFits, NoTurn
<1>6. CountFits(t, v, rs, z) BY <1>0, <1>1, <1>4, <1>5 DEF CountFits
<1>7. \A l \in Kinds : s.block[l] = b => l = k BY <1>0, <1>4 DEF CountFits
<1>8. ASSUME NEW c \in 1..s.blocks, c # b PROVE BlockFits(t, c, v, rs, z, texts)
  <2>1. BlockFits(t, c, u, rs, s, texts) BY DEF StreamFits
  <2>2. c \in Nat BY <1>2
  <2>3. ~OfBlock(m, t, c) BY <1>0, <1>5, <1>8 DEF OfBlock
  <2>4. BlockFits(t, c, v, rs, s, texts) BY <2>1, <2>2, <2>3, BlockMore
  <2>5. \A l \in Kinds : z.block[l] = c => s.block[l] = c /\ z.text[l] = s.text[l]
    BY <1>0, <1>3, <1>8
  <2> QED BY <2>4, <2>5, BlockSession
<1>9. BlockFits(t, b, v, rs, z, texts)
  <2>1. BlockFits(t, b, u, rs, s, texts) /\ b \in Nat BY <1>2, <1>5 DEF StreamFits
  <2>2. OpenGrows(s, z, b, m.n) BY <1>0, <1>3, <1>7 DEF OpenGrows
  <2> QED BY <1>0, <2>1, <2>2, BlockDelta
<1> QED BY <1>0, <1>6, <1>8, <1>9 DEF StreamFits

\* An open block ends, with the text it has.
LEMMA StreamEnd ==
  ASSUME NEW t, NEW b, NEW u \in Seq(Events), NEW m \in Events, NEW v, Put(u, v, m),
         NEW rs, NEW s \in Sessions, NEW z \in Sessions, NEW texts, NEW ends,
         texts \subseteq ends, EndOf(m, t, b), NEW k \in Kinds, OpenIs(s, k, b), Ended(s, z, k),
         NEW y, y = s.text[k], <<t, b, y>> \in ends, StreamFits(t, u, rs, s, texts)
  PROVE  StreamFits(t, v, rs, z, ends)
<1>0. /\ b = s.block[k] /\ b # NoTurn /\ z.blocks = s.blocks
      /\ z.block = [s.block EXCEPT ![k] = NoTurn] /\ z.text = [s.text EXCEPT ![k] = 0]
      /\ <<t, b, s.text[k]>> \in ends
  BY DEF OpenIs, Ended
<1>1. /\ \A i \in DOMAIN u : i \in DOMAIN v /\ v[i] = u[i]
      /\ \A i \in DOMAIN v : i \in DOMAIN u \/ i = Len(u) + 1
      /\ v[Len(u) + 1] = m
  <2> HIDE DEF Events
  <2> QED BY OneMore
<1>2. /\ s.blocks \in Nat /\ s.block \in [Kinds -> Nat] /\ s.text \in [Kinds -> Nat]
  BY DEF Sessions
<1>3. /\ \A l \in Kinds : z.block[l] = IF l = k THEN NoTurn ELSE s.block[l]
      /\ \A l \in Kinds : z.text[l] = IF l = k THEN 0 ELSE s.text[l]
  BY <1>0, <1>2
<1>4. CountFits(t, u, rs, s) BY DEF StreamFits
<1>5. m.key = b /\ b \in 1..s.blocks BY <1>0, <1>2, <1>4 DEF EndOf, OfBlock, CountFits, NoTurn
<1>6. CountFits(t, v, rs, z)
  <2>1. \A l \in Kinds : z.block[l] \in 0..z.blocks BY <1>0, <1>2, <1>3, <1>4 DEF CountFits, NoTurn
  <2>2. \A l, o \in Kinds : z.block[l] = z.block[o] => l = o \/ z.block[l] = NoTurn
    BY <1>3, <1>4 DEF CountFits
  <2> QED BY <1>0, <1>1, <1>4, <1>5, <2>1, <2>2 DEF CountFits
<1>7. \A l \in Kinds : s.block[l] = b => l = k BY <1>0, <1>4 DEF CountFits
<1>8. ASSUME NEW c \in 1..s.blocks, c # b PROVE BlockFits(t, c, v, rs, z, ends)
  <2>1. BlockFits(t, c, u, rs, s, texts) BY DEF StreamFits
  <2>2. c \in Nat /\ c # NoTurn BY <1>2 DEF NoTurn
  <2>3. ~OfBlock(m, t, c) BY <1>5, <1>8 DEF OfBlock
  <2>4. BlockFits(t, c, v, rs, s, texts) BY <2>1, <2>2, <2>3, BlockMore
  <2>5. \A l \in Kinds : z.block[l] = c => s.block[l] = c /\ z.text[l] = s.text[l]
    BY <1>0, <1>3, <1>8, <2>2
  <2> QED BY <2>4, <2>5, BlockSession
<1>9. BlockFits(t, b, v, rs, z, ends)
  <2>1. BlockFits(t, b, u, rs, s, texts) /\ b \in Nat BY <1>2, <1>5 DEF StreamFits
  <2>2. \A l \in Kinds : z.block[l] # b BY <1>0, <1>3, <1>7
  <2> QED BY ZenonT(30), <1>0, <2>1, <2>2, BlockEnd
<1> QED BY <1>0, <1>6, <1>8, <1>9 DEF StreamFits

\* What else is read leaves the blocks of a Turn as they are.
LEMMA StreamLess ==
  ASSUME NEW t, NEW u \in Seq(Events), NEW v, NEW m, Taken(u, v, m),
         NEW rs, NEW s \in Sessions, NEW texts, ~OfTurn(m, t), StreamFits(t, u, rs, s, texts),
         rs \subseteq Rows
  PROVE  StreamFits(t, v, rs, s, texts)
<1>1. \A i \in DOMAIN v : i + 1 \in DOMAIN u /\ v[i] = u[i + 1]
  <2> HIDE DEF Events
  <2> QED BY OneLess
<1>2. CountFits(t, v, rs, s) BY <1>1 DEF CountFits, StreamFits
<1>3. ASSUME NEW b \in 1..s.blocks PROVE BlockFits(t, b, v, rs, s, texts)
  <2>1. BlockFits(t, b, u, rs, s, texts) /\ ~OfBlock(m, t, b) BY DEF StreamFits, OfTurn, OfBlock
  <2>2. b \in Nat BY DEF Sessions
  <2> QED BY <2>1, <2>2, BlockLess
<1> QED BY <1>2, <1>3 DEF StreamFits

\* The start of a block is read, and shown in row r.
LEMMA StreamReadStart ==
  ASSUME NEW t, NEW b, NEW u \in Seq(Events), NEW v, NEW m, Taken(u, v, m),
         NEW rs, NEW s \in Sessions, NEW texts, StartOf(m, t, b), StreamFits(t, u, rs, s, texts),
         NEW r, IsBlock(r, t, b), r.state = "streaming", r.text = 0, rs \subseteq Rows
  PROVE  StreamFits(t, v, rs \cup {r}, s, texts) /\ ~BlockShown(rs, t, b)
<1>1. /\ 1 \in DOMAIN u /\ u[1] = m
      /\ \A i \in DOMAIN v : i + 1 \in DOMAIN u /\ v[i] = u[i + 1]
  <2> HIDE DEF Events
  <2> QED BY OneLess
<1>2. CountFits(t, u, rs, s) BY DEF StreamFits
<1>3. b \in 1..s.blocks /\ r.turn = t /\ r.key = b /\ m.key = b
  BY <1>1, <1>2 DEF CountFits, StartOf, OfBlock, IsBlock
<1>4. CountFits(t, v, rs \cup {r}, s) BY <1>1, <1>2, <1>3 DEF CountFits
<1>5. s.blocks \in Nat BY DEF Sessions
<1>6. ASSUME NEW c \in 1..s.blocks, c # b PROVE BlockFits(t, c, v, rs \cup {r}, s, texts)
  <2>1. BlockFits(t, c, u, rs, s, texts) /\ c \in Nat BY <1>5 DEF StreamFits
  <2>2. ~OfBlock(m, t, c) BY <1>3, <1>6 DEF OfBlock
  <2>3. BlockFits(t, c, v, rs, s, texts) BY <2>1, <2>2, BlockLess
  <2>4. \A q : IsBlock(q, t, c) => (q \in rs <=> q \in rs \cup {r}) BY <1>3, <1>6 DEF IsBlock
  <2> QED BY <2>3, <2>4, BlockRows
<1>7. BlockFits(t, b, v, rs \cup {r}, s, texts) /\ ~BlockShown(rs, t, b)
  BY <1>3, <1>5, BlockReadStart DEF StreamFits
<1> QED BY <1>4, <1>6, <1>7 DEF StreamFits

\* The rows of other blocks than b stay.
OthersStay(rs, qs, t, b) ==
  \A r : r.turn = t /\ r.kind \in Kinds /\ r.key # b => (r \in rs <=> r \in qs)

\* A block of the session fits.
CountedFits(t, b, u, rs, s, texts) == b \in 1..s.blocks => BlockFits(t, b, u, rs, s, texts)

\* A delta of a block or its end is read, and its row is updated.
LEMMA StreamReadRest ==
  ASSUME NEW t, NEW b, NEW u \in Seq(Events), NEW v, NEW m, Taken(u, v, m),
         NEW rs, NEW qs, NEW s \in Sessions, NEW texts, OfBlock(m, t, b),
         StreamFits(t, u, rs, s, texts), rs \subseteq Rows, OthersStay(rs, qs, t, b),
         CountedFits(t, b, v, qs, s, texts)
  PROVE  StreamFits(t, v, qs, s, texts) /\ b \in 1..s.blocks
<1>1. /\ 1 \in DOMAIN u /\ u[1] = m
      /\ \A i \in DOMAIN v : i + 1 \in DOMAIN u /\ v[i] = u[i + 1]
  <2> HIDE DEF Events
  <2> QED BY OneLess
<1>2. CountFits(t, u, rs, s) BY DEF StreamFits
<1>3. b \in 1..s.blocks /\ m.key = b BY <1>1, <1>2 DEF CountFits, OfBlock
<1>4. CountFits(t, v, qs, s) BY <1>1, <1>2, <1>3 DEF CountFits, OthersStay
<1>5. s.blocks \in Nat BY DEF Sessions
<1>6. ASSUME NEW c \in 1..s.blocks, c # b PROVE BlockFits(t, c, v, qs, s, texts)
  <2>1. BlockFits(t, c, u, rs, s, texts) /\ c \in Nat BY <1>5 DEF StreamFits
  <2>2. ~OfBlock(m, t, c) BY <1>3, <1>6 DEF OfBlock
  <2>3. BlockFits(t, c, v, rs, s, texts) BY <2>1, <2>2, BlockLess
  <2>4. \A q : IsBlock(q, t, c) => (q \in rs <=> q \in qs) BY <1>6 DEF IsBlock, OthersStay
  <2> QED BY <2>3, <2>4, BlockRows
<1> QED BY <1>3, <1>4, <1>6 DEF StreamFits, CountedFits

-----------------------------------------------------------------------------
\* What is written that is no request of the call.
LEMMA RequestMore ==
  ASSUME NEW t, NEW c, NEW u \in Seq(Events), NEW m \in Events, NEW v, Put(u, v, m),
         NEW sv, NEW w, NEW st, ~Asks(m, t, c), RequestFits(t, c, u, sv, w, st)
  PROVE  RequestFits(t, c, v, sv, w, st)
<1>1. /\ \A i \in DOMAIN u : i \in DOMAIN v /\ v[i] = u[i] /\ i <= Len(u) /\ i \in Nat /\ i > 0
      /\ \A i \in DOMAIN v : i \in DOMAIN u \/ i = Len(u) + 1
      /\ v[Len(u) + 1] = m
  <2> HIDE DEF Events
  <2> QED BY OneMore
<1>2. \A i \in DOMAIN v : Asks(v[i], t, c) => i \in DOMAIN u /\ Asks(u[i], t, c) BY <1>1
<1>3. \A i \in DOMAIN u : Drops(u[i], t, c) => i \in DOMAIN v /\ Drops(v[i], t, c) BY <1>1
<1> HIDE DEF Events
<1> QED BY <1>2, <1>3 DEF RequestFits

\* A call that does not wait may do anything that is no request; so may one without a request on
\* the wire.
LEMMA RequestState ==
  ASSUME NEW t, NEW c, NEW u, NEW sv, NEW w, NEW st, NEW other,
         RequestFits(t, c, u, sv, w, st),
         st # "asking" \/ other = st \/ w # t \/ \A i \in DOMAIN u : ~Asks(u[i], t, c)
  PROVE  RequestFits(t, c, u, sv, w, other)
BY DEF RequestFits

\* A call drops its request.
LEMMA RequestDropped ==
  ASSUME NEW t, NEW c, NEW u \in Seq(Events), NEW m \in Events, NEW v, Put(u, v, m),
         NEW sv, NEW w, NEW st, NEW other, Drops(m, t, c), RequestFits(t, c, u, sv, w, st)
  PROVE  RequestFits(t, c, v, sv, w, other)
<1>1. /\ Len(u) \in Nat
      /\ \A i \in DOMAIN u : i \in DOMAIN v /\ v[i] = u[i] /\ i <= Len(u) /\ i \in Nat /\ i > 0
      /\ \A i \in DOMAIN v : i \in DOMAIN u \/ i = Len(u) + 1
      /\ Len(u) + 1 \in DOMAIN v /\ v[Len(u) + 1] = m
  <2> HIDE DEF Events
  <2> QED BY OneMore
<1>2. ~Asks(m, t, c) BY DEF Asks, Drops, Event
<1>3. RequestFits(t, c, v, sv, w, st) BY <1>2, RequestMore
<1>4. ASSUME NEW i \in DOMAIN v, Asks(v[i], t, c)
      PROVE  \E j \in DOMAIN v : j > i /\ Drops(v[j], t, c)
  <2>1. i \in DOMAIN u BY <1>1, <1>2, <1>4
  <2>2. Len(u) + 1 > i /\ Drops(v[Len(u) + 1], t, c) BY <2>1, <1>1
  <2> QED BY <2>2, <1>1
<1> QED BY <1>3, <1>4 DEF RequestFits

\* A call that does not wait asks.
LEMMA RequestAsked ==
  ASSUME NEW t, NEW c, NEW u \in Seq(Events), NEW m \in Events, NEW v, Put(u, v, m),
         NEW sv, NEW w, NEW st, Asks(m, t, c), st # "asking",
         <<t, c>> \in sv => \E i \in DOMAIN u : Drops(u[i], t, c),
         RequestFits(t, c, u, sv, w, st)
  PROVE  RequestFits(t, c, v, sv, w, "asking")
<1>1. /\ Len(u) \in Nat
      /\ \A i \in DOMAIN u : i \in DOMAIN v /\ v[i] = u[i] /\ i <= Len(u) /\ i \in Nat /\ i > 0
      /\ \A i \in DOMAIN v : i \in DOMAIN u \/ i = Len(u) + 1
      /\ Len(u) + 1 \in DOMAIN v /\ v[Len(u) + 1] = m
  <2> HIDE DEF Events
  <2> QED BY OneMore
<1>2. ASSUME NEW i \in DOMAIN v, Asks(v[i], t, c), <<t, c>> \in sv
      PROVE  \E j \in DOMAIN v : j < i /\ Drops(v[j], t, c)
  <2>1. CASE i \in DOMAIN u
    <3>1. PICK j \in DOMAIN u : j < i /\ Drops(u[j], t, c) BY <2>1, <1>1, <1>2 DEF RequestFits
    <3> QED BY <3>1, <1>1
  <2>2. CASE i = Len(u) + 1
    <3>1. PICK j \in DOMAIN u : Drops(u[j], t, c) BY <1>2
    <3>2. j < Len(u) + 1 BY <3>1, <1>1
    <3> QED BY <2>2, <3>1, <3>2, <1>1
  <2> QED BY <2>1, <2>2, <1>1
<1>3. ASSUME w = t, NEW i \in DOMAIN v, NEW j \in DOMAIN v, Asks(v[i], t, c), j > i,
             Asks(v[j], t, c)
      PROVE  \E d \in DOMAIN v : i < d /\ d < j /\ Drops(v[d], t, c)
  <2>1. i \in DOMAIN u /\ Asks(u[i], t, c) BY <1>1, <1>3
  <2>2. CASE j \in DOMAIN u
    <3>1. PICK d \in DOMAIN u : i < d /\ d < j /\ Drops(u[d], t, c)
      BY <2>1, <2>2, <1>1, <1>3 DEF RequestFits
    <3> QED BY <3>1, <1>1
  <2>3. CASE j = Len(u) + 1
    <3>1. PICK d \in DOMAIN u : d > i /\ Drops(u[d], t, c) BY <2>1, <1>3 DEF RequestFits
    <3>2. d < Len(u) + 1 /\ i < d BY <3>1, <2>1, <1>1
    <3> QED BY <2>3, <3>1, <3>2, <1>1
  <2> QED BY <2>2, <2>3, <1>1
<1> QED BY <1>2, <1>3 DEF RequestFits

\* With event m the call is served no more if it was its cancel, and not served anew.
ServedLess(sv, ss, m, t, c) ==
  <<t, c>> \in ss => ~Drops(m, t, c) /\ <<t, c>> \in sv

\* An event is read that is no cancel of the call; or it is, and the call is served no more.
LEMMA RequestLess ==
  ASSUME NEW t, NEW c, NEW u \in Seq(Events), NEW v, NEW m, Taken(u, v, m),
         NEW sv, NEW ss, NEW w, NEW st, ServedLess(sv, ss, m, t, c),
         RequestFits(t, c, u, sv, w, st)
  PROVE  RequestFits(t, c, v, ss, w, st)
<1>0. /\ ~Drops(m, t, c) \/ <<t, c>> \notin ss
      /\ <<t, c>> \in ss => <<t, c>> \in sv
  BY DEF ServedLess
<1>1. /\ 1 \in DOMAIN u /\ u[1] = m
      /\ \A i \in DOMAIN v : i \in Nat /\ i > 0 /\ i + 1 \in DOMAIN u /\ i + 1 # 1 /\ v[i] = u[i + 1]
      /\ \A i \in DOMAIN u : i \in Nat /\ i > 0 /\ (i # 1 => i - 1 \in DOMAIN v /\ v[i - 1] = u[i])
  <2> HIDE DEF Events
  <2> QED BY OneLess
<1> SUFFICES ASSUME NEW i \in DOMAIN v, Asks(v[i], t, c)
             PROVE  /\ <<t, c>> \in ss => \E j \in DOMAIN v : j < i /\ Drops(v[j], t, c)
                    /\ w = t =>
                         /\ st = "asking" \/ \E j \in DOMAIN v : j > i /\ Drops(v[j], t, c)
                         /\ \A j \in DOMAIN v : j > i /\ Asks(v[j], t, c) =>
                              \E d \in DOMAIN v : i < d /\ d < j /\ Drops(v[d], t, c)
  BY DEF RequestFits
<1>2. i \in Nat /\ i + 1 \in DOMAIN u /\ Asks(u[i + 1], t, c) BY <1>1
<1>3. ASSUME <<t, c>> \in ss PROVE \E j \in DOMAIN v : j < i /\ Drops(v[j], t, c)
  <2>1. PICK j \in DOMAIN u : j < i + 1 /\ Drops(u[j], t, c)
    BY <1>0, <1>2, <1>3 DEF RequestFits
  <2>2. j # 1 BY <2>1, <1>0, <1>1, <1>3
  <2>3. j - 1 \in DOMAIN v /\ v[j - 1] = u[j] /\ j \in Nat BY <2>2, <1>1
  <2>4. j - 1 < i BY <2>1, <2>3, <1>2
  <2> QED BY <2>1, <2>3, <2>4
<1>4. ASSUME w = t, st # "asking" PROVE \E j \in DOMAIN v : j > i /\ Drops(v[j], t, c)
  <2>1. PICK j \in DOMAIN u : j > i + 1 /\ Drops(u[j], t, c) BY <1>2, <1>4 DEF RequestFits
  <2>2. j \in Nat /\ j # 1 BY <2>1, <1>1, <1>2
  <2>3. j - 1 \in DOMAIN v /\ v[j - 1] = u[j] BY <2>2, <1>1
  <2>4. j - 1 > i BY <2>1, <2>2, <1>2
  <2> QED BY <2>1, <2>3, <2>4
<1>5. ASSUME w = t, NEW j \in DOMAIN v, j > i, Asks(v[j], t, c)
      PROVE  \E d \in DOMAIN v : i < d /\ d < j /\ Drops(v[d], t, c)
  <2>1. j \in Nat /\ j + 1 \in DOMAIN u /\ Asks(u[j + 1], t, c) /\ j + 1 > i + 1
    BY <1>1, <1>2, <1>5
  <2>2. PICK d \in DOMAIN u : i + 1 < d /\ d < j + 1 /\ Drops(u[d], t, c)
    BY <2>1, <1>2, <1>5 DEF RequestFits
  <2>3. d \in Nat /\ d # 1 BY <2>2, <1>1, <1>2
  <2>4. d - 1 \in DOMAIN v /\ v[d - 1] = u[d] BY <2>3, <1>1
  <2>5. i < d - 1 /\ d - 1 < j BY <2>1, <2>2, <2>3, <1>2
  <2> QED BY <2>2, <2>4, <2>5
<1> QED BY <1>3, <1>4, <1>5

\* A request that is to be read next is not served yet.
LEMMA RequestUnserved ==
  ASSUME NEW t, NEW c, NEW u \in Seq(Events), NEW v, NEW m, Taken(u, v, m),
         NEW sv, NEW w, NEW st, Asks(m, t, c), RequestFits(t, c, u, sv, w, st)
  PROVE  <<t, c>> \notin sv
<1>1. /\ 1 \in DOMAIN u /\ u[1] = m
      /\ \A i \in DOMAIN u : i \in Nat /\ i > 0
  <2> HIDE DEF Events
  <2> QED BY OneLess
<1>2. \A j \in DOMAIN u : ~(j < 1) BY <1>1
<1> QED BY <1>1, <1>2 DEF RequestFits

\* The Turn that works is t.
WorksOn(w, t) == w = t
\* The call waits for its request or its cancel is to be read, and so it is before it asks again.
Expected(t, c, u, st) ==
  /\ st = "asking" \/ \E j \in DOMAIN u : Drops(u[j], t, c)
  /\ \A i \in DOMAIN u : Asks(u[i], t, c) => \E j \in DOMAIN u : Drops(u[j], t, c)

\* A request is read. Before the next of its call, its cancel is to be read.
LEMMA RequestRead ==
  ASSUME NEW t, NEW c, NEW u \in Seq(Events), NEW v, NEW m, Taken(u, v, m),
         NEW sv, NEW ss, NEW w, NEW st, Asks(m, t, c), WorksOn(w, t),
         RequestFits(t, c, u, sv, w, st)
  PROVE  RequestFits(t, c, v, ss, w, st) /\ Expected(t, c, v, st)
<1>0. w = t BY DEF WorksOn
<1>1. /\ 1 \in DOMAIN u /\ u[1] = m
      /\ \A i \in DOMAIN v : i \in Nat /\ i > 0 /\ i + 1 \in DOMAIN u /\ i + 1 # 1 /\ v[i] = u[i + 1]
      /\ \A i \in DOMAIN u : i \in Nat /\ i > 0 /\ (i # 1 => i - 1 \in DOMAIN v /\ v[i - 1] = u[i])
  <2> HIDE DEF Events
  <2> QED BY OneLess
<1>2. ~Drops(m, t, c) BY DEF Asks, Drops, Event
<1>4. RequestFits(t, c, v, {}, w, st) BY RequestLess DEF ServedLess
<1>5. ASSUME NEW i \in DOMAIN v, Asks(v[i], t, c)
      PROVE  \E j \in DOMAIN v : j < i /\ Drops(v[j], t, c)
  <2>1. i \in Nat /\ i + 1 \in DOMAIN u /\ Asks(u[i + 1], t, c) /\ i + 1 > 1 BY <1>1, <1>5
  <2>2. PICK j \in DOMAIN u : 1 < j /\ j < i + 1 /\ Drops(u[j], t, c)
    BY <2>1, <1>0, <1>1 DEF RequestFits
  <2>3. j \in Nat /\ j - 1 \in DOMAIN v /\ v[j - 1] = u[j] BY <2>2, <1>1
  <2>4. j - 1 < i BY <2>1, <2>2, <2>3
  <2> QED BY <2>2, <2>3, <2>4
<1>6. RequestFits(t, c, v, ss, w, st) BY <1>4, <1>5 DEF RequestFits
<1>7. ASSUME st # "asking" PROVE \E j \in DOMAIN v : Drops(v[j], t, c)
  <2>1. PICK j \in DOMAIN u : j > 1 /\ Drops(u[j], t, c) BY <1>0, <1>1, <1>7 DEF RequestFits
  <2>2. j - 1 \in DOMAIN v /\ v[j - 1] = u[j] BY <2>1, <1>1
  <2> QED BY <2>1, <2>2
<1> QED BY <1>5, <1>6, <1>7 DEF Expected

-----------------------------------------------------------------------------
\* The events fit what the pipe may carry.
LEMMA EventsFit ==
  ASSUME NEW t \in TurnIds, NEW n \in Nat, t <= n
  PROVE  /\ \A k \in Kinds : \A b \in Nat : EventFits(Event(k, t, b, 0), n)
         /\ \A b, i \in Nat : EventFits(Event("delta", t, b, i), n)
         /\ \A b \in Nat : EventFits(Event("end", t, b, 0), n)
         /\ \A type \in ToolEvents : \A c \in Calls : EventFits(Event(type, t, c, 0), n)
         /\ \A type \in {"turn.completed", "turn.cancelled", "error"} :
              EventFits(Event(type, t, 0, 0), n)
BY DEF EventFits, Event, Events, ToolEvents, BlockEvents, Kinds

\* The pipe with one more event.
LEMMA PipeMore ==
  ASSUME NEW n, NEW u, PipeFits(u, n), NEW m, EventFits(m, n), NEW v, Put(u, v, m)
  PROVE  PipeFits(v, n)
<1>1. u \in Seq(Events) /\ m \in Events BY DEF PipeFits, EventFits
<1>2. /\ v \in Seq(Events)
      /\ \A i \in DOMAIN u : i \in DOMAIN v /\ v[i] = u[i]
      /\ \A i \in DOMAIN v : i \in DOMAIN u \/ i = Len(u) + 1
      /\ v[Len(u) + 1] = m
  <2> HIDE DEF Events
  <2> QED BY <1>1, OneMore
<1> QED BY <1>2 DEF PipeFits

\* What was reported is noted.
LEMMA Noted ==
  ASSUME native \in Natives, NEW k \in Nat, NEW texts \in SUBSET (Nat \X Nat \X Nat),
         native' = [native EXCEPT !.events = @ + k, !.texts = @ \cup texts]
  PROVE  /\ native' \in Natives /\ native'.lossy = native.lossy
         /\ native'.texts = native.texts \cup texts
<1> DEFINE Texts == Nat \X Nat \X Nat
<1>1. /\ native.events \in Nat /\ native.texts \in SUBSET Texts
      /\ native \in [texts : SUBSET Texts, lossy : SUBSET TurnIds, events : Nat, lapses : Nat]
  BY DEF Natives
<1>2. texts \in SUBSET Texts OBVIOUS
<1> HIDE DEF Texts
<1>3. native.texts \cup texts \in SUBSET Texts BY <1>1, <1>2
<1>4. native.events + k \in Nat BY <1>1
<1>5. /\ native' \in [texts : SUBSET Texts, lossy : SUBSET TurnIds, events : Nat, lapses : Nat]
      /\ native'.lossy = native.lossy /\ native'.texts = native.texts \cup texts
  BY <1>1, <1>3, <1>4
<1> QED BY <1>5 DEF Texts, Natives

\* One event is reported.
LEMMA ReportOne ==
  ASSUME NEW n, PipeFits(wire, n), native \in Natives, NEW e, EventFits(e, n),
         NEW texts \in SUBSET (Nat \X Nat \X Nat), Report(<<e>>, texts)
  PROVE  /\ Put(wire, wire', e) /\ PipeFits(wire', n)
         /\ native' \in Natives /\ native'.lossy = native.lossy
         /\ native'.texts = native.texts \cup texts
<1>1. wire \in Seq(Events) /\ e \in Events BY DEF PipeFits, EventFits
<1>2. wire' = wire \o <<e>> BY DEF Report
<1>3. wire \o <<e>> = Append(wire, e)
  <2> HIDE DEF Events
  <2> QED BY <1>1
<1>4. Put(wire, wire', e) BY <1>2, <1>3 DEF Put
<1>5. PipeFits(wire', n) BY <1>4, PipeMore
<1>6. native' = [native EXCEPT !.events = @ + 1, !.texts = @ \cup texts] BY DEF Report
<1> QED BY <1>4, <1>5, <1>6, Noted

\* Two events are reported.
LEMMA ReportTwo ==
  ASSUME NEW n, PipeFits(wire, n), native \in Natives, NEW e, EventFits(e, n), NEW f, EventFits(f, n),
         NEW texts \in SUBSET (Nat \X Nat \X Nat), Report(<<e>> \o <<f>>, texts)
  PROVE  /\ \E p : Put(wire, p, e) /\ Put(p, wire', f) /\ PipeFits(p, n)
         /\ PipeFits(wire', n)
         /\ native' \in Natives /\ native'.lossy = native.lossy
         /\ native'.texts = native.texts \cup texts
<1>1. wire \in Seq(Events) /\ e \in Events /\ f \in Events BY DEF PipeFits, EventFits
<1>2. wire' = wire \o (<<e>> \o <<f>>) BY DEF Report
<1>3. wire \o (<<e>> \o <<f>>) = Append(Append(wire, e), f)
  <2> HIDE DEF Events
  <2> QED BY <1>1
<1> DEFINE p == Append(wire, e)
<1>4. Put(wire, p, e) /\ Put(p, wire', f) BY <1>2, <1>3 DEF Put
<1> HIDE DEF p
<1>5. PipeFits(p, n) BY <1>4, PipeMore
<1>6. PipeFits(wire', n) BY <1>4, <1>5, PipeMore
<1>7. native' = [native EXCEPT !.events = @ + 2, !.texts = @ \cup texts] BY DEF Report
<1> QED BY <1>4, <1>5, <1>6, <1>7, Noted

\* The pipe carries some more events of Turn t, none of them a request.
Written(u, v, t) ==
  /\ \A i \in DOMAIN u : i \in DOMAIN v /\ v[i] = u[i]
  /\ \A o, rs, texts : \A s \in Sessions :
       o # t /\ StreamFits(o, u, rs, s, texts) => StreamFits(o, v, rs, s, texts)
  /\ \A o, c, sv, w, st : RequestFits(o, c, u, sv, w, st) => RequestFits(o, c, v, sv, w, st)

\* Nothing is written.
LEMMA WrittenNone ==
  ASSUME NEW u, NEW t
  PROVE  Written(u, u, t)
BY DEF Written

\* One event is written.
LEMMA WrittenOne ==
  ASSUME NEW n, NEW u, PipeFits(u, n), NEW m, EventFits(m, n), NEW v, Put(u, v, m), m.type # "request",
         NEW t, m.turn = t
  PROVE  Written(u, v, t)
<1>1. u \in Seq(Events) /\ m \in Events BY DEF PipeFits, EventFits
<1>2. \A i \in DOMAIN u : i \in DOMAIN v /\ v[i] = u[i]
  <2> HIDE DEF Events
  <2> QED BY <1>1, OneMore
<1>3. ASSUME NEW o, NEW rs, NEW texts, NEW s \in Sessions, o # t, StreamFits(o, u, rs, s, texts)
      PROVE  StreamFits(o, v, rs, s, texts)
  <2>1. ~OfTurn(m, o) BY <1>3 DEF OfTurn
  <2> QED BY <2>1, <1>1, <1>3, StreamMore
<1>4. ASSUME NEW o, NEW c, NEW sv, NEW w, NEW st, RequestFits(o, c, u, sv, w, st)
      PROVE  RequestFits(o, c, v, sv, w, st)
  <2>1. ~Asks(m, o, c) BY DEF Asks
  <2> QED BY <2>1, <1>1, <1>4, RequestMore
<1> QED BY <1>2, <1>3, <1>4 DEF Written

\* One event is written after others.
LEMMA WrittenMore ==
  ASSUME NEW u, NEW p, NEW v, NEW t, Written(u, p, t), Written(p, v, t)
  PROVE  Written(u, v, t)
<1>1. \A i \in DOMAIN u : i \in DOMAIN v /\ v[i] = u[i] BY DEF Written
<1>2. ASSUME NEW o, NEW rs, NEW texts, NEW s \in Sessions, o # t, StreamFits(o, u, rs, s, texts)
      PROVE  StreamFits(o, v, rs, s, texts)
  <2>1. StreamFits(o, p, rs, s, texts) BY <1>2 DEF Written
  <2> QED BY <2>1, <1>2 DEF Written
<1>3. ASSUME NEW o, NEW c, NEW sv, NEW w, NEW st, RequestFits(o, c, u, sv, w, st)
      PROVE  RequestFits(o, c, v, sv, w, st)
  <2>1. RequestFits(o, c, p, sv, w, st) BY <1>3 DEF Written
  <2> QED BY <2>1 DEF Written
<1> QED BY <1>1, <1>2, <1>3 DEF Written

-----------------------------------------------------------------------------
\* The state is right about the blocks of Turn t, when it works.
StreamIs(t, u, s, texts) ==
  ctx.turn = t /\ t \notin native.lossy => StreamFits(t, u, rows, s, texts)

\* A step of a session: the rows stay, and so does what the daemon knows.
LEMMA WorkerStep ==
  ASSUME TranscriptIInv, NEW t \in TurnIds, NEW z \in Sessions, Worker(t, z), t <= turn.latest,
         z.closing \/ z.phase = "closed" <=> sess[t].closing \/ sess[t].phase = "closed",
         PipeFits(wire', turn.latest), native' \in Natives, native'.lossy = native.lossy,
         native.texts \subseteq native'.texts, RequestsFit',
         \A r \in serving : sess'[r[1]].tool[r[2]] = "asking" \/ Cancelled(r[1], r[2])',
         \A o, rs, texts : \A s \in Sessions :
           o # t /\ StreamFits(o, wire, rs, s, texts) => StreamFits(o, wire', rs, s, texts),
         StreamIs(t, wire', z, native'.texts)
  PROVE  TranscriptIInv'
<1>1. /\ UNCHANGED <<rows, turn, ctx, ready, serving>>
      /\ sess' = [sess EXCEPT ![t] = z]
  BY DEF Worker
<1>2. /\ sess \in [TurnIds -> Sessions] /\ sess' \in [TurnIds -> Sessions] /\ sess'[t] = z
      /\ \A o \in TurnIds : o # t => sess'[o] = sess[o]
  <2>1. sess \in [TurnIds -> Sessions] BY DEF TranscriptIInv, TranscriptTyped
  <2> HIDE DEF Sessions
  <2> QED BY <1>1, <2>1
<1>3. TranscriptTyped'
  <2> HIDE DEF Sessions, Rows, Natives
  <2> QED BY <1>1, <1>2 DEF TranscriptIInv, TranscriptTyped
<1>4. PipeFits(wire', turn'.latest) BY <1>1
<1>5. WorkIsLatest'
  <2>1. ctx.turn # NoTurn => ctx.turn \in TurnIds BY DEF TranscriptIInv, TranscriptTyped
  <2>2. sess[t].closing \in BOOLEAN /\ z.closing \in BOOLEAN BY <1>2 DEF Sessions
  <2> HIDE DEF Sessions
  <2> QED BY <1>1, <1>2, <2>1, <2>2 DEF TranscriptIInv, WorkIsLatest
<1>6. NothingAhead'
  <2>1. \A o \in TurnIds : o > turn.latest => sess[o] = ClosedSession /\ o # t
    BY DEF TranscriptIInv, NothingAhead, TranscriptTyped, TurnIds
  <2> HIDE DEF Sessions, ClosedSession
  <2> QED BY <1>1, <1>2, <2>1 DEF TranscriptIInv, NothingAhead
<1>7. RowsFit' BY <1>1 DEF TranscriptIInv, RowsFit, IsBlock
<1>8. OnlyWorkIsBusy' BY <1>1 DEF TranscriptIInv, OnlyWorkIsBusy, Streaming, Running
<1>9. StartedHaveRows' BY <1>1 DEF TranscriptIInv, StartedHaveRows, CallHasRow, IsToolCall
<1>10. ServedFit'
  <2> SUFFICES ASSUME NEW r \in serving
               PROVE  /\ CallHasRow(r[1], r[2])'
                      /\ \/ ctx.turn = r[1] /\ r[2] \in ctx.dispatched
                         \/ sess'[r[1]].closing \/ sess'[r[1]].phase = "closed"
    BY <1>1 DEF ServedFit
  <2>1. r[1] \in TurnIds BY DEF TranscriptIInv, TranscriptTyped
  <2>2. /\ CallHasRow(r[1], r[2])
        /\ \/ ctx.turn = r[1] /\ r[2] \in ctx.dispatched
           \/ sess[r[1]].closing \/ sess[r[1]].phase = "closed"
    BY DEF TranscriptIInv, ServedFit
  <2>3. CallHasRow(r[1], r[2])' BY <2>2, <1>1 DEF CallHasRow, IsToolCall
  <2> HIDE DEF Sessions
  <2> QED BY <2>1, <2>2, <2>3, <1>2
<1>11. StreamsFit'
  <2> SUFFICES ASSUME ctx.turn # NoTurn, ctx.turn \notin native.lossy
               PROVE  StreamFits(ctx.turn, wire', rows, sess'[ctx.turn], native'.texts)
    BY <1>1 DEF StreamsFit
  <2>1. ctx.turn \in TurnIds BY DEF TranscriptIInv, TranscriptTyped
  <2>2. StreamFits(ctx.turn, wire, rows, sess[ctx.turn], native.texts)
    BY DEF TranscriptIInv, StreamsFit
  <2>3. CASE ctx.turn = t BY <2>3, <1>2 DEF StreamIs
  <2>4. CASE ctx.turn # t
    <3>1. sess'[ctx.turn] = sess[ctx.turn] /\ sess[ctx.turn] \in Sessions
      <4> HIDE DEF Sessions
      <4> QED BY <2>1, <2>4, <1>2
    <3>2. StreamFits(ctx.turn, wire', rows, sess[ctx.turn], native.texts) BY <2>2, <2>4, <3>1
    <3>3. StreamFits(ctx.turn, wire', rows, sess[ctx.turn], native'.texts)
      BY <3>1, <3>2, StreamSession
    <3> QED BY <3>1, <3>3
  <2> QED BY <2>3, <2>4
<1>12. TextsWhole' BY <1>1 DEF TranscriptIInv, TextsWhole
<1> QED BY <1>3, <1>4, <1>5, <1>6, <1>7, <1>8, <1>9, <1>10, <1>11, <1>12 DEF TranscriptIInv

\* A step of a session that writes no request; a call that waits goes on waiting.
LEMMA WorkerQuietStep ==
  ASSUME TranscriptIInv, NEW t \in TurnIds, NEW z \in Sessions, Worker(t, z), t <= turn.latest,
         z.closing \/ z.phase = "closed" <=> sess[t].closing \/ sess[t].phase = "closed",
         PipeFits(wire', turn.latest), native' \in Natives, native'.lossy = native.lossy,
         native.texts \subseteq native'.texts, Written(wire, wire', t),
         \A c \in Calls : sess[t].tool[c] = "asking" => z.tool[c] = "asking",
         StreamIs(t, wire', z, native'.texts)
  PROVE  TranscriptIInv'
<1>1. UNCHANGED <<ctx, serving>> /\ sess' = [sess EXCEPT ![t] = z] BY DEF Worker
<1>2. /\ sess \in [TurnIds -> Sessions] /\ sess'[t] = z
      /\ \A o \in TurnIds : o # t => sess'[o] = sess[o]
  <2>1. sess \in [TurnIds -> Sessions] BY DEF TranscriptIInv, TranscriptTyped
  <2> HIDE DEF Sessions
  <2> QED BY <1>1, <2>1
<1>3. \A o \in TurnIds : \A c \in Calls : sess[o].tool[c] = "asking" => sess'[o].tool[c] = "asking"
  BY <1>2
<1>4. RequestsFit'
  <2> SUFFICES ASSUME NEW o \in TurnIds, NEW c \in Calls
               PROVE  RequestFits(o, c, wire', serving, ctx.turn, sess'[o].tool[c])
    BY <1>1 DEF RequestsFit
  <2>1. RequestFits(o, c, wire, serving, ctx.turn, sess[o].tool[c])
    BY DEF TranscriptIInv, RequestsFit
  <2>2. RequestFits(o, c, wire', serving, ctx.turn, sess[o].tool[c]) BY <2>1 DEF Written
  <2> QED BY <2>2, <1>3, RequestState
<1>5. ASSUME NEW r \in serving
      PROVE  sess'[r[1]].tool[r[2]] = "asking" \/ Cancelled(r[1], r[2])'
  <2>1. r[1] \in TurnIds /\ r[2] \in Calls BY DEF TranscriptIInv, TranscriptTyped
  <2>2. sess[r[1]].tool[r[2]] = "asking" \/ Cancelled(r[1], r[2])
    BY DEF TranscriptIInv, ServedFit
  <2>3. Cancelled(r[1], r[2]) => Cancelled(r[1], r[2])' BY DEF Cancelled, Written
  <2> QED BY <2>1, <2>2, <2>3, <1>3
<1>6. \A o, rs, texts : \A s \in Sessions :
        o # t /\ StreamFits(o, wire, rs, s, texts) => StreamFits(o, wire', rs, s, texts)
  BY DEF Written
<1> QED BY <1>4, <1>5, <1>6, WorkerStep

-----------------------------------------------------------------------------
\* What holds of a session.
LEMMA SessionFacts ==
  ASSUME TranscriptIInv, NEW t \in TurnIds
  PROVE  /\ sess[t] \in Sessions /\ turn.latest \in Nat /\ native \in Natives /\ t \in Nat
         /\ wire \in Seq(Events) /\ PipeFits(wire, turn.latest)
         /\ (sess[t] # ClosedSession => t <= turn.latest)
         /\ StreamIs(t, wire, sess[t], native.texts)
<1>1. /\ sess[t] \in Sessions /\ native \in Natives /\ PipeFits(wire, turn.latest)
      /\ turn.latest \in Nat
  <2> HIDE DEF Sessions, Natives
  <2> QED BY DEF TranscriptIInv, TranscriptTyped
<1>2. t \in Nat BY DEF TurnIds
<1>3. wire \in Seq(Events) BY <1>1 DEF PipeFits
<1>4. sess[t] # ClosedSession => t <= turn.latest
  <2> HIDE DEF ClosedSession
  <2> QED BY <1>1, <1>2 DEF TranscriptIInv, NothingAhead
<1>5. StreamIs(t, wire, sess[t], native.texts)
  BY DEF TurnIds, NoTurn, TranscriptIInv, StreamsFit, StreamIs
<1> QED BY <1>1, <1>2, <1>3, <1>4, <1>5

\* A session that is not as a closed one without calls.
LEMMA SessionThere ==
  ASSUME NEW t, \/ sess[t].phase # "closed" \/ sess[t].closing = TRUE
                \/ \E c \in Calls : sess[t].tool[c] # "none"
  PROVE  sess[t] # ClosedSession
<1>1. /\ ClosedSession.phase = "closed" /\ ClosedSession.closing = FALSE
      /\ \A c \in Calls : ClosedSession.tool[c] = "none"
  BY DEF ClosedSession, Fresh
<1> HIDE DEF ClosedSession
<1> QED BY <1>1

\* The session forgets the blocks of a message.
LEMMA MessageEdgeStep ==
  ASSUME TranscriptIInv, NEW t \in TurnIds, MessageEdge(t)
  PROVE  TranscriptIInv'
<1> DEFINE z == [sess[t] EXCEPT !.block = Fresh.block, !.text = Fresh.text]
<1>1. Worker(t, z) /\ UNCHANGED <<wire, native>> /\ sess[t].phase # "closed"
  BY DEF MessageEdge, Opened
<1>2. /\ sess[t] \in Sessions /\ turn.latest \in Nat /\ native \in Natives
      /\ PipeFits(wire, turn.latest) /\ t <= turn.latest /\ StreamIs(t, wire, sess[t], native.texts)
  BY <1>1, SessionFacts, SessionThere
<1>3. /\ z \in Sessions /\ z.phase = sess[t].phase /\ z.closing = sess[t].closing
      /\ z.tool = sess[t].tool /\ z.blocks = sess[t].blocks
      /\ \A k \in Kinds : z.block[k] = NoTurn
  BY <1>2 DEF Sessions, Fresh, NoTurn
<1> HIDE DEF z
<1>4. StreamIs(t, wire, z, native.texts) BY <1>2, <1>3, StreamSession DEF StreamIs
<1>5. Written(wire, wire', t) BY <1>1, WrittenNone
<1>6. /\ PipeFits(wire', turn.latest) /\ native' \in Natives /\ native'.lossy = native.lossy
      /\ native.texts \subseteq native'.texts /\ StreamIs(t, wire', z, native'.texts)
  BY <1>1, <1>2, <1>4
<1> QED BY <1>1, <1>2, <1>3, <1>5, <1>6, WorkerQuietStep

\* A tool event is written and the state of the call may change.
LEMMA ToolStep ==
  ASSUME TranscriptIInv, NEW t \in TurnIds, NEW c \in Calls, NEW st,
         st \in {"none", "running", "asking", "answered"},
         Worker(t, [sess[t] EXCEPT !.tool[c] = st]) \/ (Worker(t, sess[t]) /\ st = sess[t].tool[c]),
         sess[t].tool[c] # "asking", sess[t] # ClosedSession,
         NEW type \in ToolEvents, type # "request", Emit(<<Event(type, t, c, 0)>>)
  PROVE  TranscriptIInv'
<1>1. /\ sess[t] \in Sessions /\ turn.latest \in Nat /\ native \in Natives
      /\ PipeFits(wire, turn.latest) /\ t <= turn.latest /\ StreamIs(t, wire, sess[t], native.texts)
      /\ wire \in Seq(Events)
  BY SessionFacts
<1>2. PICK z : /\ Worker(t, z) /\ z \in Sessions
               /\ z.phase = sess[t].phase /\ z.closing = sess[t].closing
               /\ z.block = sess[t].block /\ z.text = sess[t].text /\ z.blocks = sess[t].blocks
               /\ \A d \in Calls : sess[t].tool[d] = "asking" => z.tool[d] = "asking"
  <2>1. CASE Worker(t, [sess[t] EXCEPT !.tool[c] = st])
    <3> DEFINE z == [sess[t] EXCEPT !.tool[c] = st]
    <3>1. /\ z \in Sessions /\ z.phase = sess[t].phase /\ z.closing = sess[t].closing
          /\ z.block = sess[t].block /\ z.text = sess[t].text /\ z.blocks = sess[t].blocks
          /\ \A d \in Calls : sess[t].tool[d] = "asking" => z.tool[d] = "asking"
      BY <1>1 DEF Sessions
    <3> HIDE DEF z
    <3>2. Worker(t, z) BY <2>1 DEF z
    <3> QED BY <3>1, <3>2
  <2>2. CASE Worker(t, sess[t]) BY <2>2, <1>1
  <2> QED BY <2>1, <2>2
<1> DEFINE e == Event(type, t, c, 0)
<1>3. EventFits(e, turn.latest) BY <1>1, EventsFit
<1>4. e.type = type /\ e.turn = t /\ Emit(<<e>>) BY DEF Event
<1> HIDE DEF e
<1>5. /\ Put(wire, wire', e) /\ PipeFits(wire', turn.latest)
      /\ native' \in Natives /\ native'.lossy = native.lossy /\ native'.texts = native.texts
  <2>1. Report(<<e>>, {}) BY <1>4 DEF Emit
  <2>2. {} \in SUBSET (Nat \X Nat \X Nat) OBVIOUS
  <2>3. /\ Put(wire, wire', e) /\ PipeFits(wire', turn.latest)
        /\ native' \in Natives /\ native'.lossy = native.lossy
        /\ native'.texts = native.texts \cup {}
    BY <1>1, <1>3, <2>1, <2>2, ReportOne
  <2> QED BY <2>3
<1>6. Written(wire, wire', t) BY <1>1, <1>3, <1>4, <1>5, WrittenOne
<1>7. StreamIs(t, wire', z, native'.texts)
  <2> SUFFICES ASSUME ctx.turn = t, t \notin native.lossy
               PROVE  StreamFits(t, wire', rows, z, native'.texts)
    BY DEF StreamIs
  <2>1. StreamFits(t, wire, rows, sess[t], native.texts) BY <1>1 DEF StreamIs
  <2>2. ~OfTurn(e, t) /\ e \in Events
    BY <1>3, <1>4 DEF OfTurn, BlockEvents, ToolEvents, Kinds, EventFits
  <2>3. StreamFits(t, wire', rows, sess[t], native.texts)
    BY <1>1, <1>5, <2>1, <2>2, StreamMore
  <2> QED BY <1>1, <1>2, <1>5, <2>3, StreamSession
<1> QED BY <1>1, <1>2, <1>5, <1>6, <1>7, WorkerQuietStep

\* A tool starts.
LEMMA ToolStartsStep ==
  ASSUME TranscriptIInv, NEW t \in TurnIds, NEW c \in Calls, ToolStarts(t, c)
  PROVE  TranscriptIInv'
<1>1. /\ sess[t].phase # "closed" /\ sess[t].tool[c] = "none"
      /\ Worker(t, [sess[t] EXCEPT !.tool[c] = "running"])
      /\ Emit(<<Event("tool.started", t, c, 0)>>)
  BY DEF ToolStarts, Opened
<1>2. "tool.started" \in ToolEvents BY DEF ToolEvents
<1> QED BY <1>1, <1>2, SessionThere, ToolStep

\* A tool tells how it goes.
LEMMA ToolUpdatesStep ==
  ASSUME TranscriptIInv, NEW t \in TurnIds, NEW c \in Calls, ToolUpdates(t, c)
  PROVE  TranscriptIInv'
<1>1. /\ sess[t].phase # "closed" /\ sess[t].tool[c] = "running" /\ Worker(t, sess[t])
      /\ Emit(<<Event("tool.updated", t, c, 0)>>)
  BY DEF ToolUpdates, Opened
<1>2. "tool.updated" \in ToolEvents BY DEF ToolEvents
<1> QED BY <1>1, <1>2, SessionThere, ToolStep

\* A tool ends.
LEMMA ToolEndsStep ==
  ASSUME TranscriptIInv, NEW t \in TurnIds, NEW c \in Calls, ToolEnds(t, c)
  PROVE  TranscriptIInv'
<1>1. /\ sess[t].phase # "closed" /\ sess[t].tool[c] \in {"running", "answered"}
      /\ Worker(t, [sess[t] EXCEPT !.tool[c] = "none"])
      /\ \E outcome \in {"tool.completed", "tool.failed"} : Emit(<<Event(outcome, t, c, 0)>>)
  BY DEF ToolEnds, Opened
<1>2. PICK outcome \in {"tool.completed", "tool.failed"} : Emit(<<Event(outcome, t, c, 0)>>)
  BY <1>1
<1>3. outcome \in ToolEvents /\ outcome # "request" BY DEF ToolEvents
<1>4. sess[t].tool[c] # "asking" BY <1>1
<1> QED BY <1>1, <1>2, <1>3, <1>4, SessionThere, ToolStep

\* The session of a call that asks or drops its request.
LEMMA CallSession ==
  ASSUME TranscriptIInv, NEW t \in TurnIds, NEW c \in Calls,
         NEW st \in {"none", "running", "asking", "answered"}, NEW z,
         z = [sess[t] EXCEPT !.tool[c] = st], Worker(t, z)
  PROVE  /\ z \in Sessions /\ z.phase = sess[t].phase /\ z.closing = sess[t].closing
         /\ z.block = sess[t].block /\ z.text = sess[t].text /\ z.blocks = sess[t].blocks
         /\ \A o \in TurnIds : \A d \in Calls :
              sess'[o].tool[d] = IF o = t /\ d = c THEN st ELSE sess[o].tool[d]
         /\ UNCHANGED <<ctx, serving>>
<1>1. sess[t] \in Sessions BY SessionFacts
<1>2. /\ z \in Sessions /\ z.phase = sess[t].phase /\ z.closing = sess[t].closing
      /\ z.block = sess[t].block /\ z.text = sess[t].text /\ z.blocks = sess[t].blocks
      /\ \A d \in Calls : z.tool[d] = IF d = c THEN st ELSE sess[t].tool[d]
  BY <1>1 DEF Sessions
<1>3. sess \in [TurnIds -> Sessions] BY DEF TranscriptIInv, TranscriptTyped
<1>4. sess' = [sess EXCEPT ![t] = z] /\ UNCHANGED <<ctx, serving>> BY DEF Worker
<1>5. \A o \in TurnIds : sess'[o] = IF o = t THEN z ELSE sess[o]
  <2> HIDE DEF Sessions
  <2> QED BY <1>3, <1>4
<1>6. ASSUME NEW o \in TurnIds, NEW d \in Calls
      PROVE  sess'[o].tool[d] = IF o = t /\ d = c THEN st ELSE sess[o].tool[d]
  <2>1. sess'[o] = IF o = t THEN z ELSE sess[o] BY <1>5
  <2>2. z.tool[d] = IF d = c THEN st ELSE sess[t].tool[d] BY <1>2
  <2> QED BY ONLY <2>1, <2>2
<1> QED BY <1>2, <1>4, <1>6

\* The event of a call is written: what the blocks of Turns are does not change.
LEMMA CallEvent ==
  ASSUME TranscriptIInv, NEW t \in TurnIds, NEW c \in Calls, NEW type \in ToolEvents,
         t <= turn.latest, NEW e, e = Event(type, t, c, 0), Emit(<<e>>), NEW z \in Sessions,
         z.block = sess[t].block, z.text = sess[t].text, z.blocks = sess[t].blocks
  PROVE  /\ Put(wire, wire', e) /\ PipeFits(wire', turn.latest) /\ e \in Events
         /\ native' \in Natives /\ native'.lossy = native.lossy /\ native'.texts = native.texts
         /\ \A o, rs, texts : \A s \in Sessions :
              o # t /\ StreamFits(o, wire, rs, s, texts) => StreamFits(o, wire', rs, s, texts)
         /\ StreamIs(t, wire', z, native'.texts)
<1>1. /\ sess[t] \in Sessions /\ turn.latest \in Nat /\ native \in Natives
      /\ PipeFits(wire, turn.latest) /\ StreamIs(t, wire, sess[t], native.texts)
      /\ wire \in Seq(Events)
  BY SessionFacts
<1>2. EventFits(e, turn.latest) BY <1>1, EventsFit
<1>3. e.type = type /\ e.turn = t BY DEF Event
<1>4. ~OfTurn(e, t) /\ e \in Events
  BY <1>2, <1>3 DEF OfTurn, BlockEvents, ToolEvents, Kinds, EventFits
<1>5. /\ Put(wire, wire', e) /\ PipeFits(wire', turn.latest)
      /\ native' \in Natives /\ native'.lossy = native.lossy /\ native'.texts = native.texts
  <2>1. Report(<<e>>, {}) BY DEF Emit
  <2>2. {} \in SUBSET (Nat \X Nat \X Nat) OBVIOUS
  <2>3. /\ Put(wire, wire', e) /\ PipeFits(wire', turn.latest)
        /\ native' \in Natives /\ native'.lossy = native.lossy
        /\ native'.texts = native.texts \cup {}
    BY <1>1, <1>2, <2>1, <2>2, ReportOne
  <2> QED BY <2>3
<1>6. ASSUME NEW o, NEW rs, NEW texts, NEW s \in Sessions, o # t, StreamFits(o, wire, rs, s, texts)
      PROVE  StreamFits(o, wire', rs, s, texts)
  <2>1. ~OfTurn(e, o) BY <1>3, <1>6 DEF OfTurn
  <2> QED BY <2>1, <1>1, <1>4, <1>5, <1>6, StreamMore
<1>7. StreamIs(t, wire', z, native'.texts)
  <2> SUFFICES ASSUME ctx.turn = t, t \notin native.lossy
               PROVE  StreamFits(t, wire', rows, z, native'.texts)
    BY DEF StreamIs
  <2>1. StreamFits(t, wire, rows, sess[t], native.texts) BY <1>1 DEF StreamIs
  <2>2. StreamFits(t, wire', rows, sess[t], native.texts)
    BY <1>1, <1>4, <1>5, <2>1, StreamMore
  <2> QED BY <1>1, <1>5, <2>2, StreamSession
<1> QED BY <1>4, <1>5, <1>6, <1>7

\* What is cancelled stays so while the pipe grows.
LEMMA CancelStays ==
  ASSUME NEW m \in Events, wire \in Seq(Events), Put(wire, wire', m)
  PROVE  /\ \A o, d : Cancelled(o, d) => Cancelled(o, d)'
         /\ \A o, d : Drops(m, o, d) => Cancelled(o, d)'
<1>1. /\ \A i \in DOMAIN wire : i \in DOMAIN wire' /\ wire'[i] = wire[i]
      /\ Len(wire) + 1 \in DOMAIN wire' /\ wire'[Len(wire) + 1] = m
  <2> HIDE DEF Events
  <2> QED BY OneMore
<1> QED BY <1>1 DEF Cancelled, Drops

\* A tool asks the daemon.
LEMMA ToolAsksStep ==
  ASSUME TranscriptIInv, NEW t \in TurnIds, NEW c \in Calls, ToolAsks(t, c)
  PROVE  TranscriptIInv'
<1> DEFINE z == [sess[t] EXCEPT !.tool[c] = "asking"]
           e == Event("request", t, c, 0)
<1>1. /\ sess[t].phase = "running" /\ sess[t].tool[c] = "running" /\ Worker(t, z) /\ Emit(<<e>>)
  BY DEF ToolAsks
<1>2. /\ wire \in Seq(Events) /\ turn.latest \in Nat /\ t <= turn.latest
  BY <1>1, SessionFacts, SessionThere
<1>3. /\ z \in Sessions /\ z.phase = sess[t].phase /\ z.closing = sess[t].closing
      /\ z.block = sess[t].block /\ z.text = sess[t].text /\ z.blocks = sess[t].blocks
      /\ \A o \in TurnIds : \A d \in Calls :
           sess'[o].tool[d] = IF o = t /\ d = c THEN "asking" ELSE sess[o].tool[d]
      /\ UNCHANGED <<ctx, serving>>
  BY <1>1, CallSession
<1>4. "request" \in ToolEvents BY DEF ToolEvents
<1>5. /\ Put(wire, wire', e) /\ PipeFits(wire', turn.latest) /\ e \in Events
      /\ native' \in Natives /\ native'.lossy = native.lossy /\ native'.texts = native.texts
      /\ \A o, rs, texts : \A s \in Sessions :
           o # t /\ StreamFits(o, wire, rs, s, texts) => StreamFits(o, wire', rs, s, texts)
      /\ StreamIs(t, wire', z, native'.texts)
  BY <1>1, <1>2, <1>3, <1>4, CallEvent
<1>6. Asks(e, t, c) /\ \A o, d : Asks(e, o, d) => o = t /\ d = c BY DEF Asks, Event
<1> HIDE DEF z, e
<1>7. ASSUME NEW r \in serving
      PROVE  sess'[r[1]].tool[r[2]] = "asking" \/ Cancelled(r[1], r[2])'
  <2>1. r[1] \in TurnIds /\ r[2] \in Calls BY DEF TranscriptIInv, TranscriptTyped
  <2>2. sess[r[1]].tool[r[2]] = "asking" \/ Cancelled(r[1], r[2])
    BY DEF TranscriptIInv, ServedFit
  <2>3. Cancelled(r[1], r[2]) => Cancelled(r[1], r[2])' BY <1>2, <1>5, CancelStays
  <2> QED BY <1>3, <2>1, <2>2, <2>3
<1>8. RequestsFit'
  <2> SUFFICES ASSUME NEW o \in TurnIds, NEW d \in Calls
               PROVE  RequestFits(o, d, wire', serving, ctx.turn, sess'[o].tool[d])
    BY <1>3 DEF RequestsFit
  <2>1. RequestFits(o, d, wire, serving, ctx.turn, sess[o].tool[d])
    BY DEF TranscriptIInv, RequestsFit
  <2>2. CASE o = t /\ d = c
    <3>1. <<t, c>> \in serving => \E i \in DOMAIN wire : Drops(wire[i], t, c)
      <4> SUFFICES ASSUME <<t, c>> \in serving PROVE Cancelled(t, c)
        BY DEF Cancelled, Drops
      <4>1. sess[t].tool[c] = "asking" \/ Cancelled(t, c)
        BY DEF TranscriptIInv, ServedFit
      <4> QED BY <4>1, <1>1
    <3>2. RequestFits(t, c, wire, serving, ctx.turn, "running") BY <1>1, <2>1, <2>2
    <3>3. RequestFits(t, c, wire', serving, ctx.turn, "asking")
      BY <1>2, <1>5, <1>6, <3>1, <3>2, RequestAsked
    <3> QED BY <1>3, <2>2, <3>3
  <2>3. CASE ~(o = t /\ d = c)
    <3>1. ~Asks(e, o, d) /\ sess'[o].tool[d] = sess[o].tool[d] BY <1>3, <1>6, <2>3
    <3>2. RequestFits(o, d, wire', serving, ctx.turn, sess[o].tool[d])
      BY <1>2, <1>5, <2>1, <3>1, RequestMore
    <3> QED BY <3>1, <3>2
  <2> QED BY <2>2, <2>3
<1>9. native.texts \subseteq native'.texts BY <1>5
<1> QED BY <1>1, <1>2, <1>3, <1>5, <1>7, <1>8, <1>9, WorkerStep

\* A tool drops its request.
LEMMA ToolCancelledStep ==
  ASSUME TranscriptIInv, NEW t \in TurnIds, NEW c \in Calls, ToolCancelled(t, c)
  PROVE  TranscriptIInv'
<1> DEFINE z == [sess[t] EXCEPT !.tool[c] = "answered"]
           e == Event("cancel", t, c, 0)
<1>1. sess[t].tool[c] = "asking" /\ Worker(t, z) /\ Emit(<<e>>) BY DEF ToolCancelled
<1>2. /\ wire \in Seq(Events) /\ turn.latest \in Nat /\ t <= turn.latest
  BY <1>1, SessionFacts, SessionThere
<1>3. /\ z \in Sessions /\ z.phase = sess[t].phase /\ z.closing = sess[t].closing
      /\ z.block = sess[t].block /\ z.text = sess[t].text /\ z.blocks = sess[t].blocks
      /\ \A o \in TurnIds : \A d \in Calls :
           sess'[o].tool[d] = IF o = t /\ d = c THEN "answered" ELSE sess[o].tool[d]
      /\ UNCHANGED <<ctx, serving>>
  BY <1>1, CallSession
<1>4. "cancel" \in ToolEvents BY DEF ToolEvents
<1>5. /\ Put(wire, wire', e) /\ PipeFits(wire', turn.latest) /\ e \in Events
      /\ native' \in Natives /\ native'.lossy = native.lossy /\ native'.texts = native.texts
      /\ \A o, rs, texts : \A s \in Sessions :
           o # t /\ StreamFits(o, wire, rs, s, texts) => StreamFits(o, wire', rs, s, texts)
      /\ StreamIs(t, wire', z, native'.texts)
  BY <1>1, <1>2, <1>3, <1>4, CallEvent
<1>6. Drops(e, t, c) /\ \A o, d : ~Asks(e, o, d) BY DEF Asks, Drops, Event
<1> HIDE DEF z, e
<1>7. ASSUME NEW r \in serving
      PROVE  sess'[r[1]].tool[r[2]] = "asking" \/ Cancelled(r[1], r[2])'
  <2>1. r[1] \in TurnIds /\ r[2] \in Calls BY DEF TranscriptIInv, TranscriptTyped
  <2>2. sess[r[1]].tool[r[2]] = "asking" \/ Cancelled(r[1], r[2])
    BY DEF TranscriptIInv, ServedFit
  <2>3. /\ Cancelled(r[1], r[2]) => Cancelled(r[1], r[2])'
        /\ Cancelled(t, c)'
    BY <1>2, <1>5, <1>6, CancelStays
  <2> QED BY <1>3, <2>1, <2>2, <2>3
<1>8. RequestsFit'
  <2> SUFFICES ASSUME NEW o \in TurnIds, NEW d \in Calls
               PROVE  RequestFits(o, d, wire', serving, ctx.turn, sess'[o].tool[d])
    BY <1>3 DEF RequestsFit
  <2>1. RequestFits(o, d, wire, serving, ctx.turn, sess[o].tool[d])
    BY DEF TranscriptIInv, RequestsFit
  <2>2. CASE o = t /\ d = c
    <3>1. RequestFits(t, c, wire, serving, ctx.turn, "asking") BY <1>1, <2>1, <2>2
    <3>2. RequestFits(t, c, wire', serving, ctx.turn, "answered")
      BY <1>2, <1>5, <1>6, <3>1, RequestDropped
    <3> QED BY <1>3, <2>2, <3>2
  <2>3. CASE ~(o = t /\ d = c)
    <3>1. sess'[o].tool[d] = sess[o].tool[d] BY <1>3, <2>3
    <3>2. RequestFits(o, d, wire', serving, ctx.turn, sess[o].tool[d])
      BY <1>2, <1>5, <1>6, <2>1, RequestMore
    <3> QED BY <3>1, <3>2
  <2> QED BY <2>2, <2>3
<1>9. native.texts \subseteq native'.texts BY <1>5
<1> QED BY <1>1, <1>2, <1>3, <1>5, <1>7, <1>8, <1>9, WorkerStep

\* The end of a Turn is written, or an error of it.
LEMMA OutcomeStep ==
  ASSUME TranscriptIInv, NEW t \in TurnIds, NEW z \in Sessions, Worker(t, z), t <= turn.latest,
         sess[t].phase = "running", z.phase \in {"running", "finished"}, z.closing = sess[t].closing,
         z.tool = sess[t].tool, z.block = sess[t].block, z.text = sess[t].text,
         z.blocks = sess[t].blocks,
         NEW outcome \in {"turn.completed", "turn.cancelled", "error"},
         Emit(<<Event(outcome, t, 0, 0)>>)
  PROVE  TranscriptIInv'
<1>1. /\ sess[t] \in Sessions /\ turn.latest \in Nat /\ native \in Natives
      /\ PipeFits(wire, turn.latest) /\ StreamIs(t, wire, sess[t], native.texts)
      /\ wire \in Seq(Events)
  BY SessionFacts
<1> DEFINE e == Event(outcome, t, 0, 0)
<1>2. EventFits(e, turn.latest) BY <1>1, EventsFit
<1>3. e.type = outcome /\ e.turn = t /\ Emit(<<e>>) BY DEF Event
<1> HIDE DEF e
<1>4. ~OfTurn(e, t) /\ e \in Events /\ e.type # "request"
  BY <1>2, <1>3 DEF OfTurn, BlockEvents, Kinds, EventFits
<1>5. /\ Put(wire, wire', e) /\ PipeFits(wire', turn.latest)
      /\ native' \in Natives /\ native'.lossy = native.lossy /\ native'.texts = native.texts
  <2>1. Report(<<e>>, {}) BY <1>3 DEF Emit
  <2>2. {} \in SUBSET (Nat \X Nat \X Nat) OBVIOUS
  <2>3. /\ Put(wire, wire', e) /\ PipeFits(wire', turn.latest)
        /\ native' \in Natives /\ native'.lossy = native.lossy
        /\ native'.texts = native.texts \cup {}
    BY <1>1, <1>2, <2>1, <2>2, ReportOne
  <2> QED BY <2>3
<1>6. Written(wire, wire', t) BY <1>1, <1>2, <1>3, <1>4, <1>5, WrittenOne
<1>7. StreamIs(t, wire', z, native'.texts)
  <2> SUFFICES ASSUME ctx.turn = t, t \notin native.lossy
               PROVE  StreamFits(t, wire', rows, z, native'.texts)
    BY DEF StreamIs
  <2>1. StreamFits(t, wire, rows, sess[t], native.texts) BY <1>1 DEF StreamIs
  <2>2. StreamFits(t, wire', rows, sess[t], native.texts)
    BY <1>1, <1>4, <1>5, <2>1, StreamMore
  <2> QED BY <1>1, <1>5, <2>2, StreamSession
<1>8. z.closing \/ z.phase = "closed" <=> sess[t].closing \/ sess[t].phase = "closed" OBVIOUS
<1> QED BY <1>5, <1>6, <1>7, <1>8, WorkerQuietStep

\* A session settles.
LEMMA SettlesStep ==
  ASSUME TranscriptIInv, NEW t \in TurnIds, Settles(t)
  PROVE  TranscriptIInv'
<1> DEFINE z == [sess[t] EXCEPT !.phase = "finished"]
<1>1. sess[t].phase = "running" /\ Worker(t, z) BY DEF Settles
<1>2. PICK outcome \in {"turn.completed", "turn.cancelled", "error"} :
         Emit(<<Event(outcome, t, 0, 0)>>)
  BY DEF Settles
<1>3. sess[t] \in Sessions /\ t <= turn.latest BY <1>1, SessionFacts, SessionThere
<1>4. /\ z \in Sessions /\ z.phase \in {"running", "finished"} /\ z.closing = sess[t].closing
      /\ z.tool = sess[t].tool /\ z.block = sess[t].block /\ z.text = sess[t].text
      /\ z.blocks = sess[t].blocks
  BY <1>3 DEF Sessions
<1> HIDE DEF z
<1> QED BY <1>1, <1>2, <1>3, <1>4, OutcomeStep

\* A retry fails.
LEMMA RetryFailsStep ==
  ASSUME TranscriptIInv, NEW t \in TurnIds, RetryFails(t)
  PROVE  TranscriptIInv'
<1>1. /\ sess[t].phase = "running" /\ Worker(t, sess[t]) /\ Emit(<<Event("error", t, 0, 0)>>)
  BY DEF RetryFails
<1>2. sess[t] \in Sessions /\ t <= turn.latest BY <1>1, SessionFacts, SessionThere
<1>3. "error" \in {"turn.completed", "turn.cancelled", "error"}
      /\ sess[t].phase \in {"running", "finished"}
  BY <1>1
<1> QED BY <1>1, <1>2, <1>3, OutcomeStep

\* A session closes; what its calls asked they still wait for.
LEMMA SessionClosesStep ==
  ASSUME TranscriptIInv, NEW t \in TurnIds, SessionCloses(t)
  PROVE  TranscriptIInv'
<1> DEFINE z == [ClosedSession EXCEPT !.tool = sess[t].tool]
<1>1. sess[t].closing /\ Worker(t, z) /\ UNCHANGED <<wire, native>> BY DEF SessionCloses
<1>2. /\ sess[t] \in Sessions /\ native \in Natives /\ PipeFits(wire, turn.latest)
      /\ (sess[t] # ClosedSession => t <= turn.latest)
  BY SessionFacts
<1>3. sess[t].closing = TRUE BY <1>1, <1>2 DEF Sessions
<1>4. t <= turn.latest BY <1>2, <1>3, SessionThere
<1>5. /\ z \in Sessions /\ z.phase = "closed" /\ z.closing = FALSE /\ z.tool = sess[t].tool
  BY <1>2 DEF Sessions, ClosedSession, Fresh, NoTurn
<1> HIDE DEF z
<1>6. ctx.turn # t BY <1>3 DEF TurnIds, NoTurn, TranscriptIInv, WorkIsLatest
<1>7. StreamIs(t, wire', z, native'.texts) BY <1>6 DEF StreamIs
<1>8. Written(wire, wire', t) BY <1>1, WrittenNone
<1>9. /\ PipeFits(wire', turn.latest) /\ native' \in Natives /\ native'.lossy = native.lossy
      /\ native.texts \subseteq native'.texts
  BY <1>1, <1>2
<1>10. z.closing \/ z.phase = "closed" <=> sess[t].closing \/ sess[t].phase = "closed"
  BY <1>3, <1>5
<1> QED BY <1>1, <1>4, <1>5, <1>7, <1>8, <1>9, <1>10, WorkerQuietStep

\* A step of a block writes one event or two, and what its session says of the blocks fits them.
LEMMA BlockStep ==
  ASSUME TranscriptIInv, NEW t \in TurnIds, NEW z \in Sessions, Worker(t, z), t <= turn.latest,
         z.phase = sess[t].phase, z.closing = sess[t].closing, z.tool = sess[t].tool,
         PipeFits(wire', turn.latest), native' \in Natives, native'.lossy = native.lossy,
         native.texts \subseteq native'.texts, Written(wire, wire', t),
         StreamIs(t, wire', z, native'.texts)
  PROVE  TranscriptIInv'
<1>1. z.closing \/ z.phase = "closed" <=> sess[t].closing \/ sess[t].phase = "closed" OBVIOUS
<1> QED BY <1>1, WorkerQuietStep

\* A block starts, perhaps with text.
LEMMA BlockStartsStep ==
  ASSUME TranscriptIInv, NEW t \in TurnIds, NEW k \in Kinds, NEW n, BlockStarts(t, k, n)
  PROVE  TranscriptIInv'
<1> DEFINE b == sess[t].blocks + 1
           y == [sess[t] EXCEPT !.block[k] = b, !.text[k] = 0, !.blocks = b]
           z == [sess[t] EXCEPT !.block[k] = b, !.text[k] = n, !.blocks = b]
           e == Event(k, t, b, 0)
           f == Event("delta", t, b, n)
<1>1. /\ sess[t].phase # "closed" /\ Worker(t, z)
      /\ n \in 0..(IF k = "thinking" THEN 1 ELSE 0)
      /\ Emit(<<e>> \o (IF n > 0 THEN <<f>> ELSE <<>>))
  BY DEF BlockStarts, Opened
<1>2. n \in Nat BY <1>1
<1>3. /\ sess[t] \in Sessions /\ turn.latest \in Nat /\ native \in Natives
      /\ wire \in Seq(Events) /\ PipeFits(wire, turn.latest) /\ t <= turn.latest
      /\ StreamIs(t, wire, sess[t], native.texts)
  BY <1>1, SessionFacts, SessionThere
<1>4. b \in Nat /\ b > 0 BY <1>3 DEF Sessions
<1>5. EventFits(e, turn.latest) /\ EventFits(f, turn.latest) BY <1>2, <1>3, <1>4, EventsFit
<1>6. /\ StartOf(e, t, b) /\ e.type # "request" /\ e.turn = t
      /\ OfBlock(f, t, b) /\ f.type = "delta" /\ f.turn = t /\ f.n = n
  BY DEF StartOf, OfBlock, Event, BlockEvents, Kinds
<1>7. /\ y \in Sessions /\ y.blocks = b /\ y.block = [sess[t].block EXCEPT ![k] = b]
      /\ y.text = [sess[t].text EXCEPT ![k] = 0]
      /\ y.block[k] = b
  <2>1. sess[t].block \in [Kinds -> Nat] /\ sess[t].text \in [Kinds -> Nat] BY <1>3 DEF Sessions
  <2> HIDE DEF b
  <2> QED BY <1>3, <1>4, <2>1 DEF Sessions
<1>8. /\ z \in Sessions /\ z.blocks = y.blocks /\ z.block = y.block
      /\ z.text = [y.text EXCEPT ![k] = @ + n]
      /\ z.phase = sess[t].phase /\ z.closing = sess[t].closing /\ z.tool = sess[t].tool
  <2>1. sess[t].block \in [Kinds -> Nat] /\ sess[t].text \in [Kinds -> Nat] BY <1>3 DEF Sessions
  <2>2. /\ z \in Sessions /\ z.blocks = b /\ z.block = [sess[t].block EXCEPT ![k] = b]
        /\ z.text = [sess[t].text EXCEPT ![k] = n]
        /\ z.phase = sess[t].phase /\ z.closing = sess[t].closing /\ z.tool = sess[t].tool
    <3> HIDE DEF b
    <3> QED BY <1>2, <1>3, <1>4, <2>1 DEF Sessions
  <2> HIDE DEF z, y, b
  <2>3. [y.text EXCEPT ![k] = @ + n] = [sess[t].text EXCEPT ![k] = n] BY <1>7, <2>1, <1>2
  <2> QED BY <1>7, <2>2, <2>3
<1> HIDE DEF y, z, e, f
<1>9. ASSUME ctx.turn = t, t \notin native.lossy, NEW p, Put(wire, p, e)
      PROVE  StreamFits(t, p, rows, y, native.texts)
  <2>1. StreamFits(t, wire, rows, sess[t], native.texts) BY <1>3, <1>9 DEF StreamIs
  <2>2. e \in Events BY <1>5 DEF EventFits
  <2>3. b = sess[t].blocks + 1 OBVIOUS
  <2> HIDE DEF b
  <2> QED BY ONLY <1>3, <1>6, <1>7, <1>9, <2>1, <2>2, <2>3, StreamStart
<1> HIDE DEF b
<1>10. {} \in SUBSET (Nat \X Nat \X Nat) OBVIOUS
<1>11. CASE n > 0
  <2>1. Report(<<e>> \o <<f>>, {}) BY <1>1, <1>11 DEF Emit
  <2>2. /\ \E p : Put(wire, p, e) /\ Put(p, wire', f) /\ PipeFits(p, turn.latest)
        /\ PipeFits(wire', turn.latest)
        /\ native' \in Natives /\ native'.lossy = native.lossy
        /\ native'.texts = native.texts \cup {}
    BY <1>3, <1>5, <1>10, <2>1, ReportTwo
  <2>3. PICK p : Put(wire, p, e) /\ Put(p, wire', f) /\ PipeFits(p, turn.latest) BY <2>2
  <2>4. Written(wire, p, t) BY <1>3, <1>5, <1>6, <2>3, WrittenOne
  <2>5. f.type # "request" BY <1>6
  <2>6. Written(p, wire', t) BY <1>3, <1>5, <1>6, <2>3, <2>5, WrittenOne
  <2>7. Written(wire, wire', t) BY <2>4, <2>6, WrittenMore
  <2>8. native'.texts = native.texts /\ native.texts \subseteq native'.texts BY <2>2
  <2>9. ASSUME ctx.turn = t, t \notin native.lossy
        PROVE  StreamFits(t, wire', rows, z, native'.texts)
    <3>1. StreamFits(t, p, rows, y, native.texts) BY <1>9, <2>3, <2>9
    <3>2. p \in Seq(Events) /\ f \in Events BY <1>5, <2>3 DEF PipeFits, EventFits
    <3>3. OpenIs(y, k, b) BY <1>4, <1>7 DEF NoTurn, OpenIs
    <3>4. BlockGrown(y, z, k, n) /\ DeltaOf(f, t, b, n) BY <1>6, <1>8 DEF BlockGrown, DeltaOf
    <3>5. StreamFits(t, wire', rows, z, native.texts)
      BY <1>7, <1>8, <2>3, <3>1, <3>2, <3>3, <3>4, StreamDelta
    <3> QED BY <3>5, <2>8
  <2>10. StreamIs(t, wire', z, native'.texts) BY <2>9 DEF StreamIs
  <2> QED BY <1>1, <1>3, <1>8, <2>2, <2>7, <2>8, <2>10, BlockStep
<1>12. CASE ~(n > 0)
  <2>1. Report(<<e>>, {}) BY <1>1, <1>12 DEF Emit
  <2>2. /\ Put(wire, wire', e) /\ PipeFits(wire', turn.latest)
        /\ native' \in Natives /\ native'.lossy = native.lossy
        /\ native'.texts = native.texts \cup {}
    BY <1>3, <1>5, <1>10, <2>1, ReportOne
  <2>3. Written(wire, wire', t) BY <1>3, <1>5, <1>6, <2>2, WrittenOne
  <2>4. native'.texts = native.texts /\ native.texts \subseteq native'.texts BY <2>2
  <2>5. ASSUME ctx.turn = t, t \notin native.lossy
        PROVE  StreamFits(t, wire', rows, z, native'.texts)
    <3>1. StreamFits(t, wire', rows, y, native.texts) BY <1>9, <2>2, <2>5
    <3>2. n = 0 /\ \A l \in Kinds : y.text[l] \in Nat BY <1>2, <1>7, <1>12 DEF Sessions
    <3>3. \A l \in Kinds : z.text[l] = y.text[l] /\ z.block[l] = y.block[l]
      BY <1>7, <3>2, <1>8 DEF Sessions
    <3> QED BY <1>7, <1>8, <2>4, <3>1, <3>3, StreamSession
  <2>6. StreamIs(t, wire', z, native'.texts) BY <2>5 DEF StreamIs
  <2> QED BY <1>1, <1>3, <1>8, <2>2, <2>3, <2>4, <2>6, BlockStep
<1> QED BY <1>11, <1>12

\* An open block grows by a chunk.
LEMMA BlockGrowsStep ==
  ASSUME TranscriptIInv, NEW t \in TurnIds, NEW k \in Kinds, BlockGrows(t, k)
  PROVE  TranscriptIInv'
<1> DEFINE b == sess[t].block[k]
           z == [sess[t] EXCEPT !.text[k] = @ + 1]
           e == Event("delta", t, b, 1)
<1>1. /\ sess[t].phase # "closed" /\ b # NoTurn /\ Worker(t, z) /\ Emit(<<e>>)
  BY DEF BlockGrows, Opened
<1>2. /\ sess[t] \in Sessions /\ turn.latest \in Nat /\ native \in Natives
      /\ wire \in Seq(Events) /\ PipeFits(wire, turn.latest) /\ t <= turn.latest
      /\ StreamIs(t, wire, sess[t], native.texts)
  BY <1>1, SessionFacts, SessionThere
<1>3. b \in Nat BY <1>2 DEF Sessions
<1>4. EventFits(e, turn.latest) BY <1>2, <1>3, EventsFit
<1>5. /\ OfBlock(e, t, b) /\ e.type = "delta" /\ e.type # "request" /\ e.turn = t /\ e.n = 1
  BY DEF OfBlock, Event, BlockEvents
<1>6. /\ z \in Sessions /\ z.blocks = sess[t].blocks /\ z.block = sess[t].block
      /\ z.text = [sess[t].text EXCEPT ![k] = @ + 1]
      /\ z.phase = sess[t].phase /\ z.closing = sess[t].closing /\ z.tool = sess[t].tool
  <2>1. sess[t].text \in [Kinds -> Nat] /\ sess[t].text[k] \in Nat BY <1>2 DEF Sessions
  <2>2. sess[t].text[k] + 1 \in Nat BY <2>1
  <2>3. [sess[t].text EXCEPT ![k] = @ + 1] \in [Kinds -> Nat] BY <2>1, <2>2
  <2> QED BY <1>2, <2>3 DEF Sessions
<1> HIDE DEF z, e
<1>7. /\ Put(wire, wire', e) /\ PipeFits(wire', turn.latest)
      /\ native' \in Natives /\ native'.lossy = native.lossy
      /\ native'.texts = native.texts
  <2>1. Report(<<e>>, {}) BY <1>1 DEF Emit
  <2>2. {} \in SUBSET (Nat \X Nat \X Nat) OBVIOUS
  <2>3. /\ Put(wire, wire', e) /\ PipeFits(wire', turn.latest)
        /\ native' \in Natives /\ native'.lossy = native.lossy
        /\ native'.texts = native.texts \cup {}
    BY <1>2, <1>4, <2>1, <2>2, ReportOne
  <2> QED BY <2>3
<1>8. Written(wire, wire', t) BY <1>2, <1>4, <1>5, <1>7, WrittenOne
<1>9. ASSUME ctx.turn = t, t \notin native.lossy
      PROVE  StreamFits(t, wire', rows, z, native'.texts)
  <2>1. StreamFits(t, wire, rows, sess[t], native.texts) BY <1>2, <1>9 DEF StreamIs
  <2>2. e \in Events BY <1>4 DEF EventFits
  <2>3. BlockGrown(sess[t], z, k, 1) /\ DeltaOf(e, t, b, 1) BY <1>5, <1>6 DEF BlockGrown, DeltaOf
  <2>4. OpenIs(sess[t], k, b) BY <1>1 DEF OpenIs
  <2> HIDE DEF b
  <2>5. StreamFits(t, wire', rows, z, native.texts)
    BY <1>2, <1>6, <1>7, <2>1, <2>2, <2>3, <2>4, StreamDelta
  <2> QED BY <2>5, <1>7
<1>10. StreamIs(t, wire', z, native'.texts) BY <1>9 DEF StreamIs
<1>11. native.texts \subseteq native'.texts BY <1>7
<1> QED BY <1>1, <1>2, <1>6, <1>7, <1>8, <1>10, <1>11, BlockStep

\* An open block ends: what is missing of its official text is written before.
LEMMA BlockEndsStep ==
  ASSUME TranscriptIInv, NEW t \in TurnIds, NEW k \in Kinds, NEW official \in Nat,
         BlockEnds(t, k, official)
  PROVE  TranscriptIInv'
<1> DEFINE b == sess[t].block[k]
           more == OfficialSuffix(k, sess[t].text[k], official)
           y == [sess[t] EXCEPT !.text[k] = @ + more]
           z == [sess[t] EXCEPT !.block[k] = NoTurn, !.text[k] = 0]
           f == Event("delta", t, b, more)
           e == Event("end", t, b, 0)
           ends == {<<t, b, official>>}
<1>1. /\ sess[t].phase # "closed" /\ b # NoTurn /\ Worker(t, z)
      /\ IF k = "thinking" THEN official >= sess[t].text[k] ELSE official = sess[t].text[k]
      /\ Report((IF more > 0 THEN <<f>> ELSE <<>>) \o <<e>>, ends)
  BY DEF BlockEnds, Opened
<1>2. /\ sess[t] \in Sessions /\ turn.latest \in Nat /\ native \in Natives /\ t \in Nat
      /\ wire \in Seq(Events) /\ PipeFits(wire, turn.latest) /\ t <= turn.latest
      /\ StreamIs(t, wire, sess[t], native.texts)
  BY <1>1, SessionFacts, SessionThere
<1>3. b \in Nat /\ sess[t].text[k] \in Nat BY <1>2 DEF Sessions
<1>4. more \in Nat /\ sess[t].text[k] + more = official BY <1>1, <1>3 DEF OfficialSuffix
<1> HIDE DEF more
<1>5. EventFits(e, turn.latest) /\ EventFits(f, turn.latest) BY <1>2, <1>3, <1>4, EventsFit
<1>6. /\ EndOf(e, t, b) /\ e.type # "request" /\ e.turn = t
      /\ OfBlock(f, t, b) /\ f.type = "delta" /\ f.type # "request" /\ f.turn = t /\ f.n = more
  BY DEF EndOf, OfBlock, Event, BlockEvents
<1>7. ends \in SUBSET (Nat \X Nat \X Nat) BY <1>2, <1>3
<1>8. /\ sess[t].block \in [Kinds -> Nat] /\ sess[t].text \in [Kinds -> Nat] BY <1>2 DEF Sessions
<1>9. /\ y \in Sessions /\ y.blocks = sess[t].blocks /\ y.block = sess[t].block
      /\ y.text = [sess[t].text EXCEPT ![k] = @ + more] /\ y.text[k] = official
  BY <1>2, <1>4, <1>8 DEF Sessions
<1>10. /\ z \in Sessions /\ z.blocks = sess[t].blocks
       /\ z.block = [sess[t].block EXCEPT ![k] = NoTurn]
       /\ z.text = [sess[t].text EXCEPT ![k] = 0]
       /\ z.phase = sess[t].phase /\ z.closing = sess[t].closing /\ z.tool = sess[t].tool
  BY <1>2, <1>8 DEF Sessions, NoTurn
<1>11. z.text = [y.text EXCEPT ![k] = 0] BY <1>8, <1>9, <1>10
<1>12. <<t, b, official>> \in ends OBVIOUS
<1> HIDE DEF y, z, e, f, ends
<1>13. OpenIs(sess[t], k, b) BY <1>1 DEF OpenIs
<1> HIDE DEF b
<1>14. CASE more > 0
  <2>1. Report(<<f>> \o <<e>>, ends) BY <1>1, <1>14
  <2>2. /\ \E p : Put(wire, p, f) /\ Put(p, wire', e) /\ PipeFits(p, turn.latest)
        /\ PipeFits(wire', turn.latest)
        /\ native' \in Natives /\ native'.lossy = native.lossy
        /\ native'.texts = native.texts \cup ends
    BY <1>2, <1>5, <1>7, <2>1, ReportTwo
  <2>3. PICK p : Put(wire, p, f) /\ Put(p, wire', e) /\ PipeFits(p, turn.latest) BY <2>2
  <2>4. Written(wire, p, t) BY <1>2, <1>5, <1>6, <2>3, WrittenOne
  <2>5. Written(p, wire', t) BY <1>2, <1>5, <1>6, <2>3, WrittenOne
  <2>6. Written(wire, wire', t) BY <2>4, <2>5, WrittenMore
  <2>7. native.texts \subseteq native'.texts /\ <<t, b, official>> \in native'.texts
    BY <2>2, <1>12
  <2>8. ASSUME ctx.turn = t, t \notin native.lossy
        PROVE  StreamFits(t, wire', rows, z, native'.texts)
    <3>1. StreamFits(t, wire, rows, sess[t], native.texts) BY <1>2, <2>8 DEF StreamIs
    <3>2. p \in Seq(Events) /\ e \in Events /\ f \in Events
      BY <1>5, <2>3 DEF PipeFits, EventFits
    <3>3. BlockGrown(sess[t], y, k, more) /\ DeltaOf(f, t, b, more) BY <1>6, <1>9
      DEF BlockGrown, DeltaOf
    <3>4. StreamFits(t, p, rows, y, native.texts)
      BY <1>2, <1>9, <1>13, <2>3, <3>1, <3>2, <3>3, StreamDelta
    <3>5. OpenIs(y, k, b) /\ Ended(y, z, k) BY <1>9, <1>10, <1>11, <1>13 DEF OpenIs, Ended
    <3>6. EndOf(e, t, b) /\ official = y.text[k] BY <1>6, <1>9
    <3> QED BY <1>9, <1>10, <2>3, <2>7, <3>2, <3>4, <3>5, <3>6, StreamEnd
  <2>9. StreamIs(t, wire', z, native'.texts) BY <2>8 DEF StreamIs
  <2> QED BY <1>1, <1>2, <1>10, <2>2, <2>6, <2>7, <2>9, BlockStep
<1>15. CASE ~(more > 0)
  <2>1. Report(<<e>>, ends) BY <1>1, <1>15
  <2>2. /\ Put(wire, wire', e) /\ PipeFits(wire', turn.latest)
        /\ native' \in Natives /\ native'.lossy = native.lossy
        /\ native'.texts = native.texts \cup ends
    BY <1>2, <1>5, <1>7, <2>1, ReportOne
  <2>3. Written(wire, wire', t) BY <1>2, <1>5, <1>6, <2>2, WrittenOne
  <2>4. native.texts \subseteq native'.texts /\ <<t, b, official>> \in native'.texts
    BY <2>2, <1>12
  <2>5. ASSUME ctx.turn = t, t \notin native.lossy
        PROVE  StreamFits(t, wire', rows, z, native'.texts)
    <3>1. StreamFits(t, wire, rows, sess[t], native.texts) BY <1>2, <2>5 DEF StreamIs
    <3>2. e \in Events BY <1>5 DEF EventFits
    <3>3. sess[t].text[k] = official BY <1>3, <1>4, <1>15
    <3>4. Ended(sess[t], z, k) /\ EndOf(e, t, b) BY <1>6, <1>10 DEF Ended
    <3>5. /\ wire \in Seq(Events) /\ Put(wire, wire', e) /\ k \in Kinds
          /\ sess[t] \in Sessions /\ z \in Sessions /\ OpenIs(sess[t], k, b)
      BY <1>1, <1>2, <1>10, <1>13, <2>2
    <3> QED BY ONLY <2>4, <3>1, <3>2, <3>3, <3>4, <3>5, StreamEnd
  <2>6. StreamIs(t, wire', z, native'.texts) BY <2>5 DEF StreamIs
  <2> QED BY <1>1, <1>2, <1>10, <2>2, <2>3, <2>4, <2>6, BlockStep
<1> QED BY <1>14, <1>15

-----------------------------------------------------------------------------
\* A list of events without its first one still fits the pipe.
LEMMA PipeLess ==
  ASSUME NEW n, NEW u, PipeFits(u, n), NEW m, NEW v, Taken(u, v, m)
  PROVE  PipeFits(v, n) /\ EventFits(m, n) /\ u \in Seq(Events)
<1>1. u \in Seq(Events) BY DEF PipeFits
<1>2. /\ v \in Seq(Events) /\ 1 \in DOMAIN u /\ u[1] = m
      /\ \A i \in DOMAIN v : i + 1 \in DOMAIN u /\ v[i] = u[i + 1]
  <2> HIDE DEF Events
  <2> QED BY <1>1, OneLess
<1> QED BY <1>1, <1>2 DEF PipeFits

\* What is cancelled stays so while other things are read, and nothing else becomes so.
LEMMA CancelLess ==
  ASSUME wire \in Seq(Events), NEW m, Taken(wire, wire', m)
  PROVE  \A o, d : /\ ~Drops(m, o, d) /\ Cancelled(o, d) => Cancelled(o, d)'
                   /\ Cancelled(o, d)' => Cancelled(o, d)
<1>1. /\ wire[1] = m
      /\ \A i \in DOMAIN wire' : i + 1 \in DOMAIN wire /\ wire'[i] = wire[i + 1]
      /\ \A i \in DOMAIN wire : i # 1 => i - 1 \in DOMAIN wire' /\ wire'[i - 1] = wire[i]
  <2> HIDE DEF Events
  <2> QED BY OneLess
<1> SUFFICES ASSUME NEW o, NEW d
             PROVE  /\ ~Drops(m, o, d) /\ Cancelled(o, d) => Cancelled(o, d)'
                    /\ Cancelled(o, d)' => Cancelled(o, d)
  OBVIOUS
<1>2. ASSUME ~Drops(m, o, d), Cancelled(o, d) PROVE Cancelled(o, d)'
  <2>1. PICK i \in DOMAIN wire : wire[i] = Event("cancel", o, d, 0) BY <1>2 DEF Cancelled
  <2>2. i # 1 BY <1>1, <1>2, <2>1 DEF Drops
  <2> QED BY <1>1, <2>1, <2>2 DEF Cancelled
<1>3. ASSUME Cancelled(o, d)' PROVE Cancelled(o, d)
  <2>1. PICK i \in DOMAIN wire' : wire'[i] = Event("cancel", o, d, 0) BY <1>3 DEF Cancelled
  <2> QED BY <1>1, <2>1 DEF Cancelled
<1> QED BY <1>2, <1>3

-----------------------------------------------------------------------------
\* A set of numbers up to a bound has a greatest.
LEMMA Greatest ==
  ASSUME NEW S \in SUBSET Nat, S # {}, NEW n \in Nat, \A m \in S : m <= n
  PROVE  \E k \in S : \A m \in S : m <= k
<1> DEFINE U == {k \in Nat : \A m \in S : m <= k}
           R == OpToRel(<, Nat)
<1>1. U # {} /\ U \subseteq Nat OBVIOUS
<1>2. IsWellFoundedOn(R, Nat) BY NatLessThanWellFounded
<1>3. \A x, y \in Nat : <<x, y>> \in R <=> x < y BY DEF OpToRel
<1> HIDE DEF R
<1>4. PICK k \in U : \A l \in U : ~(<<l, k>> \in R)
  <2> HIDE DEF U
  <2> QED BY <1>1, <1>2, WFMin
<1>5. k \in Nat /\ \A m \in S : m <= k OBVIOUS
<1>6. \A l \in U : ~(l < k) BY <1>1, <1>3, <1>4
<1>7. k \in S
  <2> SUFFICES ASSUME k \notin S PROVE FALSE OBVIOUS
  <2>1. \A m \in S : m \in Nat /\ m < k BY <1>5
  <2>2. k > 0
    <3>1. PICK m \in S : TRUE OBVIOUS
    <3> QED BY <3>1, <2>1, <1>5
  <2>3. k - 1 \in Nat /\ \A m \in S : m <= k - 1 BY <1>5, <2>1, <2>2
  <2>4. k - 1 \in U BY <2>3
  <2>5. k - 1 < k BY <1>5
  <2> HIDE DEF U
  <2> QED BY <1>6, <2>4, <2>5
<1> QED BY <1>5, <1>7

\* The place after the last row is free, and after all that are taken.
LEMMA NextSeqIsLast ==
  ASSUME rows \subseteq Rows, NEW n \in Nat, \A r \in rows : r.seq <= n
  PROVE  /\ NextSeq \in Nat \ {0}
         /\ \A r \in rows : r.seq \in Nat /\ r.seq < NextSeq
<1> DEFINE taken == {0} \cup {r.seq : r \in rows}
<1>1. \A r \in rows : r.seq \in Nat BY DEF Rows
<1>2. taken \in SUBSET Nat /\ taken # {} /\ \A m \in taken : m <= n BY <1>1
<1>3. \E k \in taken : \A m \in taken : m <= k
  <2> HIDE DEF taken
  <2> QED BY <1>2, Greatest
<1> DEFINE last == CHOOSE k \in taken : \A m \in taken : m <= k
<1>4. last \in taken /\ \A m \in taken : m <= last
  <2> HIDE DEF taken
  <2> QED BY <1>3
<1>5. NextSeq = 1 + last BY DEF NextSeq
<1>6. \A r \in rows : r.seq \in taken OBVIOUS
<1> HIDE DEF last, taken
<1>7. last \in Nat BY <1>2, <1>4
<1> QED BY <1>1, <1>4, <1>5, <1>6, <1>7

-----------------------------------------------------------------------------
\* A row that was completed or failed.
Over(r) == ~Streaming(r) /\ ~Running(r)
\* Row r is row q, whose text or state may have changed if it was not settled.
SameRow(q, r) ==
  /\ r.seq = q.seq /\ r.turn = q.turn /\ r.kind = q.kind /\ r.key = q.key
  /\ r.kind \in Kinds => r.state \in {"streaming", "completed"}
  /\ Over(q) => r = q
\* Rows qs are rows rs, some of which changed and some blocks of which were removed.
Revised(rs, qs) ==
  /\ qs \subseteq Rows
  /\ \A r \in qs : \E q \in rs : SameRow(q, r)
  /\ \A r, p \in qs : r.seq = p.seq => r = p
  /\ \A q \in rs : Over(q) => q \in qs
  /\ \A q \in rs : q.kind = "tool" => \E r \in qs : SameRow(q, r)
\* What is settled stays, and what is new comes after all there was.
Final(rs, qs) ==
  /\ \A r \in rs : Streaming(r) \/ Running(r) \/ r \in qs
  /\ \A r \in qs : \A q \in rs : r.seq <= q.seq => \E p \in rs : p.seq = r.seq
\* The rows fit, and rows other than the busy ones of the Turn at work are settled.
RowsGood(rs, qs) ==
  /\ qs \subseteq Rows /\ Final(rs, qs)
  /\ \E n \in Nat : \A r \in qs : r.seq <= n
  /\ \A r, q \in qs : q.seq = r.seq => q = r
  /\ \A r, q \in qs : r.kind \in Kinds /\ IsBlock(q, r.turn, r.key) => q = r
  /\ \A r \in qs : r.kind \in Kinds => r.state \in {"streaming", "completed"}
  /\ \A r \in qs : r.turn <= turn.latest
  /\ \A r \in qs : ~Over(r) => turn.working /\ r.turn = turn.latest
  /\ \A t, c : (\E q \in rs : IsToolCall(q, c) /\ q.turn = t) =>
                 \E q \in qs : IsToolCall(q, c) /\ q.turn = t

\* Revised rows fit.
LEMMA RevisedGood ==
  ASSUME TranscriptIInv, NEW qs, Revised(rows, qs)
  PROVE  RowsGood(rows, qs)
<1>1. /\ \A r \in rows : r.turn <= turn.latest
      /\ \A r \in rows : ~Over(r) => turn.working /\ r.turn = turn.latest
  BY DEF TranscriptIInv, NothingAhead, OnlyWorkIsBusy, Over
<1>2. PICK n \in Nat : \A r \in rows : r.seq <= n BY DEF TranscriptIInv, RowsFit
<1>3. /\ \A r, q \in rows : q.seq = r.seq => q = r
      /\ \A r, q \in rows : r.kind \in Kinds /\ IsBlock(q, r.turn, r.key) => q = r
  BY DEF TranscriptIInv, RowsFit
<1>4. /\ qs \subseteq Rows
      /\ \A r \in qs : \E q \in rows : SameRow(q, r)
      /\ \A r, p \in qs : r.seq = p.seq => r = p
      /\ \A q \in rows : Over(q) => q \in qs
      /\ \A q \in rows : q.kind = "tool" => \E r \in qs : SameRow(q, r)
  BY DEF Revised
<1> HIDE DEF Rows
<1>5. Final(rows, qs) BY <1>4 DEF Final, Over, SameRow
<1>6. \A r \in qs : r.seq <= n BY <1>2, <1>4 DEF SameRow
<1>7. ASSUME NEW r \in qs, NEW q \in qs, r.kind \in Kinds, IsBlock(q, r.turn, r.key) PROVE q = r
  <2>1. PICK x \in rows : SameRow(x, r) BY <1>4
  <2>2. PICK y \in rows : SameRow(y, q) BY <1>4
  <2>3. x.kind \in Kinds /\ IsBlock(y, x.turn, x.key) BY <1>7, <2>1, <2>2 DEF SameRow, IsBlock
  <2>4. y = x BY <1>3, <2>3
  <2> QED BY <1>4, <2>1, <2>2, <2>4 DEF SameRow
<1>8. \A r \in qs : r.kind \in Kinds => r.state \in {"streaming", "completed"}
  BY <1>4 DEF SameRow
<1>9. \A r \in qs : r.turn <= turn.latest BY <1>1, <1>4 DEF SameRow
<1>10. ASSUME NEW r \in qs, ~Over(r) PROVE turn.working /\ r.turn = turn.latest
  <2>1. PICK q \in rows : SameRow(q, r) BY <1>4
  <2>2. ~Over(q) BY <1>10, <2>1 DEF SameRow
  <2> QED BY <1>1, <2>1, <2>2 DEF SameRow
<1>11. ASSUME NEW t, NEW c, NEW q \in rows, IsToolCall(q, c), q.turn = t
       PROVE  \E r \in qs : IsToolCall(r, c) /\ r.turn = t
  BY <1>4, <1>11 DEF IsToolCall, SameRow
<1> QED BY <1>4, <1>5, <1>6, <1>7, <1>8, <1>9, <1>10, <1>11 DEF RowsGood

\* A row is added for the Turn that works: a block that was not shown, or a call.
LEMMA AddedGood ==
  ASSUME TranscriptIInv, NEW r \in Rows, r.seq = NextSeq, r.turn = turn.latest, turn.working,
         r.kind \in Kinds => r.state = "streaming" /\ ~BlockShown(rows, r.turn, r.key)
  PROVE  RowsGood(rows, rows \cup {r})
<1> DEFINE qs == rows \cup {r}
<1>1. /\ rows \subseteq Rows
      /\ \A q \in rows : q.turn <= turn.latest
      /\ \A q \in rows : ~Over(q) => turn.working /\ q.turn = turn.latest
      /\ turn.latest \in Nat
  BY DEF TranscriptIInv, TranscriptTyped, NothingAhead, OnlyWorkIsBusy, Over
<1>2. PICK n \in Nat : \A q \in rows : q.seq <= n BY DEF TranscriptIInv, RowsFit
<1>3. /\ \A p, q \in rows : q.seq = p.seq => q = p
      /\ \A p, q \in rows : p.kind \in Kinds /\ IsBlock(q, p.turn, p.key) => q = p
      /\ \A q \in rows : q.kind \in Kinds => q.state \in {"streaming", "completed"}
  BY DEF TranscriptIInv, RowsFit
<1>4. r.seq \in Nat /\ \A q \in rows : q.seq \in Nat /\ q.seq < r.seq
  <2> HIDE DEF Rows
  <2> QED BY <1>1, <1>2, NextSeqIsLast
<1> HIDE DEF Rows
<1>5. qs \subseteq Rows BY <1>1
<1>6. Final(rows, qs) BY <1>4 DEF Final
<1>7. \A q \in qs : q.seq <= r.seq BY <1>4
<1>8. \A p, q \in qs : q.seq = p.seq => q = p BY <1>3, <1>4
<1>9. ASSUME NEW p \in qs, NEW q \in qs, p.kind \in Kinds, IsBlock(q, p.turn, p.key) PROVE q = p
  <2>1. IsBlock(p, q.turn, q.key) BY <1>9 DEF IsBlock
  <2>2. CASE p \in rows /\ q \in rows BY <2>2, <1>3, <1>9
  <2>3. CASE p = r /\ q \in rows BY <2>3, <1>9 DEF BlockShown
  <2>4. CASE q = r /\ p \in rows
    <3>1. r.kind \in Kinds /\ IsBlock(p, r.turn, r.key) BY <2>1, <2>4, <1>9 DEF IsBlock
    <3> QED BY <2>4, <3>1 DEF BlockShown
  <2>5. CASE p = r /\ q = r BY <2>5
  <2> QED BY <2>2, <2>3, <2>4, <2>5
<1>10. \A q \in qs : q.kind \in Kinds => q.state \in {"streaming", "completed"} BY <1>3
<1>11. \A q \in qs : q.turn <= turn.latest BY <1>1
<1>12. \A q \in qs : ~Over(q) => turn.working /\ q.turn = turn.latest BY <1>1
<1> QED BY <1>4, <1>5, <1>6, <1>7, <1>8, <1>9, <1>10, <1>11, <1>12 DEF RowsGood

-----------------------------------------------------------------------------
\* Rows changed one by one are revised.
LEMMA ImageRevised ==
  ASSUME TranscriptIInv, NEW F, NEW qs,
         \A q \in rows : F[q] \in Rows /\ SameRow(q, F[q]),
         \A r \in qs : \E q \in rows : r = F[q],
         \A q \in rows : q.kind = "tool" \/ Over(q) => F[q] \in qs
  PROVE  Revised(rows, qs)
<1>1. \A r, q \in rows : q.seq = r.seq => q = r BY DEF TranscriptIInv, RowsFit
<1> HIDE DEF Rows
<1>2. qs \subseteq Rows OBVIOUS
<1>3. \A r \in qs : \E q \in rows : SameRow(q, r) OBVIOUS
<1>4. ASSUME NEW r \in qs, NEW p \in qs, r.seq = p.seq PROVE r = p
  <2>1. PICK x \in rows : r = F[x] OBVIOUS
  <2>2. PICK y \in rows : p = F[y] OBVIOUS
  <2>3. x.seq = y.seq BY <1>4, <2>1, <2>2 DEF SameRow
  <2> QED BY <1>1, <2>1, <2>2, <2>3
<1>5. \A q \in rows : Over(q) => q \in qs BY DEF SameRow
<1>6. \A q \in rows : q.kind = "tool" => \E r \in qs : SameRow(q, r) OBVIOUS
<1> QED BY <1>2, <1>3, <1>4, <1>5, <1>6 DEF Revised

\* What a row is, and that it is the same as itself.
LEMMA RowFacts ==
  ASSUME TranscriptIInv, NEW r \in rows
  PROVE  /\ r \in Rows /\ SameRow(r, r) /\ (r.kind = "tool" => r.kind \notin Kinds)
         /\ r.text \in Nat
<1>1. r \in Rows BY DEF TranscriptIInv, TranscriptTyped
<1>2. r.kind \in Kinds => r.state \in {"streaming", "completed"} BY DEF TranscriptIInv, RowsFit
<1>3. r.kind = "tool" => r.kind \notin Kinds BY DEF Kinds
<1>4. r.text \in Nat BY <1>1 DEF Rows
<1> QED BY <1>1, <1>2, <1>3, <1>4 DEF SameRow

\* A block is updated: its row, and no other.
LEMMA UpdateBlockRevised ==
  ASSUME TranscriptIInv, NEW t, NEW b, NEW more \in Nat, NEW st \in {"streaming", "completed"}
  PROVE  /\ Revised(rows, UpdateBlock(t, b, more, st))
         /\ Updated(rows, UpdateBlock(t, b, more, st), t, b, more, st)
         /\ \A r : ~IsBlock(r, t, b) => (r \in rows <=> r \in UpdateBlock(t, b, more, st))
<1> DEFINE F == [r \in rows |-> IF IsBlock(r, t, b) /\ Streaming(r)
                                THEN [r EXCEPT !.text = @ + more, !.state = st] ELSE r]
           qs == UpdateBlock(t, b, more, st)
<1>1. \A r : r \in qs <=> \E q \in rows : r = F[q] BY DEF UpdateBlock
<1>2. ASSUME NEW r \in rows
      PROVE  /\ IF IsBlock(r, t, b) /\ Streaming(r)
                THEN /\ F[r] = [r EXCEPT !.text = r.text + more, !.state = st]
                     /\ F[r].text = r.text + more /\ F[r].state = st
                ELSE F[r] = r
             /\ F[r] \in Rows /\ F[r].seq = r.seq /\ F[r].turn = r.turn
             /\ F[r].kind = r.kind /\ F[r].key = r.key
  <2>1. r \in Rows BY RowFacts
  <2>2. r.text + more \in Nat BY RowFacts
  <2> QED BY <2>1, <2>2 DEF Rows
<1> HIDE DEF F, qs
<1>3. ASSUME NEW r \in rows
      PROVE  SameRow(r, F[r]) /\ (r.kind = "tool" \/ Over(r) => F[r] = r)
  <2>1. CASE IsBlock(r, t, b) /\ Streaming(r)
    <3>1. ~Over(r) /\ r.kind \in Kinds BY <2>1 DEF Over, IsBlock
    <3> QED BY <2>1, <3>1, <1>2, RowFacts DEF SameRow
  <2>2. CASE ~(IsBlock(r, t, b) /\ Streaming(r))
    <3>1. F[r] = r BY <2>2, <1>2
    <3>2. SameRow(r, r) BY RowFacts
    <3> QED BY <3>1, <3>2
  <2> QED BY <2>1, <2>2
<1>4. Revised(rows, qs)
  <2>1. \A r \in rows : F[r] \in Rows /\ SameRow(r, F[r]) BY <1>2, <1>3
  <2> HIDE DEF Rows
  <2> QED BY <1>1, <1>3, <2>1, ImageRevised
<1>5. \A r : ~IsBlock(r, t, b) => (r \in rows <=> r \in qs)
  <2> SUFFICES ASSUME NEW r, ~IsBlock(r, t, b) PROVE r \in rows <=> r \in qs OBVIOUS
  <2>1. r \in rows => r \in qs BY <1>1, <1>2
  <2>2. ASSUME r \in qs PROVE r \in rows
    <3>1. PICK q \in rows : r = F[q] BY <1>1, <2>2
    <3>2. ~IsBlock(q, t, b) BY <3>1, <1>2 DEF IsBlock
    <3> QED BY <3>1, <3>2, <1>2
  <2> QED BY <2>1, <2>2
<1>6. Updated(rows, qs, t, b, more, st)
  <2>1. ASSUME NEW q \in rows, IsBlock(q, t, b), q.state = "streaming"
        PROVE  \E r \in qs : IsBlock(r, t, b) /\ r.text = q.text + more /\ r.state = st
    <3>1. Streaming(q) BY <2>1 DEF Streaming, IsBlock
    <3>2. F[q] \in qs BY <1>1
    <3> QED BY <2>1, <3>1, <3>2, <1>2 DEF IsBlock
  <2>2. ASSUME NEW r \in qs, IsBlock(r, t, b)
        PROVE  \E q \in rows : /\ IsBlock(q, t, b)
                               /\ IF q.state = "streaming" THEN r.text = q.text + more /\ r.state = st
                                                           ELSE r = q
    <3>1. PICK q \in rows : r = F[q] BY <1>1
    <3>2. IsBlock(q, t, b) BY <2>2, <3>1, <1>2 DEF IsBlock
    <3>3. q.state = "streaming" <=> Streaming(q) BY <3>2 DEF IsBlock, Streaming
    <3> QED BY <3>1, <3>2, <3>3, <1>2
  <2> QED BY <2>1, <2>2 DEF Updated
<1> QED BY <1>4, <1>5, <1>6 DEF qs

\* The state of a row that runs becomes another.
LEMMA CallRow ==
  ASSUME TranscriptIInv, NEW r \in rows, Running(r), NEW st \in {"running", "completed", "failed"}
  PROVE  [r EXCEPT !.state = st] \in Rows /\ SameRow(r, [r EXCEPT !.state = st])
<1>1. r \in Rows /\ r.kind = "tool" /\ r.kind \notin Kinds BY RowFacts DEF Running
<1>2. /\ [r EXCEPT !.state = st] \in Rows
      /\ [r EXCEPT !.state = st].seq = r.seq /\ [r EXCEPT !.state = st].turn = r.turn
      /\ [r EXCEPT !.state = st].kind = r.kind /\ [r EXCEPT !.state = st].key = r.key
  BY <1>1 DEF Rows
<1>3. ~Over(r) BY DEF Over
<1> QED BY <1>1, <1>2, <1>3 DEF SameRow

\* The row of a call is updated, and no block.
LEMMA UpdateToolCallRevised ==
  ASSUME TranscriptIInv, NEW c, NEW st \in {"running", "completed", "failed"}
  PROVE  /\ Revised(rows, UpdateToolCall(c, st))
         /\ \A r : r.kind \in Kinds => (r \in rows <=> r \in UpdateToolCall(c, st))
<1> DEFINE of == {r \in rows : IsToolCall(r, c)}
           F == [r \in rows |-> IF r \in of /\ (\A q \in of : q.seq <= r.seq) /\ CanTransition(r.state)
                                THEN [r EXCEPT !.state = st] ELSE r]
           qs == UpdateToolCall(c, st)
<1>1. \A r : r \in qs <=> \E q \in rows : r = F[q] BY DEF UpdateToolCall
<1>2. ASSUME NEW r \in rows
      PROVE  F[r] = r \/ (Running(r) /\ F[r] = [r EXCEPT !.state = st])
  <2>1. CASE r \in of /\ (\A q \in of : q.seq <= r.seq) /\ CanTransition(r.state)
    <3>1. Running(r) BY <2>1 DEF CanTransition, IsToolCall, Running
    <3>2. F[r] = [r EXCEPT !.state = st]
      <4> HIDE DEF of
      <4> QED BY <2>1
    <3> QED BY <3>1, <3>2
  <2>2. CASE ~(r \in of /\ (\A q \in of : q.seq <= r.seq) /\ CanTransition(r.state))
    <3> HIDE DEF of
    <3> QED BY <2>2
  <2> QED BY <2>1, <2>2
<1> HIDE DEF F, qs, of
<1>3. ASSUME NEW r \in rows
      PROVE  /\ F[r] \in Rows /\ SameRow(r, F[r])
             /\ F[r] # r => r.kind \notin Kinds /\ F[r].kind \notin Kinds
  <2>1. CASE F[r] = r
    <3>1. r \in Rows /\ SameRow(r, r) BY RowFacts
    <3> QED BY <2>1, <3>1
  <2>2. CASE Running(r) /\ F[r] = [r EXCEPT !.state = st]
    <3>1. F[r] \in Rows /\ SameRow(r, F[r]) BY <2>2, CallRow
    <3>2. r.kind \notin Kinds BY <2>2, RowFacts DEF Running
    <3>3. F[r].kind \notin Kinds BY <3>1, <3>2 DEF SameRow
    <3> QED BY <3>1, <3>2, <3>3
  <2> QED BY <1>2, <2>1, <2>2
<1>4. Revised(rows, qs)
  <2> HIDE DEF Rows
  <2> QED BY <1>1, <1>3, ImageRevised
<1>5. ASSUME NEW r, r.kind \in Kinds PROVE r \in rows <=> r \in qs
  <2>1. r \in rows => r \in qs BY <1>1, <1>3, <1>5
  <2>2. ASSUME r \in qs PROVE r \in rows
    <3>1. PICK q \in rows : r = F[q] BY <1>1, <2>2
    <3> QED BY <3>1, <1>3, <1>5
  <2> QED BY <2>1, <2>2
<1> QED BY <1>4, <1>5 DEF qs

\* Among the calls of a Turn made to fail, those of it that ran do no longer, and the rest stay.
LEMMA FinalizedToolsAre ==
  ASSUME TranscriptIInv, NEW t, NEW qs, qs \subseteq FinalizedTools(t),
         \A r \in FinalizedTools(t) : ~Streaming(r) => r \in qs
  PROVE  /\ Revised(rows, qs)
         /\ \A r \in qs : Running(r) => r.turn # t
         /\ \A r \in qs : r.kind \in Kinds => r \in rows
<1> DEFINE F == [r \in rows |-> IF Running(r) /\ r.turn = t THEN [r EXCEPT !.state = "failed"] ELSE r]
<1>1. \A r : r \in FinalizedTools(t) <=> \E q \in rows : r = F[q] BY DEF FinalizedTools
<1>2. ASSUME NEW r \in rows
      PROVE  \/ F[r] = r /\ ~(Running(r) /\ r.turn = t)
             \/ Running(r) /\ F[r] = [r EXCEPT !.state = "failed"] /\ F[r].state = "failed"
  <2>1. r \in Rows BY RowFacts
  <2> QED BY <2>1 DEF Rows
<1> HIDE DEF F
<1>3. ASSUME NEW r \in rows
      PROVE  /\ F[r] \in Rows /\ SameRow(r, F[r])
             /\ Running(F[r]) => F[r].turn # t
             /\ r.kind = "tool" \/ Over(r) => ~Streaming(F[r])
             /\ F[r].kind \in Kinds => F[r] = r
  <2>1. CASE F[r] = r /\ ~(Running(r) /\ r.turn = t)
    <3>1. r \in Rows /\ SameRow(r, r) BY RowFacts
    <3>2. r.kind = "tool" => r.kind \notin Kinds BY RowFacts
    <3> HIDE DEF Rows
    <3> QED BY <2>1, <3>1, <3>2 DEF Over, Streaming
  <2>2. CASE Running(r) /\ F[r] = [r EXCEPT !.state = "failed"] /\ F[r].state = "failed"
    <3>1. F[r] \in Rows /\ SameRow(r, F[r]) BY <2>2, CallRow
    <3>2. F[r].kind \notin Kinds BY <2>2, <3>1 DEF SameRow, Running, Kinds
    <3> HIDE DEF Rows
    <3> QED BY <2>2, <3>1, <3>2 DEF Streaming, Running
  <2> QED BY <1>2, <2>1, <2>2
<1>4. Revised(rows, qs)
  <2>1. \A r \in qs : \E q \in rows : r = F[q] BY <1>1
  <2>2. \A q \in rows : q.kind = "tool" \/ Over(q) => F[q] \in qs BY <1>1, <1>3
  <2>3. \A q \in rows : F[q] \in Rows /\ SameRow(q, F[q]) BY <1>3
  <2> HIDE DEF Rows
  <2> QED BY <2>1, <2>2, <2>3, ImageRevised
<1>5. \A r \in qs : Running(r) => r.turn # t BY <1>1, <1>3
<1>6. \A r \in qs : r.kind \in Kinds => r \in rows BY <1>1, <1>3
<1> QED BY <1>4, <1>5, <1>6

\* When the Turn at work ends, none of its rows is busy.
LEMMA FinalizedAre ==
  ASSUME TranscriptIInv
  PROVE  /\ Revised(rows, Finalized(turn.latest))
         /\ \A r \in Finalized(turn.latest) : Over(r) /\ (r.kind \in Kinds => r \in rows)
<1> DEFINE t == turn.latest
           qs == Finalized(t)
<1>1. /\ qs \subseteq FinalizedTools(t)
      /\ \A r \in FinalizedTools(t) : ~Streaming(r) => r \in qs
      /\ \A r \in qs : Streaming(r) => r.turn # t
  BY DEF Finalized
<1> HIDE DEF qs, t
<1>2. /\ Revised(rows, qs) /\ \A r \in qs : Running(r) => r.turn # t
      /\ \A r \in qs : r.kind \in Kinds => r \in rows
  BY <1>1, FinalizedToolsAre
<1>3. \A r \in qs : ~Over(r) => r.turn = t
  BY <1>2, RevisedGood DEF RowsGood, t
<1> QED BY <1>1, <1>2, <1>3 DEF Over, qs, t

\* When the daemon starts again, no row is busy.
LEMMA RecoveredAre ==
  ASSUME TranscriptIInv
  PROVE  /\ Revised(rows, Recovered)
         /\ \A r \in Recovered : Over(r) /\ (r.kind \in Kinds => r \in rows)
<1> DEFINE t == turn.latest
           all == IF turn.working THEN FinalizedTools(t) ELSE rows
<1>1. Recovered = {r \in all : ~Streaming(r)} BY DEF Recovered
<1>2. CASE turn.working
  <2>1. /\ Recovered \subseteq FinalizedTools(t)
        /\ \A r \in FinalizedTools(t) : ~Streaming(r) => r \in Recovered
    BY <1>1, <1>2
  <2>2. \A r \in Recovered : ~Streaming(r) BY <1>1
  <2> HIDE DEF t
  <2>3. /\ Revised(rows, Recovered) /\ \A r \in Recovered : Running(r) => r.turn # t
        /\ \A r \in Recovered : r.kind \in Kinds => r \in rows
    BY <2>1, FinalizedToolsAre
  <2>4. \A r \in Recovered : ~Over(r) => r.turn = t
    BY <2>3, RevisedGood DEF RowsGood, t
  <2> QED BY <2>2, <2>3, <2>4 DEF Over
<1>3. CASE ~turn.working
  <2>1. \A r \in rows : Over(r) BY <1>3 DEF TranscriptIInv, OnlyWorkIsBusy, Over
  <2>2. Recovered = rows BY <1>1, <1>3, <2>1 DEF Over
  <2>3. \A r \in rows : r \in Rows /\ SameRow(r, r) BY RowFacts
  <2>4. \A r, q \in rows : q.seq = r.seq => q = r BY DEF TranscriptIInv, RowsFit
  <2>5. Revised(rows, rows) BY <2>3, <2>4 DEF Revised
  <2> QED BY <2>1, <2>2, <2>5
<1> QED BY <1>2, <1>3

-----------------------------------------------------------------------------
\* What good rows are for the invariant.
LEMMA GoodRows ==
  ASSUME RowsGood(rows, rows')
  PROVE  /\ rows' \subseteq Rows /\ RowsFit' /\ Final(rows, rows')
         /\ \A r \in rows' : r.turn <= turn.latest
         /\ \A t, c : CallHasRow(t, c) => CallHasRow(t, c)'
         /\ turn' = turn => OnlyWorkIsBusy'
<1> HIDE DEF Rows
<1>1. rows' \subseteq Rows /\ Final(rows, rows') /\ \A r \in rows' : r.turn <= turn.latest
  BY DEF RowsGood
<1>2. RowsFit' BY DEF RowsGood, RowsFit, IsBlock
<1>3. \A t, c : CallHasRow(t, c) => CallHasRow(t, c)' BY DEF RowsGood, CallHasRow, IsToolCall
<1>4. turn' = turn => OnlyWorkIsBusy'
  BY DEF RowsGood, OnlyWorkIsBusy, Over, Streaming, Running
<1> QED BY <1>1, <1>2, <1>3, <1>4

\* Rows that stay as they are, are good.
LEMMA SameGood ==
  ASSUME TranscriptIInv
  PROVE  RowsGood(rows, rows)
<1>1. \A r \in rows : r \in Rows /\ SameRow(r, r) BY RowFacts
<1>2. \A r, q \in rows : q.seq = r.seq => q = r BY DEF TranscriptIInv, RowsFit
<1>3. Revised(rows, rows)
  <2> HIDE DEF Rows
  <2> QED BY <1>1, <1>2 DEF Revised
<1> QED BY <1>3, RevisedGood

\* When an event is read that is no cancel, what served calls are waited for stays.
LEMMA ServedStay ==
  ASSUME TranscriptIInv, NEW m, Taken(wire, wire', m), NEW r \in serving, ~Drops(m, r[1], r[2]),
         \A t, c : CallHasRow(t, c) => CallHasRow(t, c)', UNCHANGED sess
  PROVE  /\ CallHasRow(r[1], r[2])'
         /\ sess'[r[1]].tool[r[2]] = "asking" \/ Cancelled(r[1], r[2])'
<1>1. wire \in Seq(Events) BY DEF TranscriptIInv, PipeFits
<1>2. CallHasRow(r[1], r[2]) /\ (sess[r[1]].tool[r[2]] = "asking" \/ Cancelled(r[1], r[2]))
  BY DEF TranscriptIInv, ServedFit
<1>3. Cancelled(r[1], r[2]) => Cancelled(r[1], r[2])' BY <1>1, CancelLess
<1> QED BY <1>2, <1>3

\* An event of a Turn is read.
LEMMA ReadStep ==
  ASSUME TranscriptIInv, NEW m, Taken(wire, wire', m), IsEvent(m),
         UNCHANGED <<turn, sess, serving, ready>>,
         ctx' \in [turn : {NoTurn} \cup TurnIds, started : SUBSET Calls, dispatched : SUBSET Calls],
         ctx'.turn = ctx.turn, ctx'.dispatched = ctx.dispatched,
         native' \in Natives, native'.texts = native.texts, native.lossy \subseteq native'.lossy,
         RowsGood(rows, rows'),
         \A c \in ctx'.started : c \in ctx.started \/ CallHasRow(ctx.turn, c)',
         ctx.turn = NoTurn => ctx'.started = {},
         \A r \in rows' : /\ r.kind \in Kinds /\ r.state = "completed" /\ r.turn \notin native'.lossy
                          => <<r.turn, r.key, r.text>> \in native.texts,
         ctx.turn # NoTurn /\ ctx.turn \notin native'.lossy =>
           StreamFits(ctx.turn, wire', rows', sess[ctx.turn], native.texts)
  PROVE  TranscriptIInv' /\ Final(rows, rows')
<1>1. /\ rows' \subseteq Rows /\ RowsFit' /\ Final(rows, rows')
      /\ \A r \in rows' : r.turn <= turn.latest
      /\ \A t, c : CallHasRow(t, c) => CallHasRow(t, c)'
      /\ OnlyWorkIsBusy'
  BY GoodRows
<1>2. PipeFits(wire, turn.latest) BY DEF TranscriptIInv
<1>3. PipeFits(wire', turn'.latest) BY <1>2, PipeLess
<1>4. \A t, c : ~Drops(m, t, c) BY DEF IsEvent, Drops, Event
<1>5. TranscriptTyped'
  <2> HIDE DEF Rows, Sessions, Natives
  <2> QED BY <1>1 DEF TranscriptIInv, TranscriptTyped
<1>6. WorkIsLatest' BY DEF TranscriptIInv, WorkIsLatest
<1>7. NothingAhead'
  <2> HIDE DEF ClosedSession
  <2> QED BY <1>1 DEF TranscriptIInv, NothingAhead
<1>8. StartedHaveRows' BY <1>1 DEF TranscriptIInv, StartedHaveRows
<1>9. RequestsFit'
  <2> SUFFICES ASSUME NEW t \in TurnIds, NEW c \in Calls
               PROVE  RequestFits(t, c, wire', serving, ctx.turn, sess[t].tool[c])
    BY DEF RequestsFit
  <2>1. RequestFits(t, c, wire, serving, ctx.turn, sess[t].tool[c])
    BY DEF TranscriptIInv, RequestsFit
  <2>2. wire \in Seq(Events) BY <1>2 DEF PipeFits
  <2>3. ServedLess(serving, serving, m, t, c) BY <1>4 DEF ServedLess
  <2> HIDE DEF Events
  <2> QED BY <2>1, <2>2, <2>3, RequestLess
<1>10. ServedFit'
  <2> SUFFICES ASSUME NEW r \in serving
               PROVE  /\ CallHasRow(r[1], r[2])'
                      /\ sess'[r[1]].tool[r[2]] = "asking" \/ Cancelled(r[1], r[2])'
                      /\ \/ ctx.turn = r[1] /\ r[2] \in ctx.dispatched
                         \/ sess[r[1]].closing \/ sess[r[1]].phase = "closed"
    BY DEF ServedFit
  <2>1. /\ CallHasRow(r[1], r[2])'
        /\ sess'[r[1]].tool[r[2]] = "asking" \/ Cancelled(r[1], r[2])'
    BY <1>1, <1>4, ServedStay
  <2> QED BY <2>1 DEF TranscriptIInv, ServedFit
<1>11. StreamsFit' BY DEF StreamsFit
<1>12. TextsWhole' BY DEF TextsWhole
<1> QED BY <1>1, <1>3, <1>5, <1>6, <1>7, <1>8, <1>9, <1>10, <1>11, <1>12 DEF TranscriptIInv

\* The rows are completed with their texts.
LEMMA TextsStay ==
  ASSUME TranscriptIInv, NEW qs, \A r : r.kind \in Kinds => (r \in rows <=> r \in qs)
  PROVE  \A r \in qs : /\ r.kind \in Kinds /\ r.state = "completed" /\ r.turn \notin native.lossy
                       => <<r.turn, r.key, r.text>> \in native.texts
BY DEF TranscriptIInv, TextsWhole

\* An event that goes nowhere: of another Turn, or of an Agent that is not ready.
LEMMA DroppedStep ==
  ASSUME TranscriptIInv, NEW m, Taken(wire, wire', m), IsEvent(m),
         UNCHANGED <<rows, turn, ctx, sess, serving, ready>>,
         native' = IF ~ready THEN [native EXCEPT !.lossy = @ \cup {m.turn}] ELSE native,
         ~ready \/ ctx.turn # m.turn
  PROVE  TranscriptIInv' /\ Final(rows, rows')
<1>1. /\ native \in Natives /\ PipeFits(wire, turn.latest) /\ rows \subseteq Rows
      /\ ctx \in [turn : {NoTurn} \cup TurnIds, started : SUBSET Calls, dispatched : SUBSET Calls]
      /\ sess \in [TurnIds -> Sessions]
  <2> HIDE DEF Sessions, Rows, Natives
  <2> QED BY DEF TranscriptIInv, TranscriptTyped
<1>2. wire \in Seq(Events) /\ m \in Events BY <1>1, PipeLess DEF EventFits
<1>3. m.turn \in TurnIds BY <1>2 DEF Events
<1>4. /\ native' \in Natives /\ native'.texts = native.texts /\ native.lossy \subseteq native'.lossy
      /\ ~ready => m.turn \in native'.lossy
  BY <1>1, <1>3 DEF Natives
<1>5. RowsGood(rows, rows') BY SameGood
<1>6. ASSUME ctx.turn # NoTurn, ctx.turn \notin native'.lossy
      PROVE  StreamFits(ctx.turn, wire', rows', sess[ctx.turn], native.texts)
  <2>1. m.turn # ctx.turn BY <1>4, <1>6
  <2>2. ~OfTurn(m, ctx.turn) BY <2>1 DEF OfTurn
  <2>3. StreamFits(ctx.turn, wire, rows, sess[ctx.turn], native.texts)
    BY <1>4, <1>6 DEF TranscriptIInv, StreamsFit
  <2>4. sess[ctx.turn] \in Sessions
    <3> HIDE DEF Sessions
    <3> QED BY <1>1, <1>6
  <2> QED BY <1>1, <1>2, <2>2, <2>3, <2>4, StreamLess
<1>7. ctx.turn = NoTurn => ctx'.started = {} BY DEF TranscriptIInv, WorkIsLatest
<1>8. \A r \in rows' : /\ r.kind \in Kinds /\ r.state = "completed" /\ r.turn \notin native'.lossy
                       => <<r.turn, r.key, r.text>> \in native.texts
  BY <1>4 DEF TranscriptIInv, TextsWhole
<1> HIDE DEF Natives
<1> QED BY <1>1, <1>4, <1>5, <1>6, <1>7, <1>8, ReadStep

-----------------------------------------------------------------------------
\* What is known when an event of the Turn at work is read by an Agent that is ready.
LEMMA ReadFacts ==
  ASSUME TranscriptIInv, NEW m, Taken(wire, wire', m), ctx.turn = m.turn
  PROVE  /\ m \in Events /\ wire \in Seq(Events) /\ EventFits(m, turn.latest)
         /\ m.turn \in TurnIds /\ m.turn # NoTurn /\ turn.latest = m.turn /\ turn.working
         /\ rows \subseteq Rows /\ native \in Natives /\ sess[m.turn] \in Sessions
         /\ ctx \in [turn : {NoTurn} \cup TurnIds, started : SUBSET Calls, dispatched : SUBSET Calls]
         /\ (m.turn \notin native.lossy =>
               StreamFits(m.turn, wire, rows, sess[m.turn], native.texts))
<1>1. /\ native \in Natives /\ PipeFits(wire, turn.latest) /\ rows \subseteq Rows
      /\ ctx \in [turn : {NoTurn} \cup TurnIds, started : SUBSET Calls, dispatched : SUBSET Calls]
      /\ sess \in [TurnIds -> Sessions]
  <2> HIDE DEF Sessions, Rows, Natives
  <2> QED BY DEF TranscriptIInv, TranscriptTyped
<1>2. wire \in Seq(Events) /\ m \in Events /\ EventFits(m, turn.latest) BY <1>1, PipeLess DEF EventFits
<1>3. m.turn \in TurnIds BY <1>2 DEF Events
<1>4. m.turn # NoTurn BY <1>3 DEF TurnIds, NoTurn
<1>5. turn.latest = m.turn /\ turn.working BY <1>4 DEF TranscriptIInv, WorkIsLatest
<1>6. sess[m.turn] \in Sessions
  <2> HIDE DEF Sessions
  <2> QED BY <1>1, <1>3
<1>7. m.turn \notin native.lossy => StreamFits(m.turn, wire, rows, sess[m.turn], native.texts)
  BY <1>4 DEF TranscriptIInv, StreamsFit
<1> QED BY <1>1, <1>2, <1>3, <1>4, <1>5, <1>6, <1>7

\* An event is routed that leaves the blocks as they are.
LEMMA CallEventStep ==
  ASSUME TranscriptIInv, NEW m, Taken(wire, wire', m), IsEvent(m), ctx.turn = m.turn,
         m.type \notin BlockEvents,
         UNCHANGED <<turn, sess, serving, ready, native>>,
         ctx' \in [turn : {NoTurn} \cup TurnIds, started : SUBSET Calls, dispatched : SUBSET Calls],
         ctx'.turn = ctx.turn, ctx'.dispatched = ctx.dispatched,
         RowsGood(rows, rows'), \A r : r.kind \in Kinds => (r \in rows <=> r \in rows'),
         \A c \in ctx'.started : c \in ctx.started \/ CallHasRow(ctx.turn, c)'
  PROVE  TranscriptIInv' /\ Final(rows, rows')
<1>1. /\ m \in Events /\ wire \in Seq(Events) /\ m.turn # NoTurn
      /\ rows \subseteq Rows /\ native \in Natives /\ sess[m.turn] \in Sessions
      /\ (m.turn \notin native.lossy =>
            StreamFits(m.turn, wire, rows, sess[m.turn], native.texts))
  BY ReadFacts
<1>2. ASSUME m.turn \notin native.lossy
      PROVE  StreamFits(m.turn, wire', rows', sess[m.turn], native.texts)
  <2>1. ~OfTurn(m, m.turn) BY DEF OfTurn
  <2>2. StreamFits(m.turn, wire', rows, sess[m.turn], native.texts)
    BY <1>1, <1>2, <2>1, StreamLess
  <2>3. \A r : r.turn = m.turn /\ r.kind \in Kinds => (r \in rows <=> r \in rows') OBVIOUS
  <2> QED BY <2>2, <2>3, StreamRows
<1>3. \A r \in rows' : /\ r.kind \in Kinds /\ r.state = "completed" /\ r.turn \notin native.lossy
                       => <<r.turn, r.key, r.text>> \in native.texts
  BY TextsStay
<1> HIDE DEF Natives
<1> QED BY <1>1, <1>2, <1>3, ReadStep

\* An event of a block is routed.
LEMMA BlockEventStep ==
  ASSUME TranscriptIInv, NEW m, Taken(wire, wire', m), IsEvent(m), ctx.turn = m.turn,
         UNCHANGED <<turn, ctx, sess, serving, ready, native>>,
         RowsGood(rows, rows'),
         \A r \in rows' : /\ r.kind \in Kinds /\ r.state = "completed" /\ r.turn \notin native.lossy
                          => <<r.turn, r.key, r.text>> \in native.texts,
         m.turn \notin native.lossy =>
           StreamFits(m.turn, wire', rows', sess[m.turn], native.texts)
  PROVE  TranscriptIInv' /\ Final(rows, rows')
<1>1. /\ m.turn # NoTurn /\ native \in Natives
      /\ ctx \in [turn : {NoTurn} \cup TurnIds, started : SUBSET Calls, dispatched : SUBSET Calls]
  BY ReadFacts
<1> HIDE DEF Natives
<1> QED BY <1>1, ReadStep

\* A block starts: it is shown, if it is not yet.
LEMMA ShowStep ==
  ASSUME TranscriptIInv, NEW m, Taken(wire, wire', m), ctx.turn = m.turn, m.type \in Kinds,
         UNCHANGED <<turn, ctx, sess, serving, ready, native>>,
         rows' = IF HasBlock(m.turn, m.key) THEN rows
                 ELSE rows \cup {Row(m.turn, m.type, m.key, "streaming")}
  PROVE  TranscriptIInv' /\ Final(rows, rows')
<1> DEFINE r == Row(m.turn, m.type, m.key, "streaming")
<1>1. /\ m \in Events /\ wire \in Seq(Events) /\ EventFits(m, turn.latest)
      /\ m.turn \in TurnIds /\ m.turn # NoTurn /\ turn.latest = m.turn /\ turn.working
      /\ rows \subseteq Rows /\ sess[m.turn] \in Sessions
      /\ (m.turn \notin native.lossy =>
            StreamFits(m.turn, wire, rows, sess[m.turn], native.texts))
  BY ReadFacts
<1>2. m.type \in BlockEvents /\ IsEvent(m) BY DEF BlockEvents, IsEvent, Kinds
<1>3. m.key \in Nat BY <1>1, <1>2 DEF EventFits
<1>4. StartOf(m, m.turn, m.key) BY <1>2 DEF StartOf, OfBlock
<1>5. PICK n \in Nat : \A q \in rows : q.seq <= n BY DEF TranscriptIInv, RowsFit
<1>6. NextSeq \in Nat \ {0}
  <2> HIDE DEF Rows
  <2> QED BY <1>1, <1>5, NextSeqIsLast
<1>7. /\ r \in Rows /\ r.seq = NextSeq /\ r.turn = m.turn /\ r.state = "streaming" /\ r.text = 0
      /\ r.kind = m.type /\ r.key = m.key
  BY <1>1, <1>3, <1>6 DEF Row, Rows
<1> HIDE DEF r
<1>8. IsBlock(r, m.turn, m.key) BY <1>7 DEF IsBlock
<1>9. HasBlock(m.turn, m.key) <=> BlockShown(rows, m.turn, m.key) BY DEF HasBlock, BlockShown
<1>10. m.turn \notin native.lossy =>
         /\ StreamFits(m.turn, wire', rows \cup {r}, sess[m.turn], native.texts)
         /\ ~BlockShown(rows, m.turn, m.key)
  <2> SUFFICES ASSUME m.turn \notin native.lossy
               PROVE  /\ StreamFits(m.turn, wire', rows \cup {r}, sess[m.turn], native.texts)
                      /\ ~BlockShown(rows, m.turn, m.key)
    OBVIOUS
  <2>1. StreamFits(m.turn, wire, rows, sess[m.turn], native.texts) BY <1>1
  <2>2. wire \in Seq(Events) /\ rows \subseteq Rows /\ sess[m.turn] \in Sessions BY <1>1
  <2>3. r.state = "streaming" /\ r.text = 0 BY <1>7
  <2> HIDE DEF Rows, Sessions, Events
  <2> QED BY <1>4, <1>8, <2>1, <2>2, <2>3, StreamReadStart
<1>11. CASE HasBlock(m.turn, m.key)
  <2>1. rows' = rows BY <1>11
  <2>2. RowsGood(rows, rows') BY <2>1, SameGood
  <2>3. \A q \in rows' : /\ q.kind \in Kinds /\ q.state = "completed" /\ q.turn \notin native.lossy
                         => <<q.turn, q.key, q.text>> \in native.texts
    BY <2>1, TextsStay
  <2>4. m.turn \in native.lossy BY <1>9, <1>10, <1>11
  <2> QED BY <1>2, <2>2, <2>3, <2>4, BlockEventStep
<1>12. CASE ~HasBlock(m.turn, m.key)
  <2>1. rows' = rows \cup {r} BY <1>12 DEF r
  <2>2. r.kind \in Kinds => r.state = "streaming" /\ ~BlockShown(rows, r.turn, r.key)
    BY <1>7, <1>9, <1>12
  <2>3. RowsGood(rows, rows')
    <3> HIDE DEF Rows
    <3> QED BY <1>1, <1>7, <2>1, <2>2, AddedGood
  <2>4. \A q \in rows' : /\ q.kind \in Kinds /\ q.state = "completed" /\ q.turn \notin native.lossy
                         => <<q.turn, q.key, q.text>> \in native.texts
    BY <1>7, <2>1 DEF TranscriptIInv, TextsWhole
  <2>5. m.turn \notin native.lossy =>
          StreamFits(m.turn, wire', rows', sess[m.turn], native.texts)
    BY <1>10, <2>1
  <2> QED BY <1>2, <2>3, <2>4, <2>5, BlockEventStep
<1> QED BY <1>11, <1>12

\* A delta of a block is routed, or its end.
LEMMA UpdateStep ==
  ASSUME TranscriptIInv, NEW m, Taken(wire, wire', m), ctx.turn = m.turn,
         UNCHANGED <<turn, ctx, sess, serving, ready, native>>,
         NEW more \in Nat, NEW st,
         \/ m.type = "delta" /\ more = m.n /\ st = "streaming"
         \/ m.type = "end" /\ more = 0 /\ st = "completed",
         rows' = UpdateBlock(m.turn, m.key, more, st)
  PROVE  TranscriptIInv' /\ Final(rows, rows')
<1>1. /\ m \in Events /\ wire \in Seq(Events) /\ EventFits(m, turn.latest)
      /\ rows \subseteq Rows /\ sess[m.turn] \in Sessions
      /\ (m.turn \notin native.lossy =>
            StreamFits(m.turn, wire, rows, sess[m.turn], native.texts))
  BY ReadFacts
<1>2. /\ m.type \in BlockEvents /\ IsEvent(m) /\ OfBlock(m, m.turn, m.key)
      /\ st \in {"streaming", "completed"}
  BY DEF BlockEvents, IsEvent, OfBlock
<1>3. m.key \in Nat BY <1>1, <1>2 DEF EventFits
<1>4. /\ Revised(rows, rows')
      /\ Updated(rows, rows', m.turn, m.key, more, st)
      /\ \A r : ~IsBlock(r, m.turn, m.key) => (r \in rows <=> r \in rows')
  BY <1>2, UpdateBlockRevised
<1>5. RowsGood(rows, rows') BY <1>4, RevisedGood
<1>6. OthersStay(rows, rows', m.turn, m.key) BY <1>4 DEF OthersStay, IsBlock
<1>7. ShownOnce(rows, m.turn, m.key) BY DEF TranscriptIInv, RowsFit, IsBlock, ShownOnce
<1>8. ASSUME m.turn \notin native.lossy
      PROVE  /\ BlockFits(m.turn, m.key, wire, rows, sess[m.turn], native.texts) =>
                  /\ BlockFits(m.turn, m.key, wire', rows', sess[m.turn], native.texts)
                  /\ \A r \in rows' : IsBlock(r, m.turn, m.key) /\ r.state = "completed" =>
                       <<m.turn, m.key, r.text>> \in native.texts
  <2> SUFFICES ASSUME BlockFits(m.turn, m.key, wire, rows, sess[m.turn], native.texts)
               PROVE  /\ BlockFits(m.turn, m.key, wire', rows', sess[m.turn], native.texts)
                      /\ \A r \in rows' : IsBlock(r, m.turn, m.key) /\ r.state = "completed" =>
                           <<m.turn, m.key, r.text>> \in native.texts
    OBVIOUS
  <2>1. CASE m.type = "delta" /\ more = m.n /\ st = "streaming"
    <3>1. BlockFits(m.turn, m.key, wire', rows', sess[m.turn], native.texts)
      <4> HIDE DEF Rows
      <4> QED BY <1>1, <1>2, <1>3, <1>4, <2>1, BlockReadDelta
    <3>2. ASSUME NEW r \in rows', IsBlock(r, m.turn, m.key), r.state = "completed"
          PROVE  <<m.turn, m.key, r.text>> \in native.texts
      <4>1. PICK q \in rows : /\ IsBlock(q, m.turn, m.key)
                              /\ IF q.state = "streaming" THEN r.text = q.text + more /\ r.state = st
                                                          ELSE r = q
        BY <1>4, <3>2 DEF Updated
      <4>2. r \in rows BY <2>1, <3>2, <4>1
      <4> QED BY <1>8, <3>2, <4>2 DEF TranscriptIInv, TextsWhole, IsBlock
    <3> QED BY <3>1, <3>2
  <2>2. CASE m.type = "end" /\ more = 0 /\ st = "completed"
    <3>1. EndOf(m, m.turn, m.key) BY <1>2, <2>2 DEF EndOf
    <3>2. Completed(rows, rows', m.turn, m.key) BY <1>4, <2>2 DEF Completed
    <3>3. wire \in Seq(Events) /\ rows \subseteq Rows /\ sess[m.turn] \in Sessions BY <1>1
    <3>4. /\ BlockFits(m.turn, m.key, wire', rows', sess[m.turn], native.texts)
          /\ ShownWhole(rows', m.turn, m.key, native.texts)
      <4>1. BlockFits(m.turn, m.key, wire, rows, sess[m.turn], native.texts) OBVIOUS
      <4>2. Taken(wire, wire', m) OBVIOUS
      <4> HIDE DEF Rows, Sessions, Events
      <4> QED BY ONLY <1>3, <1>7, <3>1, <3>2, <3>3, <4>1, <4>2, BlockReadEnd
    <3> QED BY <3>4 DEF ShownWhole
  <2> QED BY <2>1, <2>2
<1>9. ASSUME m.turn \notin native.lossy
      PROVE  /\ StreamFits(m.turn, wire', rows', sess[m.turn], native.texts)
             /\ m.key \in 1..sess[m.turn].blocks
  <2>1. StreamFits(m.turn, wire, rows, sess[m.turn], native.texts) BY <1>1, <1>9
  <2>2. \A b \in 1..sess[m.turn].blocks :
          BlockFits(m.turn, b, wire, rows, sess[m.turn], native.texts)
    BY <2>1 DEF StreamFits
  <2>3. CountedFits(m.turn, m.key, wire', rows', sess[m.turn], native.texts)
    BY <1>8, <1>9, <2>2 DEF CountedFits
  <2>4. wire \in Seq(Events) /\ rows \subseteq Rows /\ sess[m.turn] \in Sessions BY <1>1
  <2>5. OfBlock(m, m.turn, m.key) BY <1>2
  <2> HIDE DEF Rows, Sessions, Events
  <2> QED BY <1>6, <2>1, <2>3, <2>4, <2>5, StreamReadRest
<1>10. ASSUME NEW r \in rows', r.kind \in Kinds, r.state = "completed", r.turn \notin native.lossy
       PROVE  <<r.turn, r.key, r.text>> \in native.texts
  <2>1. CASE IsBlock(r, m.turn, m.key)
    <3>1. r.turn = m.turn /\ r.key = m.key BY <2>1 DEF IsBlock
    <3>2. m.turn \notin native.lossy BY <1>10, <3>1
    <3>3. BlockFits(m.turn, m.key, wire, rows, sess[m.turn], native.texts)
      BY <1>1, <1>9, <3>2 DEF StreamFits
    <3> QED BY <1>8, <1>10, <2>1, <3>1, <3>2, <3>3
  <2>2. CASE ~IsBlock(r, m.turn, m.key)
    <3>1. r \in rows BY <1>4, <2>2
    <3> QED BY <1>10, <3>1 DEF TranscriptIInv, TextsWhole
  <2> QED BY <2>1, <2>2
<1> QED BY <1>2, <1>5, <1>9, <1>10, BlockEventStep

-----------------------------------------------------------------------------
\* A call is seen to start: it gets a row, if none in the Thread has its identity.
LEMMA ToolStartedStep ==
  ASSUME TranscriptIInv, NEW m, Taken(wire, wire', m), ctx.turn = m.turn, m.type = "tool.started",
         UNCHANGED <<turn, sess, serving, ready, native>>,
         IF HasToolCall(m.key) THEN UNCHANGED <<rows, ctx>>
         ELSE /\ rows' = rows \cup {Row(m.turn, "tool", m.key, "running")}
              /\ ctx' = [ctx EXCEPT !.started = @ \cup {m.key}]
  PROVE  TranscriptIInv' /\ Final(rows, rows')
<1> DEFINE r == Row(m.turn, "tool", m.key, "running")
<1>1. /\ m \in Events /\ EventFits(m, turn.latest)
      /\ m.turn \in TurnIds /\ m.turn # NoTurn /\ turn.latest = m.turn /\ turn.working
      /\ rows \subseteq Rows
      /\ ctx \in [turn : {NoTurn} \cup TurnIds, started : SUBSET Calls, dispatched : SUBSET Calls]
  BY ReadFacts
<1>2. m.type \notin BlockEvents /\ m.type \in ToolEvents /\ IsEvent(m)
  BY DEF BlockEvents, ToolEvents, IsEvent, Kinds
<1>3. m.key \in Calls BY <1>1, <1>2 DEF EventFits
<1>4. CASE HasToolCall(m.key)
  <2>1. rows' = rows /\ ctx' = ctx BY <1>4
  <2>2. RowsGood(rows, rows') BY <2>1, SameGood
  <2> QED BY <1>1, <1>2, <2>1, <2>2, CallEventStep
<1>5. CASE ~HasToolCall(m.key)
  <2>1. rows' = rows \cup {r} /\ ctx' = [ctx EXCEPT !.started = @ \cup {m.key}] BY <1>5
  <2>2. PICK n \in Nat : \A q \in rows : q.seq <= n BY DEF TranscriptIInv, RowsFit
  <2>3. NextSeq \in Nat \ {0}
    <3> HIDE DEF Rows
    <3> QED BY <1>1, <2>2, NextSeqIsLast
  <2>4. /\ r \in Rows /\ r.seq = NextSeq /\ r.turn = m.turn /\ r.kind = "tool" /\ r.key = m.key
    BY <1>1, <1>3, <2>3 DEF Row, Rows
  <2> HIDE DEF r
  <2>5. r.kind \notin Kinds BY <2>4 DEF Kinds
  <2>6. RowsGood(rows, rows')
    <3> HIDE DEF Rows
    <3> QED BY <1>1, <2>1, <2>4, <2>5, AddedGood
  <2>7. \A q : q.kind \in Kinds => (q \in rows <=> q \in rows') BY <2>1, <2>5
  <2>8. /\ ctx' \in [turn : {NoTurn} \cup TurnIds, started : SUBSET Calls, dispatched : SUBSET Calls]
        /\ ctx'.turn = ctx.turn /\ ctx'.dispatched = ctx.dispatched
        /\ ctx'.started = ctx.started \cup {m.key}
    BY <1>1, <1>3, <2>1
  <2>9. CallHasRow(ctx.turn, m.key)' BY <2>1, <2>4, <2>8 DEF CallHasRow, IsToolCall
  <2>10. \A c \in ctx'.started : c \in ctx.started \/ CallHasRow(ctx.turn, c)' BY <2>8, <2>9
  <2> QED BY <1>2, <2>6, <2>7, <2>8, <2>10, CallEventStep
<1> QED BY <1>4, <1>5

\* A call goes on or ends: its row is updated.
LEMMA ToolReportStep ==
  ASSUME TranscriptIInv, NEW m, Taken(wire, wire', m), ctx.turn = m.turn,
         m.type \in {"tool.updated", "tool.completed", "tool.failed"},
         UNCHANGED <<turn, sess, serving, ready, native>>,
         NEW st \in {"running", "completed", "failed"}, rows' = UpdateToolCall(m.key, st),
         ctx' = ctx \/ ctx' = [ctx EXCEPT !.started = @ \ {m.key}]
  PROVE  TranscriptIInv' /\ Final(rows, rows')
<1>1. ctx \in [turn : {NoTurn} \cup TurnIds, started : SUBSET Calls, dispatched : SUBSET Calls]
  BY ReadFacts
<1>2. m.type \notin BlockEvents /\ IsEvent(m) BY DEF BlockEvents, IsEvent, Kinds
<1>3. Revised(rows, rows') /\ \A r : r.kind \in Kinds => (r \in rows <=> r \in rows')
  BY UpdateToolCallRevised
<1>4. RowsGood(rows, rows') BY <1>3, RevisedGood
<1>5. /\ ctx' \in [turn : {NoTurn} \cup TurnIds, started : SUBSET Calls, dispatched : SUBSET Calls]
      /\ ctx'.turn = ctx.turn /\ ctx'.dispatched = ctx.dispatched
      /\ ctx'.started \subseteq ctx.started
  BY <1>1
<1>6. \A c \in ctx'.started : c \in ctx.started \/ CallHasRow(ctx.turn, c)' BY <1>5
<1> QED BY <1>2, <1>3, <1>4, <1>5, <1>6, CallEventStep

\* What a request on the wire needs does not depend on a Turn that is over.
LEMMA RequestIdle ==
  ASSUME NEW t, NEW c, NEW u, NEW sv, NEW ss, NEW w, NEW x, NEW st, NEW other,
         RequestFits(t, c, u, sv, w, st), x # t, ss \subseteq sv
  PROVE  RequestFits(t, c, u, ss, x, other)
BY DEF RequestFits

-----------------------------------------------------------------------------
\* A step after which no Turn works: its rows are settled, its calls are to be cancelled.
LEMMA IdleStep ==
  ASSUME TranscriptIInv, ctx' = NoContext, turn' = [turn EXCEPT !.working = FALSE],
         RowsGood(rows, rows'),
         \A r \in rows' : Over(r) /\ (r.kind \in Kinds => r \in rows),
         sess' \in [TurnIds -> Sessions],
         \A o \in TurnIds : o > turn.latest => sess'[o] = ClosedSession,
         ready' \in BOOLEAN, native' = native, PipeFits(wire', turn.latest), RequestsFit',
         serving' \subseteq serving,
         \A r \in serving' : /\ sess'[r[1]].tool[r[2]] = "asking" \/ Cancelled(r[1], r[2])'
                             /\ sess'[r[1]].closing \/ sess'[r[1]].phase = "closed"
  PROVE  TranscriptIInv' /\ Final(rows, rows')
<1>1. /\ rows' \subseteq Rows /\ RowsFit' /\ Final(rows, rows')
      /\ \A r \in rows' : r.turn <= turn.latest
      /\ \A t, c : CallHasRow(t, c) => CallHasRow(t, c)'
  BY GoodRows
<1>2. /\ turn' \in [latest : 0..MaxTurns, working : BOOLEAN]
      /\ turn'.latest = turn.latest /\ turn'.working = FALSE
  BY DEF TranscriptIInv, TranscriptTyped
<1>3. /\ ctx' \in [turn : {NoTurn} \cup TurnIds, started : SUBSET Calls, dispatched : SUBSET Calls]
      /\ ctx'.turn = NoTurn /\ ctx'.started = {}
  BY DEF NoContext
<1>4. TranscriptTyped'
  <2> HIDE DEF Rows, Sessions, Natives
  <2> QED BY <1>1, <1>2, <1>3 DEF TranscriptIInv, TranscriptTyped
<1>5. PipeFits(wire', turn'.latest) BY <1>2
<1>6. WorkIsLatest' BY <1>2, <1>3 DEF WorkIsLatest
<1>7. NothingAhead'
  <2> HIDE DEF ClosedSession
  <2> QED BY <1>1, <1>2 DEF TranscriptIInv, NothingAhead
<1>8. OnlyWorkIsBusy' BY DEF OnlyWorkIsBusy, Over, Streaming, Running
<1>9. StartedHaveRows' BY <1>3 DEF StartedHaveRows
<1>10. ServedFit' BY <1>1 DEF TranscriptIInv, ServedFit
<1>11. StreamsFit' BY <1>3 DEF StreamsFit
<1>12. TextsWhole' BY DEF TranscriptIInv, TextsWhole
<1> QED BY <1>1, <1>4, <1>5, <1>6, <1>7, <1>8, <1>9, <1>10, <1>11, <1>12 DEF TranscriptIInv

\* The wire stays, or an event of a Turn is read: what is cancelled stays so.
LEMMA WireKept ==
  ASSUME TranscriptIInv, UNCHANGED wire \/ \E m : Taken(wire, wire', m) /\ IsEvent(m)
  PROVE  /\ PipeFits(wire', turn.latest)
         /\ \A o, d : Cancelled(o, d) => Cancelled(o, d)'
         /\ \A t \in TurnIds : \A c \in Calls :
              RequestFits(t, c, wire', serving, ctx.turn, sess[t].tool[c])
<1>1. PipeFits(wire, turn.latest) /\ wire \in Seq(Events) BY DEF TranscriptIInv, PipeFits
<1>2. \A t \in TurnIds : \A c \in Calls :
        RequestFits(t, c, wire, serving, ctx.turn, sess[t].tool[c])
  BY DEF TranscriptIInv, RequestsFit
<1>3. CASE UNCHANGED wire BY <1>1, <1>2, <1>3 DEF Cancelled
<1>4. ASSUME NEW m, Taken(wire, wire', m), IsEvent(m)
      PROVE  /\ PipeFits(wire', turn.latest)
             /\ \A o, d : Cancelled(o, d) => Cancelled(o, d)'
             /\ \A t \in TurnIds : \A c \in Calls :
                  RequestFits(t, c, wire', serving, ctx.turn, sess[t].tool[c])
  <2>1. \A t, c : ~Drops(m, t, c) BY <1>4 DEF IsEvent, Drops, Event
  <2>2. PipeFits(wire', turn.latest) BY <1>1, <1>4, PipeLess
  <2>3. \A o, d : Cancelled(o, d) => Cancelled(o, d)' BY <1>1, <1>4, <2>1, CancelLess
  <2>4. ASSUME NEW t \in TurnIds, NEW c \in Calls
        PROVE  RequestFits(t, c, wire', serving, ctx.turn, sess[t].tool[c])
    <3>1. RequestFits(t, c, wire, serving, ctx.turn, sess[t].tool[c]) BY <1>2
    <3>2. ServedLess(serving, serving, m, t, c) BY <2>1 DEF ServedLess
    <3> HIDE DEF Events
    <3> QED BY ONLY <1>1, <1>4, <3>1, <3>2, RequestLess
  <2> QED BY <2>2, <2>3, <2>4
<1> QED BY <1>3, <1>4

\* The Turn at work ends: by its last event, or without.
LEMMA FinishStep ==
  ASSUME TranscriptIInv, NEW t, t = ctx.turn, t # NoTurn, FinishTurn(t),
         UNCHANGED <<serving, ready, native>>,
         UNCHANGED wire \/ \E m : Taken(wire, wire', m) /\ IsEvent(m)
  PROVE  TranscriptIInv' /\ Final(rows, rows')
<1>1. /\ ctx' = NoContext /\ sess' = [sess EXCEPT ![t] = Closing(@)]
      /\ rows' = Finalized(t) /\ turn' = [turn EXCEPT !.working = FALSE]
  BY DEF FinishTurn
<1>2. /\ sess \in [TurnIds -> Sessions] /\ ready \in BOOLEAN /\ t \in TurnIds
      /\ serving \subseteq TurnIds \X Calls /\ turn.latest \in Nat
  <2> HIDE DEF Sessions, Rows, Natives
  <2> QED BY DEF TranscriptIInv, TranscriptTyped
<1>3. t = turn.latest /\ sess[t].phase # "closed" BY DEF TranscriptIInv, WorkIsLatest
<1>4. /\ Closing(sess[t]) \in Sessions /\ Closing(sess[t]).closing = TRUE
      /\ Closing(sess[t]).tool = sess[t].tool
  BY <1>2, <1>3 DEF Closing, Sessions
<1>5. /\ sess' \in [TurnIds -> Sessions]
      /\ sess'[t].closing = TRUE /\ sess'[t].tool = sess[t].tool
      /\ \A o \in TurnIds : o # t => sess'[o] = sess[o]
  <2> HIDE DEF Sessions, Closing
  <2> QED BY <1>1, <1>2, <1>4
<1>6. /\ Revised(rows, rows')
      /\ \A r \in rows' : Over(r) /\ (r.kind \in Kinds => r \in rows)
  BY <1>1, <1>3, FinalizedAre
<1>7. RowsGood(rows, rows') BY <1>6, RevisedGood
<1>8. \A o \in TurnIds : o > turn.latest => sess'[o] = ClosedSession
  <2> SUFFICES ASSUME NEW o \in TurnIds, o > turn.latest PROVE sess'[o] = ClosedSession
    OBVIOUS
  <2>1. o # t BY <1>2, <1>3 DEF TurnIds
  <2> HIDE DEF ClosedSession, Sessions
  <2> QED BY <1>5, <2>1 DEF TranscriptIInv, NothingAhead
<1>9. /\ PipeFits(wire', turn.latest)
      /\ \A o, d : Cancelled(o, d) => Cancelled(o, d)'
      /\ \A o \in TurnIds : \A c \in Calls :
           RequestFits(o, c, wire', serving, ctx.turn, sess[o].tool[c])
  BY WireKept
<1>10. RequestsFit'
  <2> SUFFICES ASSUME NEW o \in TurnIds, NEW c \in Calls
               PROVE  RequestFits(o, c, wire', serving, ctx'.turn, sess'[o].tool[c])
    BY DEF RequestsFit
  <2>1. RequestFits(o, c, wire', serving, ctx.turn, sess[o].tool[c]) BY <1>9
  <2>2. ctx'.turn # o BY <1>1 DEF NoContext, TurnIds, NoTurn
  <2> QED BY <2>1, <2>2, RequestIdle
<1>11. ASSUME NEW r \in serving'
       PROVE  /\ sess'[r[1]].tool[r[2]] = "asking" \/ Cancelled(r[1], r[2])'
              /\ sess'[r[1]].closing \/ sess'[r[1]].phase = "closed"
  <2>1. r[1] \in TurnIds BY <1>2, <1>11
  <2>2. /\ sess[r[1]].tool[r[2]] = "asking" \/ Cancelled(r[1], r[2])
        /\ \/ ctx.turn = r[1]
           \/ sess[r[1]].closing \/ sess[r[1]].phase = "closed"
    BY <1>11 DEF TranscriptIInv, ServedFit
  <2>3. sess'[r[1]].tool = sess[r[1]].tool
    <3> HIDE DEF Sessions
    <3> QED BY <1>5, <2>1
  <2>4. sess'[r[1]].closing \/ sess'[r[1]].phase = "closed"
    <3>1. CASE r[1] = t BY <3>1, <1>5
    <3>2. CASE r[1] # t
      <4>1. sess'[r[1]] = sess[r[1]]
        <5> HIDE DEF Sessions
        <5> QED BY <1>5, <2>1, <3>2
      <4> QED BY <3>2, <4>1, <2>2
    <3> QED BY <3>1, <3>2
  <2> QED BY <1>9, <2>2, <2>3, <2>4
<1> HIDE DEF Sessions, ClosedSession, NoContext
<1> QED BY <1>1, <1>2, <1>5, <1>6, <1>7, <1>8, <1>9, <1>10, <1>11, IdleStep

\* A closed session is a session.
LEMMA ClosedIsSession == ClosedSession \in Sessions
BY DEF ClosedSession, Fresh, Sessions, NoTurn

\* The worker exits, and what it was asked is aborted.
LEMMA WorkerExitsStep ==
  ASSUME TranscriptIInv, AgentWorkerExits
  PROVE  TranscriptIInv' /\ Final(rows, rows')
<1>1. /\ IF ctx.turn # NoTurn
         THEN /\ ctx' = NoContext /\ rows' = Finalized(ctx.turn)
              /\ turn' = [turn EXCEPT !.working = FALSE]
         ELSE UNCHANGED <<ctx, rows, turn>>
      /\ sess' = [t \in TurnIds |-> ClosedSession] /\ serving' = {}
      /\ UNCHANGED <<ready, wire, native>>
  BY DEF AgentWorkerExits
<1>2. /\ ready \in BOOLEAN /\ PipeFits(wire, turn.latest) /\ turn.latest \in Nat
      /\ turn \in [latest : 0..MaxTurns, working : BOOLEAN]
      /\ ctx \in [turn : {NoTurn} \cup TurnIds, started : SUBSET Calls, dispatched : SUBSET Calls]
      /\ ctx.turn = NoTurn => ctx.started = {}
      /\ turn.working <=> ctx.turn # NoTurn
  <2> HIDE DEF Sessions, Rows, Natives
  <2> QED BY DEF TranscriptIInv, TranscriptTyped, WorkIsLatest
<1>3. sess' \in [TurnIds -> Sessions]
  <2> HIDE DEF Sessions, ClosedSession
  <2> QED BY <1>1, ClosedIsSession
<1>4. \A o \in TurnIds : sess'[o] = ClosedSession
  <2> HIDE DEF ClosedSession
  <2> QED BY <1>1
<1>5. ctx'.turn = NoTurn BY <1>1 DEF NoContext
<1>6. RequestsFit'
  <2> SUFFICES ASSUME NEW o \in TurnIds, NEW c \in Calls
               PROVE  RequestFits(o, c, wire, {}, ctx'.turn, sess'[o].tool[c])
    BY <1>1 DEF RequestsFit
  <2>1. RequestFits(o, c, wire, serving, ctx.turn, sess[o].tool[c])
    BY DEF TranscriptIInv, RequestsFit
  <2>2. ctx'.turn # o /\ {} \subseteq serving BY <1>5 DEF TurnIds, NoTurn
  <2> QED BY <2>1, <2>2, RequestIdle
<1>7. CASE ctx.turn # NoTurn
  <2>1. ctx.turn = turn.latest BY <1>7 DEF TranscriptIInv, WorkIsLatest
  <2>2. /\ Revised(rows, rows')
        /\ \A r \in rows' : Over(r) /\ (r.kind \in Kinds => r \in rows)
    BY <1>1, <1>7, <2>1, FinalizedAre
  <2>3. RowsGood(rows, rows') BY <2>2, RevisedGood
  <2> HIDE DEF Sessions, ClosedSession, NoContext
  <2> QED BY <1>1, <1>2, <1>3, <1>4, <1>6, <1>7, <2>2, <2>3, IdleStep
<1>8. CASE ctx.turn = NoTurn
  <2>1. rows' = rows /\ turn' = turn /\ ctx' = ctx BY <1>1, <1>8
  <2>2. RowsGood(rows, rows') BY <2>1, SameGood
  <2>3. /\ rows' \subseteq Rows /\ RowsFit' /\ \A r \in rows' : r.turn <= turn.latest
        /\ OnlyWorkIsBusy' /\ Final(rows, rows')
    BY <2>1, <2>2, GoodRows
  <2>4. TranscriptTyped'
    <3> HIDE DEF Rows, Sessions, Natives
    <3> QED BY <1>1, <1>3, <2>1, <2>3 DEF TranscriptIInv, TranscriptTyped
  <2>5. PipeFits(wire', turn'.latest) BY <1>1, <1>2, <2>1
  <2>6. WorkIsLatest' BY <1>2, <1>8, <2>1 DEF WorkIsLatest
  <2>7. NothingAhead' BY <1>1, <1>4, <2>1, <2>3 DEF NothingAhead
  <2>8. StartedHaveRows' BY <1>2, <1>8, <2>1 DEF StartedHaveRows
  <2>9. ServedFit' BY <1>1 DEF ServedFit
  <2>10. StreamsFit' BY <1>8, <2>1 DEF StreamsFit
  <2>11. TextsWhole' BY <1>1, <2>1 DEF TranscriptIInv, TextsWhole
  <2> QED BY <1>6, <2>3, <2>4, <2>5, <2>6, <2>7, <2>8, <2>9, <2>10, <2>11 DEF TranscriptIInv
<1> QED BY <1>7, <1>8

\* The daemon starts again.
LEMMA DaemonRestartsStep ==
  ASSUME TranscriptIInv, DaemonRestarts
  PROVE  TranscriptIInv' /\ Final(rows, rows')
<1>1. /\ rows' = Recovered /\ turn' = [turn EXCEPT !.working = FALSE]
      /\ ctx' = NoContext /\ ready' = TRUE /\ wire' = <<>> /\ serving' = {}
      /\ sess' = [t \in TurnIds |-> ClosedSession] /\ native' = native
  BY DEF DaemonRestarts
<1>2. sess' \in [TurnIds -> Sessions]
  <2> HIDE DEF Sessions, ClosedSession
  <2> QED BY <1>1, ClosedIsSession
<1>3. \A o \in TurnIds : o > turn.latest => sess'[o] = ClosedSession
  <2> HIDE DEF ClosedSession
  <2> QED BY <1>1
<1>4. /\ Revised(rows, rows')
      /\ \A r \in rows' : Over(r) /\ (r.kind \in Kinds => r \in rows)
  BY <1>1, RecoveredAre
<1>5. RowsGood(rows, rows') BY <1>4, RevisedGood
<1>6. DOMAIN wire' = {} /\ wire' \in Seq(Events)
  <2> HIDE DEF Events
  <2> QED BY <1>1
<1>7. PipeFits(wire', turn.latest) BY <1>6 DEF PipeFits
<1>8. RequestsFit' BY <1>6 DEF RequestsFit, RequestFits
<1> HIDE DEF Sessions, ClosedSession, NoContext
<1> QED BY <1>1, <1>2, <1>3, <1>4, <1>5, <1>7, <1>8, IdleStep

-----------------------------------------------------------------------------
\* The next Turn begins: nothing of it is there yet.
LEMMA BeginTurnStep ==
  ASSUME TranscriptIInv, BeginTurn
  PROVE  TranscriptIInv'
<1> DEFINE t == turn.latest + 1
<1>1. /\ ~turn.working /\ t \in TurnIds
      /\ turn' = [latest |-> t, working |-> TRUE]
      /\ ctx' = [NoContext EXCEPT !.turn = t]
      /\ sess' = [sess EXCEPT ![t] = Fresh]
      /\ UNCHANGED <<rows, ready, wire, serving, native>>
  BY DEF BeginTurn
<1>2. /\ turn.latest \in Nat /\ PipeFits(wire, turn.latest) /\ wire \in Seq(Events)
      /\ sess \in [TurnIds -> Sessions] /\ serving \subseteq TurnIds \X Calls /\ rows \subseteq Rows
      /\ ready \in BOOLEAN /\ native \in Natives
  <2> HIDE DEF Sessions, Rows, Natives
  <2> QED BY DEF TranscriptIInv, TranscriptTyped, PipeFits
<1>3. ctx.turn = NoTurn BY <1>1 DEF TranscriptIInv, WorkIsLatest
<1>4. /\ turn'.latest = t /\ turn'.working = TRUE
      /\ turn' \in [latest : 0..MaxTurns, working : BOOLEAN]
      /\ t \in Nat /\ t # NoTurn
  BY <1>1, <1>2 DEF TurnIds, NoTurn
<1>5. /\ ctx'.turn = t /\ ctx'.started = {}
      /\ ctx' \in [turn : {NoTurn} \cup TurnIds, started : SUBSET Calls, dispatched : SUBSET Calls]
  BY <1>1 DEF NoContext
<1>6. Fresh \in Sessions /\ Fresh.phase = "running" /\ Fresh.closing = FALSE /\ Fresh.blocks = 0
      /\ \A k \in Kinds : Fresh.block[k] = NoTurn
  BY DEF Fresh, Sessions, NoTurn
<1>7. /\ sess' \in [TurnIds -> Sessions] /\ sess'[t] = Fresh
      /\ \A o \in TurnIds : o # t => sess'[o] = sess[o]
  <2> HIDE DEF Sessions, Fresh
  <2> QED BY <1>1, <1>2, <1>6
<1>8. /\ \A r \in rows : r.turn \in Nat /\ r.turn <= turn.latest
      /\ \A r \in serving : r[1] \in TurnIds /\ r[1] <= turn.latest /\ r[1] # t
      /\ \A i \in DOMAIN wire : wire[i] \in Events /\ wire[i].turn \in Nat /\ wire[i].turn <= turn.latest
      /\ \A o \in TurnIds : o > turn.latest => sess[o] = ClosedSession
  <2>1. \A r \in rows : r.turn \in Nat BY <1>2 DEF Rows, TurnIds
  <2>2. \A r \in rows : r.turn <= turn.latest BY DEF TranscriptIInv, NothingAhead
  <2>3. \A r \in serving : r[1] \in TurnIds /\ r[1] <= turn.latest BY <1>2
    DEF TranscriptIInv, NothingAhead
  <2>4. \A r \in serving : r[1] # t BY <1>2, <2>3 DEF TurnIds
  <2>5. \A i \in DOMAIN wire : wire[i] \in Events /\ wire[i].turn <= turn.latest
    BY <1>2 DEF PipeFits, EventFits
  <2>6. \A i \in DOMAIN wire : wire[i].turn \in Nat BY <2>5 DEF Events, TurnIds
  <2>7. \A o \in TurnIds : o > turn.latest => sess[o] = ClosedSession
    <3> HIDE DEF ClosedSession
    <3> QED BY DEF TranscriptIInv, NothingAhead
  <2> HIDE DEF ClosedSession, Events, t
  <2> QED BY <2>1, <2>2, <2>3, <2>4, <2>5, <2>6, <2>7
<1>9. /\ \A r \in rows : r.turn # t /\ r.turn <= t
      /\ \A r \in serving : r[1] <= t
      /\ \A i \in DOMAIN wire : wire[i].turn # t /\ wire[i].turn <= t
  <2>1. \A o \in Nat : o <= turn.latest => o # t /\ o <= t BY <1>2
  <2>2. \A r \in serving : r[1] \in Nat BY <1>8 DEF TurnIds
  <2> HIDE DEF ClosedSession, Events, t
  <2> QED BY <1>8, <2>1, <2>2
<1> HIDE DEF t
<1>10. TranscriptTyped'
  <2> HIDE DEF Rows, Sessions, Natives
  <2> QED BY <1>1, <1>2, <1>4, <1>5, <1>7 DEF TranscriptTyped
<1>11. PipeFits(wire', turn'.latest)
  <2>1. \A i \in DOMAIN wire : EventFits(wire[i], turn.latest) BY <1>2 DEF PipeFits
  <2>2. \A i \in DOMAIN wire : EventFits(wire[i], t)
    <3> HIDE DEF Events
    <3> QED BY <1>9, <2>1 DEF EventFits
  <2> QED BY <1>1, <1>2, <1>4, <2>2 DEF PipeFits
<1>12. WorkIsLatest' BY <1>4, <1>5, <1>6, <1>7 DEF WorkIsLatest
<1>13. NothingAhead'
  <2>1. \A o \in TurnIds : o > t => o > turn.latest /\ o # t BY <1>2 DEF t, TurnIds
  <2>2. \A o \in TurnIds : o > t => sess'[o] = ClosedSession
    <3> HIDE DEF ClosedSession, Sessions
    <3> QED BY <1>7, <1>8, <2>1
  <2> HIDE DEF ClosedSession
  <2> QED BY <1>1, <1>4, <1>9, <2>2 DEF NothingAhead
<1>14. RowsFit' BY <1>1 DEF TranscriptIInv, RowsFit, IsBlock
<1>15. OnlyWorkIsBusy' BY <1>1 DEF TranscriptIInv, OnlyWorkIsBusy, Streaming, Running
<1>16. StartedHaveRows' BY <1>5 DEF StartedHaveRows
<1>17. RequestsFit'
  <2> SUFFICES ASSUME NEW o \in TurnIds, NEW c \in Calls
               PROVE  RequestFits(o, c, wire, serving, t, sess'[o].tool[c])
    BY <1>1, <1>5 DEF RequestsFit
  <2>1. CASE o = t
    <3>1. \A i \in DOMAIN wire : ~Asks(wire[i], o, c) BY <1>9, <2>1 DEF Asks
    <3> QED BY <3>1 DEF RequestFits
  <2>2. CASE o # t
    <3>1. RequestFits(o, c, wire, serving, ctx.turn, sess[o].tool[c])
      BY DEF TranscriptIInv, RequestsFit
    <3>2. t # o /\ serving \subseteq serving BY <2>2
    <3> QED BY <3>1, <3>2, RequestIdle
  <2> QED BY <2>1, <2>2
<1>18. ServedFit'
  <2> SUFFICES ASSUME NEW r \in serving
               PROVE  /\ CallHasRow(r[1], r[2])'
                      /\ sess'[r[1]].tool[r[2]] = "asking" \/ Cancelled(r[1], r[2])'
                      /\ sess'[r[1]].closing \/ sess'[r[1]].phase = "closed"
    BY <1>1 DEF ServedFit
  <2>1. r[1] \in TurnIds /\ r[1] # t /\ r[1] # NoTurn BY <1>8 DEF TurnIds, NoTurn
  <2>2. sess'[r[1]] = sess[r[1]]
    <3> HIDE DEF Sessions
    <3> QED BY <1>7, <2>1
  <2>3. /\ CallHasRow(r[1], r[2])
        /\ sess[r[1]].tool[r[2]] = "asking" \/ Cancelled(r[1], r[2])
        /\ \/ ctx.turn = r[1] /\ r[2] \in ctx.dispatched
           \/ sess[r[1]].closing \/ sess[r[1]].phase = "closed"
    BY DEF TranscriptIInv, ServedFit
  <2>4. Cancelled(r[1], r[2]) => Cancelled(r[1], r[2])' BY <1>1 DEF Cancelled
  <2>5. CallHasRow(r[1], r[2])' BY <1>1, <2>3 DEF CallHasRow, IsToolCall
  <2> QED BY <1>3, <2>1, <2>2, <2>3, <2>4, <2>5
<1>19. StreamsFit'
  <2>1. CountFits(t, wire, rows, Fresh)
    BY <1>6, <1>9 DEF CountFits, NoTurn
  <2>2. 1..Fresh.blocks = {} BY <1>6
  <2>3. StreamFits(t, wire, rows, Fresh, native.texts)
    <3> HIDE DEF Fresh
    <3> QED BY <2>1, <2>2 DEF StreamFits
  <2> HIDE DEF Fresh
  <2> QED BY <1>1, <1>5, <1>7, <2>3 DEF StreamsFit
<1>20. TextsWhole' BY <1>1 DEF TranscriptIInv, TextsWhole
<1> QED BY <1>10, <1>11, <1>12, <1>13, <1>14, <1>15, <1>16, <1>17, <1>18, <1>19, <1>20
        DEF TranscriptIInv

\* The Agent becomes ready, or no longer is.
LEMMA ReadinessStep ==
  ASSUME TranscriptIInv, ReadinessChanges
  PROVE  TranscriptIInv'
<1>1. /\ ready' = ~ready
      /\ native' = [native EXCEPT !.lapses = IF ready THEN @ + 1 ELSE @]
      /\ UNCHANGED <<rows, turn, ctx, sess, wire, serving>>
  BY DEF ReadinessChanges
<1>2. native \in Natives /\ ready' \in BOOLEAN
  <2> HIDE DEF Natives, Sessions, Rows
  <2> QED BY <1>1 DEF TranscriptIInv, TranscriptTyped
<1>3. native' \in Natives /\ native'.texts = native.texts /\ native'.lossy = native.lossy
  BY <1>2, <1>1 DEF Natives
<1>4. TranscriptTyped'
  <2> HIDE DEF Natives, Sessions, Rows
  <2> QED BY <1>1, <1>2, <1>3 DEF TranscriptIInv, TranscriptTyped
<1>5. PipeFits(wire', turn'.latest) /\ WorkIsLatest' BY <1>1 DEF TranscriptIInv, WorkIsLatest
<1>6. NothingAhead'
  <2> HIDE DEF ClosedSession
  <2> QED BY <1>1 DEF TranscriptIInv, NothingAhead
<1>7. RowsFit' /\ OnlyWorkIsBusy'
  BY <1>1 DEF TranscriptIInv, RowsFit, IsBlock, OnlyWorkIsBusy, Streaming, Running
<1>8. StartedHaveRows' BY <1>1 DEF TranscriptIInv, StartedHaveRows, CallHasRow, IsToolCall
<1>9. RequestsFit' BY <1>1 DEF TranscriptIInv, RequestsFit
<1>10. ServedFit'
  BY <1>1 DEF TranscriptIInv, ServedFit, CallHasRow, IsToolCall, Cancelled
<1>11. StreamsFit' BY <1>1, <1>3 DEF TranscriptIInv, StreamsFit
<1>12. TextsWhole' BY <1>1, <1>3 DEF TranscriptIInv, TextsWhole
<1> QED BY <1>4, <1>5, <1>6, <1>7, <1>8, <1>9, <1>10, <1>11, <1>12 DEF TranscriptIInv

\* Nothing happens.
LEMMA TranscriptStutter ==
  ASSUME TranscriptIInv, UNCHANGED transcriptVars
  PROVE  TranscriptIInv'
<1>1. UNCHANGED <<rows, turn, ctx, ready, sess, wire, serving, native>> BY DEF transcriptVars
<1>2. TranscriptTyped'
  <2> HIDE DEF Natives, Sessions, Rows
  <2> QED BY <1>1 DEF TranscriptIInv, TranscriptTyped
<1>3. PipeFits(wire', turn'.latest) /\ WorkIsLatest' BY <1>1 DEF TranscriptIInv, WorkIsLatest
<1>4. NothingAhead'
  <2> HIDE DEF ClosedSession
  <2> QED BY <1>1 DEF TranscriptIInv, NothingAhead
<1>5. RowsFit' /\ OnlyWorkIsBusy'
  BY <1>1 DEF TranscriptIInv, RowsFit, IsBlock, OnlyWorkIsBusy, Streaming, Running
<1>6. StartedHaveRows' BY <1>1 DEF TranscriptIInv, StartedHaveRows, CallHasRow, IsToolCall
<1>7. RequestsFit' BY <1>1 DEF TranscriptIInv, RequestsFit
<1>8. ServedFit'
  BY <1>1 DEF TranscriptIInv, ServedFit, CallHasRow, IsToolCall, Cancelled
<1>9. StreamsFit' BY <1>1 DEF TranscriptIInv, StreamsFit
<1>10. TextsWhole' BY <1>1 DEF TranscriptIInv, TextsWhole
<1> QED BY <1>2, <1>3, <1>4, <1>5, <1>6, <1>7, <1>8, <1>9, <1>10 DEF TranscriptIInv

-----------------------------------------------------------------------------
\* But for the states of calls the sessions are as before.
SessionsStay ==
  /\ sess' \in [TurnIds -> Sessions]
  /\ \A o \in TurnIds : /\ sess'[o].phase = sess[o].phase /\ sess'[o].closing = sess[o].closing
                        /\ sess'[o].block = sess[o].block /\ sess'[o].text = sess[o].text
                        /\ sess'[o].blocks = sess[o].blocks
  /\ \A o \in TurnIds : o > turn.latest => sess'[o] = ClosedSession

\* No session changes.
LEMMA SessionsSame ==
  ASSUME TranscriptIInv, UNCHANGED sess
  PROVE  SessionsStay
<1>1. sess \in [TurnIds -> Sessions]
  <2> HIDE DEF Sessions, Rows, Natives
  <2> QED BY DEF TranscriptIInv, TranscriptTyped
<1>2. \A o \in TurnIds : o > turn.latest => sess[o] = ClosedSession
  <2> HIDE DEF ClosedSession
  <2> QED BY DEF TranscriptIInv, NothingAhead
<1> HIDE DEF Sessions, ClosedSession
<1> QED BY <1>1, <1>2 DEF SessionsStay

\* The answer of a call reaches it, or it no longer waits for it.
LEMMA AnsweredIs ==
  ASSUME TranscriptIInv, NEW t \in TurnIds, NEW c \in Calls, CallAnswered(t, c)
  PROVE  /\ SessionsStay
         /\ \A o \in TurnIds : \A d \in Calls :
              \/ sess'[o].tool[d] = sess[o].tool[d]
              \/ o = t /\ d = c /\ sess[t].tool[c] = "asking" /\ ~Cancelled(t, c)
<1> DEFINE st == IF sess[t].tool[c] = "asking" /\ ~Cancelled(t, c) THEN "answered"
                    ELSE sess[t].tool[c]
           z == [sess[t] EXCEPT !.tool[c] = st]
<1>1. sess \in [TurnIds -> Sessions] /\ sess[t] \in Sessions
  <2> HIDE DEF Sessions, Rows, Natives
  <2> QED BY DEF TranscriptIInv, TranscriptTyped
<1>2. sess[t].tool \in [Calls -> {"none", "running", "asking", "answered"}] BY <1>1 DEF Sessions
<1>3. st \in {"none", "running", "asking", "answered"} BY <1>2
<1>4. sess' = [sess EXCEPT ![t] = z] BY DEF CallAnswered
<1>5. st = sess[t].tool[c] => z = sess[t] BY <1>1, <1>2 DEF Sessions
<1>6. st = sess[t].tool[c] \/ (sess[t].tool[c] = "asking" /\ ~Cancelled(t, c)) OBVIOUS
<1> HIDE DEF st
<1>7. /\ z \in Sessions /\ z.phase = sess[t].phase /\ z.closing = sess[t].closing
      /\ z.block = sess[t].block /\ z.text = sess[t].text /\ z.blocks = sess[t].blocks
      /\ \A d \in Calls : z.tool[d] = sess[t].tool[d] \/ d = c
  BY <1>1, <1>2, <1>3 DEF Sessions
<1> HIDE DEF z
<1>8. /\ sess' \in [TurnIds -> Sessions] /\ sess'[t] = z
      /\ \A o \in TurnIds : o # t => sess'[o] = sess[o]
  <2> HIDE DEF Sessions
  <2> QED BY <1>1, <1>4, <1>7
<1>9. \A o \in TurnIds : /\ sess'[o].phase = sess[o].phase /\ sess'[o].closing = sess[o].closing
                         /\ sess'[o].block = sess[o].block /\ sess'[o].text = sess[o].text
                         /\ sess'[o].blocks = sess[o].blocks
  <2> HIDE DEF Sessions
  <2> QED BY <1>7, <1>8
<1>10. ASSUME NEW o \in TurnIds, o > turn.latest PROVE sess'[o] = ClosedSession
  <2>1. sess[o] = ClosedSession
    <3> HIDE DEF ClosedSession
    <3> QED BY <1>10 DEF TranscriptIInv, NothingAhead
  <2>2. ClosedSession.tool[c] # "asking" BY DEF ClosedSession, Fresh
  <2> HIDE DEF ClosedSession, Sessions
  <2> QED BY <1>5, <1>6, <1>8, <2>1, <2>2
<1>11. ASSUME NEW o \in TurnIds, NEW d \in Calls
       PROVE  \/ sess'[o].tool[d] = sess[o].tool[d]
              \/ o = t /\ d = c /\ sess[t].tool[c] = "asking" /\ ~Cancelled(t, c)
  <2> HIDE DEF Sessions
  <2>1. CASE o # t BY <2>1, <1>8
  <2>2. CASE o = t /\ d # c BY <2>2, <1>7, <1>8
  <2>3. CASE o = t /\ d = c BY <2>3, <1>5, <1>6, <1>8
  <2> QED BY <2>1, <2>2, <2>3
<1>12. SessionsStay
  <2> HIDE DEF Sessions, ClosedSession
  <2> QED BY <1>8, <1>9, <1>10 DEF SessionsStay
<1> QED BY <1>11, <1>12

\* A step of the daemon that is about calls: which it serves, and which it answers.
LEMMA CallStep ==
  ASSUME TranscriptIInv, UNCHANGED <<rows, turn, ready, native>>,
         ctx' \in [turn : {NoTurn} \cup TurnIds, started : SUBSET Calls, dispatched : SUBSET Calls],
         ctx'.turn = ctx.turn, ctx'.started = ctx.started,
         PipeFits(wire', turn.latest), SessionsStay, serving' \subseteq TurnIds \X Calls,
         \A r \in serving' : r[1] <= turn.latest,
         RequestsFit', ServedFit',
         ctx.turn # NoTurn /\ ctx.turn \notin native.lossy =>
           StreamFits(ctx.turn, wire', rows, sess[ctx.turn], native.texts)
  PROVE  TranscriptIInv'
<1>1. /\ sess' \in [TurnIds -> Sessions] /\ sess \in [TurnIds -> Sessions]
      /\ \A o \in TurnIds : o > turn.latest => sess'[o] = ClosedSession
  <2> HIDE DEF Sessions, ClosedSession, Rows, Natives
  <2> QED BY DEF SessionsStay, TranscriptIInv, TranscriptTyped
<1>2. TranscriptTyped'
  <2> HIDE DEF Sessions, Rows, Natives
  <2> QED BY <1>1 DEF TranscriptIInv, TranscriptTyped
<1>3. PipeFits(wire', turn'.latest) OBVIOUS
<1>4. WorkIsLatest'
  <2>1. ctx.turn # NoTurn => /\ ctx.turn \in TurnIds /\ sess'[ctx.turn].phase = sess[ctx.turn].phase
                             /\ sess'[ctx.turn].closing = sess[ctx.turn].closing
    BY DEF TranscriptIInv, TranscriptTyped, SessionsStay
  <2> HIDE DEF Sessions
  <2> QED BY <2>1 DEF TranscriptIInv, WorkIsLatest
<1>5. NothingAhead'
  <2> HIDE DEF ClosedSession
  <2> QED BY <1>1 DEF TranscriptIInv, NothingAhead
<1>6. RowsFit' /\ OnlyWorkIsBusy'
  BY DEF TranscriptIInv, RowsFit, IsBlock, OnlyWorkIsBusy, Streaming, Running
<1>7. StartedHaveRows' BY DEF TranscriptIInv, StartedHaveRows, CallHasRow, IsToolCall
<1>8. StreamsFit'
  <2> SUFFICES ASSUME ctx.turn # NoTurn, ctx.turn \notin native.lossy
               PROVE  StreamFits(ctx.turn, wire', rows, sess'[ctx.turn], native.texts)
    BY DEF StreamsFit
  <2> DEFINE t == ctx.turn
             s == sess[t]
             z == sess'[t]
  <2>1. t \in TurnIds BY DEF TranscriptIInv, TranscriptTyped
  <2>2. s \in Sessions /\ z \in Sessions
    <3> HIDE DEF Sessions
    <3> QED BY <1>1, <2>1
  <2>3. /\ z.blocks = s.blocks
        /\ \A k \in Kinds : z.block[k] # NoTurn => z.block[k] = s.block[k] /\ z.text[k] = s.text[k]
    BY <2>1 DEF SessionsStay
  <2>4. StreamFits(t, wire', rows, s, native.texts) OBVIOUS
  <2> HIDE DEF t, s, z
  <2>5. StreamFits(t, wire', rows, z, native.texts) BY ONLY <2>2, <2>3, <2>4, StreamSession
  <2> QED BY <2>5 DEF t, z
<1>9. TextsWhole' BY DEF TranscriptIInv, TextsWhole
<1> QED BY <1>2, <1>3, <1>4, <1>5, <1>6, <1>7, <1>8, <1>9 DEF TranscriptIInv

\* What is read that is no event of a block leaves the blocks of the Turn at work as they are.
LEMMA StreamsPass ==
  ASSUME TranscriptIInv, NEW m, Taken(wire, wire', m), m.type \notin BlockEvents,
         ctx.turn # NoTurn, ctx.turn \notin native.lossy
  PROVE  StreamFits(ctx.turn, wire', rows, sess[ctx.turn], native.texts)
<1>1. /\ wire \in Seq(Events) /\ rows \subseteq Rows /\ sess[ctx.turn] \in Sessions
  <2> HIDE DEF Sessions, Rows, Natives, Events
  <2> QED BY DEF TranscriptIInv, TranscriptTyped, PipeFits
<1>2. StreamFits(ctx.turn, wire, rows, sess[ctx.turn], native.texts)
  BY DEF TranscriptIInv, StreamsFit
<1>3. ~OfTurn(m, ctx.turn) BY DEF OfTurn
<1> QED BY <1>1, <1>2, <1>3, StreamLess

\* What holds of the daemon when a request or a cancel is read.
LEMMA CallFacts ==
  ASSUME TranscriptIInv, NEW m, Taken(wire, wire', m), m.type \in {"request", "cancel"}
  PROVE  /\ wire \in Seq(Events) /\ PipeFits(wire', turn.latest)
         /\ m.turn \in TurnIds /\ m.key \in Calls /\ m.turn <= turn.latest /\ m.type \notin BlockEvents
         /\ serving \subseteq TurnIds \X Calls /\ \A r \in serving : r[1] <= turn.latest
         /\ ctx \in [turn : {NoTurn} \cup TurnIds, started : SUBSET Calls, dispatched : SUBSET Calls]
<1>1. PipeFits(wire, turn.latest) BY DEF TranscriptIInv
<1>2. wire \in Seq(Events) /\ PipeFits(wire', turn.latest) /\ EventFits(m, turn.latest)
  BY <1>1, PipeLess
<1>3. m.type \in ToolEvents /\ m.type \notin BlockEvents BY DEF ToolEvents, BlockEvents, Kinds
<1>4. m.turn \in TurnIds /\ m.key \in Calls /\ m.turn <= turn.latest
  BY <1>2, <1>3 DEF EventFits, Events
<1>5. /\ serving \subseteq TurnIds \X Calls
      /\ ctx \in [turn : {NoTurn} \cup TurnIds, started : SUBSET Calls, dispatched : SUBSET Calls]
  BY DEF TranscriptIInv, TranscriptTyped
<1>6. \A r \in serving : r[1] <= turn.latest BY DEF TranscriptIInv, NothingAhead
<1> HIDE DEF Events
<1> QED BY <1>2, <1>3, <1>4, <1>5, <1>6

-----------------------------------------------------------------------------
\* A request is read and served.
LEMMA RequestServed ==
  ASSUME TranscriptIInv, NEW m, Taken(wire, wire', m), m.type = "request", MayServe(m),
         ctx' = [ctx EXCEPT !.dispatched = @ \cup {m.key}],
         serving' = serving \cup {<<m.turn, m.key>>}, UNCHANGED <<sess, rows, turn, ready, native>>
  PROVE  TranscriptIInv'
<1> DEFINE t == m.turn
           c == m.key
<1>1. /\ wire \in Seq(Events) /\ PipeFits(wire', turn.latest)
      /\ t \in TurnIds /\ c \in Calls /\ t <= turn.latest /\ m.type \notin BlockEvents
      /\ serving \subseteq TurnIds \X Calls /\ \A r \in serving : r[1] <= turn.latest
      /\ ctx \in [turn : {NoTurn} \cup TurnIds, started : SUBSET Calls, dispatched : SUBSET Calls]
  BY CallFacts
<1>2. /\ ctx.turn = t /\ c \in ctx.started BY DEF MayServe
<1>3. Asks(m, t, c) /\ \A o, d : ~Drops(m, o, d) BY DEF Asks, Drops, Event
<1>4. /\ ctx' \in [turn : {NoTurn} \cup TurnIds, started : SUBSET Calls, dispatched : SUBSET Calls]
      /\ ctx'.turn = ctx.turn /\ ctx'.started = ctx.started
      /\ ctx'.dispatched = ctx.dispatched \cup {c}
  BY <1>1
<1>5. /\ serving' \subseteq TurnIds \X Calls /\ \A r \in serving' : r[1] <= turn.latest
  BY <1>1
<1>6. \A o \in TurnIds : \A d \in Calls : RequestFits(o, d, wire, serving, ctx.turn, sess[o].tool[d])
  BY DEF TranscriptIInv, RequestsFit
<1>7. /\ RequestFits(t, c, wire', serving', ctx.turn, sess[t].tool[c])
      /\ sess[t].tool[c] = "asking" \/ \E j \in DOMAIN wire' : Drops(wire'[j], t, c)
  <2>1. RequestFits(t, c, wire, serving, ctx.turn, sess[t].tool[c]) BY <1>1, <1>6
  <2>2. Taken(wire, wire', m) /\ wire \in Seq(Events) /\ Asks(m, t, c) BY <1>1, <1>3
  <2>3. WorksOn(ctx.turn, t) BY <1>2 DEF WorksOn
  <2> HIDE DEF Events, t, c
  <2>4. /\ RequestFits(t, c, wire', serving', ctx.turn, sess[t].tool[c])
        /\ Expected(t, c, wire', sess[t].tool[c])
    BY ONLY <2>1, <2>2, <2>3, RequestRead
  <2> QED BY <2>4 DEF Expected
<1>8. RequestsFit'
  <2> SUFFICES ASSUME NEW o \in TurnIds, NEW d \in Calls
               PROVE  RequestFits(o, d, wire', serving', ctx.turn, sess[o].tool[d])
    BY <1>4 DEF RequestsFit
  <2>1. CASE o = t /\ d = c BY <2>1, <1>7
  <2>2. CASE ~(o = t /\ d = c)
    <3>1. ServedLess(serving, serving', m, o, d) BY <2>2, <1>3 DEF ServedLess
    <3>2. RequestFits(o, d, wire, serving, ctx.turn, sess[o].tool[d]) BY <1>6
    <3>3. Taken(wire, wire', m) /\ wire \in Seq(Events) BY <1>1
    <3> HIDE DEF Events
    <3> QED BY ONLY <3>1, <3>2, <3>3, RequestLess
  <2> QED BY <2>1, <2>2
<1>9. ServedFit'
  <2> SUFFICES ASSUME NEW r \in serving'
               PROVE  /\ CallHasRow(r[1], r[2])'
                      /\ sess'[r[1]].tool[r[2]] = "asking" \/ Cancelled(r[1], r[2])'
                      /\ \/ ctx'.turn = r[1] /\ r[2] \in ctx'.dispatched
                         \/ sess[r[1]].closing \/ sess[r[1]].phase = "closed"
    BY DEF ServedFit
  <2>1. \A o, d : CallHasRow(o, d) => CallHasRow(o, d)' BY DEF CallHasRow, IsToolCall
  <2>2. CASE r \in serving
    <3>1. ~Drops(m, r[1], r[2]) BY <1>3
    <3>2. /\ CallHasRow(r[1], r[2])'
          /\ sess'[r[1]].tool[r[2]] = "asking" \/ Cancelled(r[1], r[2])'
      BY <2>1, <2>2, <3>1, ServedStay
    <3>3. \/ ctx.turn = r[1] /\ r[2] \in ctx.dispatched
          \/ sess[r[1]].closing \/ sess[r[1]].phase = "closed"
      BY <2>2 DEF TranscriptIInv, ServedFit
    <3> QED BY <1>4, <3>2, <3>3
  <2>3. CASE r = <<t, c>>
    <3>1. r[1] = t /\ r[2] = c BY <2>3
    <3>2. CallHasRow(t, c) BY <1>2 DEF TranscriptIInv, StartedHaveRows
    <3>3. CallHasRow(t, c)' BY <2>1, <3>2
    <3>4. sess'[t].tool[c] = "asking" \/ Cancelled(t, c)' BY <1>7 DEF Cancelled, Drops
    <3> HIDE DEF t, c
    <3> QED BY <1>2, <1>4, <3>1, <3>3, <3>4
  <2> QED BY <2>2, <2>3
<1>10. SessionsStay BY SessionsSame
<1>11. ctx.turn # NoTurn /\ ctx.turn \notin native.lossy =>
         StreamFits(ctx.turn, wire', rows, sess[ctx.turn], native.texts)
  BY <1>1, StreamsPass
<1> QED BY <1>1, <1>4, <1>5, <1>8, <1>9, <1>10, <1>11, CallStep

\* A request is read that is not served: it is answered with an error.
LEMMA RequestRefused ==
  ASSUME TranscriptIInv, NEW m, Taken(wire, wire', m), m.type = "request",
         CallAnswered(m.turn, m.key), UNCHANGED <<ctx, serving, rows, turn, ready, native>>
  PROVE  TranscriptIInv'
<1> DEFINE t == m.turn
           c == m.key
<1>1. /\ wire \in Seq(Events) /\ PipeFits(wire', turn.latest)
      /\ t \in TurnIds /\ c \in Calls /\ m.type \notin BlockEvents
      /\ serving \subseteq TurnIds \X Calls /\ \A r \in serving : r[1] <= turn.latest
      /\ ctx \in [turn : {NoTurn} \cup TurnIds, started : SUBSET Calls, dispatched : SUBSET Calls]
  BY CallFacts
<1>2. Asks(m, t, c) /\ \A o, d : ~Drops(m, o, d) BY DEF Asks, Drops, Event
<1>3. /\ SessionsStay
      /\ \A o \in TurnIds : \A d \in Calls :
           \/ sess'[o].tool[d] = sess[o].tool[d]
           \/ o = t /\ d = c /\ sess[t].tool[c] = "asking" /\ ~Cancelled(t, c)
  BY <1>1, AnsweredIs
<1>4. \A o \in TurnIds : \A d \in Calls : RequestFits(o, d, wire, serving, ctx.turn, sess[o].tool[d])
  BY DEF TranscriptIInv, RequestsFit
<1>5. \A o, d : (Cancelled(o, d)' <=> Cancelled(o, d)) BY <1>1, <1>2, CancelLess
<1>6. \A o \in TurnIds : \A d \in Calls :
        RequestFits(o, d, wire', serving, ctx.turn, sess[o].tool[d])
  <2> SUFFICES ASSUME NEW o \in TurnIds, NEW d \in Calls
               PROVE  RequestFits(o, d, wire', serving, ctx.turn, sess[o].tool[d])
    OBVIOUS
  <2>1. ServedLess(serving, serving, m, o, d) BY <1>2 DEF ServedLess
  <2>2. RequestFits(o, d, wire, serving, ctx.turn, sess[o].tool[d]) BY <1>4
  <2>3. Taken(wire, wire', m) /\ wire \in Seq(Events) BY <1>1
  <2> HIDE DEF Events
  <2> QED BY ONLY <2>1, <2>2, <2>3, RequestLess
<1>7. RequestsFit'
  <2> SUFFICES ASSUME NEW o \in TurnIds, NEW d \in Calls
               PROVE  RequestFits(o, d, wire', serving, ctx.turn, sess'[o].tool[d])
    BY DEF RequestsFit
  <2>1. RequestFits(o, d, wire', serving, ctx.turn, sess[o].tool[d]) BY <1>6
  <2>2. CASE sess'[o].tool[d] = sess[o].tool[d] BY <2>1, <2>2
  <2>3. CASE ctx.turn # o BY <2>1, <2>3, RequestState
  <2>4. CASE o = t /\ d = c /\ ~Cancelled(t, c) /\ ctx.turn = t
    <3>1. RequestFits(t, c, wire, serving, ctx.turn, sess[t].tool[c]) BY <1>1, <1>4
    <3>2. \A i \in DOMAIN wire' : Asks(wire'[i], t, c) => \E j \in DOMAIN wire' : Drops(wire'[j], t, c)
      <4>1. Taken(wire, wire', m) /\ wire \in Seq(Events) /\ Asks(m, t, c) BY <1>1, <1>2
      <4>2. WorksOn(ctx.turn, t) BY <2>4 DEF WorksOn
      <4> HIDE DEF Events, t, c
      <4>3. /\ RequestFits(t, c, wire', serving, ctx.turn, sess[t].tool[c])
            /\ Expected(t, c, wire', sess[t].tool[c])
        BY ONLY <3>1, <4>1, <4>2, RequestRead
      <4> QED BY <4>3 DEF Expected
    <3>3. \A j \in DOMAIN wire' : ~Drops(wire'[j], t, c) BY <1>5, <2>4 DEF Cancelled, Drops
    <3>4. \A i \in DOMAIN wire' : ~Asks(wire'[i], o, d) BY <2>4, <3>2, <3>3
    <3> QED BY <2>1, <3>4, RequestState
  <2> QED BY <1>3, <2>2, <2>3, <2>4
<1>8. <<t, c>> \notin serving
  <2>1. RequestFits(t, c, wire, serving, ctx.turn, sess[t].tool[c]) BY <1>1, <1>4
  <2>2. Taken(wire, wire', m) /\ wire \in Seq(Events) /\ Asks(m, t, c) BY <1>1, <1>2
  <2> HIDE DEF Events, t, c
  <2> QED BY ONLY <2>1, <2>2, RequestUnserved
<1>9. ServedFit'
  <2> SUFFICES ASSUME NEW r \in serving
               PROVE  /\ CallHasRow(r[1], r[2])'
                      /\ sess'[r[1]].tool[r[2]] = "asking" \/ Cancelled(r[1], r[2])'
                      /\ \/ ctx.turn = r[1] /\ r[2] \in ctx.dispatched
                         \/ sess'[r[1]].closing \/ sess'[r[1]].phase = "closed"
    BY DEF ServedFit
  <2>1. /\ CallHasRow(r[1], r[2])
        /\ sess[r[1]].tool[r[2]] = "asking" \/ Cancelled(r[1], r[2])
        /\ \/ ctx.turn = r[1] /\ r[2] \in ctx.dispatched
           \/ sess[r[1]].closing \/ sess[r[1]].phase = "closed"
    BY DEF TranscriptIInv, ServedFit
  <2>2. r[1] \in TurnIds /\ r[2] \in Calls /\ r = <<r[1], r[2]>> BY <1>1
  <2>3. ~(r[1] = t /\ r[2] = c) BY <1>8, <2>2
  <2>4. sess'[r[1]].tool[r[2]] = sess[r[1]].tool[r[2]] BY <1>3, <2>2, <2>3
  <2>5. sess'[r[1]].phase = sess[r[1]].phase /\ sess'[r[1]].closing = sess[r[1]].closing
    BY <1>3, <2>2 DEF SessionsStay
  <2>6. CallHasRow(r[1], r[2])' BY <2>1 DEF CallHasRow, IsToolCall
  <2> HIDE DEF t, c
  <2> QED BY <1>5, <2>1, <2>4, <2>5, <2>6
<1>10. ctx.turn # NoTurn /\ ctx.turn \notin native.lossy =>
         StreamFits(ctx.turn, wire', rows, sess[ctx.turn], native.texts)
  BY <1>1, StreamsPass
<1> QED BY <1>1, <1>3, <1>7, <1>9, <1>10, CallStep

\* A cancel is read: the call is no longer served.
LEMMA CancelRead ==
  ASSUME TranscriptIInv, NEW m, Taken(wire, wire', m), m.type = "cancel",
         \A o, d : Drops(m, o, d) => o = m.turn /\ d = m.key,
         serving' = serving \ {<<m.turn, m.key>>}, UNCHANGED <<ctx, sess, rows, turn, ready, native>>
  PROVE  TranscriptIInv'
<1>1. /\ wire \in Seq(Events) /\ PipeFits(wire', turn.latest) /\ m.type \notin BlockEvents
      /\ serving \subseteq TurnIds \X Calls /\ \A r \in serving : r[1] <= turn.latest
      /\ ctx \in [turn : {NoTurn} \cup TurnIds, started : SUBSET Calls, dispatched : SUBSET Calls]
  BY CallFacts
<1>2. serving' \subseteq TurnIds \X Calls /\ \A r \in serving' : r[1] <= turn.latest BY <1>1
<1>3. RequestsFit'
  <2> SUFFICES ASSUME NEW o \in TurnIds, NEW d \in Calls
               PROVE  RequestFits(o, d, wire', serving', ctx.turn, sess[o].tool[d])
    BY DEF RequestsFit
  <2>1. ServedLess(serving, serving', m, o, d) BY DEF ServedLess
  <2>2. RequestFits(o, d, wire, serving, ctx.turn, sess[o].tool[d])
    BY DEF TranscriptIInv, RequestsFit
  <2>3. Taken(wire, wire', m) /\ wire \in Seq(Events) BY <1>1
  <2> HIDE DEF Events
  <2> QED BY ONLY <2>1, <2>2, <2>3, RequestLess
<1>4. ServedFit'
  <2> SUFFICES ASSUME NEW r \in serving'
               PROVE  /\ CallHasRow(r[1], r[2])'
                      /\ sess'[r[1]].tool[r[2]] = "asking" \/ Cancelled(r[1], r[2])'
                      /\ \/ ctx.turn = r[1] /\ r[2] \in ctx.dispatched
                         \/ sess[r[1]].closing \/ sess[r[1]].phase = "closed"
    BY DEF ServedFit
  <2>1. r \in serving /\ r # <<m.turn, m.key>> /\ r = <<r[1], r[2]>> BY <1>1
  <2>2. ~Drops(m, r[1], r[2]) BY <2>1
  <2>3. \A o, d : CallHasRow(o, d) => CallHasRow(o, d)' BY DEF CallHasRow, IsToolCall
  <2>4. /\ CallHasRow(r[1], r[2])'
        /\ sess'[r[1]].tool[r[2]] = "asking" \/ Cancelled(r[1], r[2])'
    BY <2>1, <2>2, <2>3, ServedStay
  <2>5. \/ ctx.turn = r[1] /\ r[2] \in ctx.dispatched
        \/ sess[r[1]].closing \/ sess[r[1]].phase = "closed"
    BY <2>1 DEF TranscriptIInv, ServedFit
  <2> QED BY <2>4, <2>5
<1>5. SessionsStay BY SessionsSame
<1>6. ctx.turn # NoTurn /\ ctx.turn \notin native.lossy =>
        StreamFits(ctx.turn, wire', rows, sess[ctx.turn], native.texts)
  BY <1>1, StreamsPass
<1> QED BY <1>1, <1>2, <1>3, <1>4, <1>5, <1>6, CallStep

\* A request that was served is answered.
LEMMA ServedStep ==
  ASSUME TranscriptIInv, NEW r \in serving, Served(r)
  PROVE  TranscriptIInv'
<1> DEFINE t == r[1]
           c == r[2]
<1>1. /\ serving' = serving \ {r} /\ CallAnswered(t, c)
      /\ UNCHANGED <<rows, turn, ctx, ready, wire, native>>
  BY DEF Served
<1>2. /\ PipeFits(wire, turn.latest)
      /\ serving \subseteq TurnIds \X Calls /\ \A q \in serving : q[1] <= turn.latest
      /\ ctx \in [turn : {NoTurn} \cup TurnIds, started : SUBSET Calls, dispatched : SUBSET Calls]
  BY DEF TranscriptIInv, TranscriptTyped, NothingAhead
<1>3. t \in TurnIds /\ c \in Calls /\ r = <<t, c>> BY <1>2
<1>4. /\ SessionsStay
      /\ \A o \in TurnIds : \A d \in Calls :
           \/ sess'[o].tool[d] = sess[o].tool[d]
           \/ o = t /\ d = c /\ sess[t].tool[c] = "asking" /\ ~Cancelled(t, c)
  <2> HIDE DEF t, c
  <2> QED BY <1>1, <1>3, AnsweredIs
<1> HIDE DEF t, c
<1>5. PipeFits(wire', turn.latest) BY <1>1, <1>2
<1>6. serving' \subseteq TurnIds \X Calls /\ \A q \in serving' : q[1] <= turn.latest
  BY <1>1, <1>2
<1>7. RequestsFit'
  <2> SUFFICES ASSUME NEW o \in TurnIds, NEW d \in Calls
               PROVE  RequestFits(o, d, wire, serving', ctx.turn, sess'[o].tool[d])
    BY <1>1 DEF RequestsFit
  <2>1. RequestFits(o, d, wire, serving, ctx.turn, sess[o].tool[d])
    BY DEF TranscriptIInv, RequestsFit
  <2>2. RequestFits(o, d, wire, serving', ctx.turn, sess[o].tool[d])
    BY <1>1, <2>1 DEF RequestFits
  <2>3. CASE sess'[o].tool[d] = sess[o].tool[d] BY <2>2, <2>3
  <2>4. CASE o = t /\ d = c /\ ~Cancelled(t, c)
    <3>1. <<o, d>> \in serving BY <1>3, <2>4
    <3>2. \A j \in DOMAIN wire : ~Drops(wire[j], o, d) BY <2>4 DEF Cancelled, Drops
    <3>3. \A i \in DOMAIN wire : ~Asks(wire[i], o, d) BY <2>1, <3>1, <3>2 DEF RequestFits
    <3> QED BY <2>2, <3>3, RequestState
  <2> QED BY <1>4, <2>3, <2>4
<1>8. ServedFit'
  <2> SUFFICES ASSUME NEW q \in serving'
               PROVE  /\ CallHasRow(q[1], q[2])'
                      /\ sess'[q[1]].tool[q[2]] = "asking" \/ Cancelled(q[1], q[2])'
                      /\ \/ ctx.turn = q[1] /\ q[2] \in ctx.dispatched
                         \/ sess'[q[1]].closing \/ sess'[q[1]].phase = "closed"
    BY <1>1 DEF ServedFit
  <2>1. q \in serving /\ q # r BY <1>1
  <2>2. /\ CallHasRow(q[1], q[2])
        /\ sess[q[1]].tool[q[2]] = "asking" \/ Cancelled(q[1], q[2])
        /\ \/ ctx.turn = q[1] /\ q[2] \in ctx.dispatched
           \/ sess[q[1]].closing \/ sess[q[1]].phase = "closed"
    BY <2>1 DEF TranscriptIInv, ServedFit
  <2>3. q[1] \in TurnIds /\ q[2] \in Calls /\ q = <<q[1], q[2]>> BY <1>2, <2>1
  <2>4. ~(q[1] = t /\ q[2] = c) BY <1>3, <2>1, <2>3
  <2>5. sess'[q[1]].tool[q[2]] = sess[q[1]].tool[q[2]] BY <1>4, <2>3, <2>4
  <2>6. sess'[q[1]].phase = sess[q[1]].phase /\ sess'[q[1]].closing = sess[q[1]].closing
    BY <1>4, <2>3 DEF SessionsStay
  <2>7. CallHasRow(q[1], q[2])' BY <1>1, <2>2 DEF CallHasRow, IsToolCall
  <2>8. Cancelled(q[1], q[2]) => Cancelled(q[1], q[2])' BY <1>1 DEF Cancelled
  <2> QED BY <2>2, <2>5, <2>6, <2>7, <2>8
<1>9. ctx.turn # NoTurn /\ ctx.turn \notin native.lossy =>
        StreamFits(ctx.turn, wire', rows, sess[ctx.turn], native.texts)
  BY <1>1 DEF TranscriptIInv, StreamsFit
<1> QED BY <1>1, <1>2, <1>4, <1>5, <1>6, <1>7, <1>8, <1>9, CallStep

-----------------------------------------------------------------------------
\* When no row changes, all that is settled stays.
LEMMA FinalSame ==
  ASSUME UNCHANGED rows
  PROVE  Final(rows, rows')
BY DEF Final

\* An event of the Turn at work is routed.
LEMMA RouteStep ==
  ASSUME TranscriptIInv, NEW m, Taken(wire, wire', m), ctx.turn = m.turn, Route(m),
         UNCHANGED <<serving, ready, native>>
  PROVE  TranscriptIInv' /\ Final(rows, rows')
<1>1. CASE /\ m.type \in Kinds
           /\ rows' = IF HasBlock(m.turn, m.key) THEN rows
                      ELSE rows \cup {Row(m.turn, m.type, m.key, "streaming")}
           /\ UNCHANGED <<turn, ctx, sess>>
  BY <1>1, ShowStep
<1>2. CASE /\ m.type = "delta"
           /\ rows' = UpdateBlock(m.turn, m.key, m.n, "streaming")
           /\ UNCHANGED <<turn, ctx, sess>>
  <2>1. m.n \in Nat BY ReadFacts DEF Events
  <2> QED BY <1>2, <2>1, UpdateStep
<1>3. CASE /\ m.type = "end"
           /\ rows' = UpdateBlock(m.turn, m.key, 0, "completed")
           /\ UNCHANGED <<turn, ctx, sess>>
  BY <1>3, UpdateStep
<1>4. CASE /\ m.type = "tool.started"
           /\ IF HasToolCall(m.key) THEN UNCHANGED <<rows, ctx>>
              ELSE /\ rows' = rows \cup {Row(m.turn, "tool", m.key, "running")}
                   /\ ctx' = [ctx EXCEPT !.started = @ \cup {m.key}]
           /\ UNCHANGED <<turn, sess>>
  BY <1>4, ToolStartedStep
<1>5. CASE /\ m.type = "tool.updated"
           /\ rows' = UpdateToolCall(m.key, "running")
           /\ UNCHANGED <<turn, ctx, sess>>
  BY <1>5, ToolReportStep
<1>6. CASE /\ m.type \in {"tool.completed", "tool.failed"}
           /\ rows' = UpdateToolCall(m.key, IF m.type = "tool.completed" THEN "completed" ELSE "failed")
           /\ ctx' = [ctx EXCEPT !.started = @ \ {m.key}]
           /\ UNCHANGED <<turn, sess>>
  <2> DEFINE st == IF m.type = "tool.completed" THEN "completed" ELSE "failed"
  <2>1. st \in {"running", "completed", "failed"} OBVIOUS
  <2>2. rows' = UpdateToolCall(m.key, st) BY <1>6
  <2> HIDE DEF st
  <2> QED BY <1>6, <2>1, <2>2, ToolReportStep
<1>7. CASE Terminal(m) /\ FinishTurn(m.turn)
  <2>1. IsEvent(m) BY <1>7 DEF Terminal, IsEvent
  <2>2. m.turn # NoTurn BY ReadFacts
  <2> QED BY <1>7, <2>1, <2>2, FinishStep
<1> QED BY <1>1, <1>2, <1>3, <1>4, <1>5, <1>6, <1>7 DEF Route

\* What the worker wrote is read.
LEMMA ReceiveStep ==
  ASSUME TranscriptIInv, Receive
  PROVE  TranscriptIInv' /\ Final(rows, rows')
<1> DEFINE e == Head(wire)
<1>1. /\ wire # <<>> /\ wire' = Tail(wire) /\ UNCHANGED ready
      /\ OnRequest(e) \/ OnCancel(e) \/ OnReport(e)
      /\ native' = IF ~ready /\ IsEvent(e) THEN [native EXCEPT !.lossy = @ \cup {e.turn}] ELSE native
  BY DEF Receive
<1>2. PICK m : m = e OBVIOUS
<1>3. Taken(wire, wire', m) BY <1>1, <1>2 DEF Taken
<1>4. /\ OnRequest(m) \/ OnCancel(m) \/ OnReport(m)
      /\ native' = IF ~ready /\ IsEvent(m) THEN [native EXCEPT !.lossy = @ \cup {m.turn}] ELSE native
  BY <1>1, <1>2
<1> HIDE DEF e
<1>5. CASE OnRequest(m)
  <2>1. m.type = "request" /\ UNCHANGED <<rows, turn>> BY <1>5 DEF OnRequest
  <2>2. native' = native BY <1>4, <2>1 DEF IsEvent
  <2>3. CASE MayServe(m)
    <3>1. /\ ctx' = [ctx EXCEPT !.dispatched = @ \cup {m.key}]
          /\ serving' = serving \cup {<<m.turn, m.key>>}
          /\ UNCHANGED sess
      BY <1>5, <2>3 DEF OnRequest
    <3> QED BY <1>1, <1>3, <2>1, <2>2, <2>3, <3>1, RequestServed, FinalSame
  <2>4. CASE ~MayServe(m)
    <3>1. CallAnswered(m.turn, m.key) /\ UNCHANGED <<ctx, serving>> BY <1>5, <2>4 DEF OnRequest
    <3> QED BY <1>1, <1>3, <2>1, <2>2, <3>1, RequestRefused, FinalSame
  <2> QED BY <2>3, <2>4
<1>6. CASE OnCancel(m)
  <2>1. /\ m.type = "cancel" /\ serving' = serving \ {<<m.turn, m.key>>}
        /\ UNCHANGED <<rows, turn, ctx, sess>>
    BY <1>6 DEF OnCancel
  <2>2. native' = native BY <1>4, <2>1 DEF IsEvent
  <2>3. \A o, d : Drops(m, o, d) => o = m.turn /\ d = m.key BY DEF Drops, Event
  <2> QED BY <1>1, <1>3, <2>1, <2>2, <2>3, CancelRead, FinalSame
<1>7. CASE OnReport(m)
  <2>1. /\ IsEvent(m) /\ UNCHANGED serving
        /\ IF ready /\ ctx.turn = m.turn THEN Route(m) ELSE UNCHANGED <<rows, turn, ctx, sess>>
    BY <1>7 DEF OnReport
  <2>2. CASE ready /\ ctx.turn = m.turn
    <3>1. native' = native BY <1>4, <2>2
    <3> QED BY <1>1, <1>3, <2>1, <2>2, <3>1, RouteStep
  <2>3. CASE ~(ready /\ ctx.turn = m.turn)
    <3>1. native' = IF ~ready THEN [native EXCEPT !.lossy = @ \cup {m.turn}] ELSE native
      BY <1>4, <2>1
    <3> QED BY <1>1, <1>3, <2>1, <2>3, <3>1, DroppedStep
  <2> QED BY <2>2, <2>3
<1> QED BY <1>4, <1>5, <1>6, <1>7

\* The Turn fails without an event.
LEMMA TurnFailsStep ==
  ASSUME TranscriptIInv, TurnFails
  PROVE  TranscriptIInv' /\ Final(rows, rows')
<1>1. ctx.turn # NoTurn /\ FinishTurn(ctx.turn) /\ UNCHANGED <<ready, wire, serving, native>>
  BY DEF TurnFails
<1> QED BY <1>1, FinishStep

\* A step of a session keeps the invariant, and the rows.
LEMMA WorkerSteps ==
  ASSUME TranscriptAssumption, TranscriptIInv, NEW t \in TurnIds,
         \/ MessageEdge(t) \/ Settles(t) \/ RetryFails(t) \/ SessionCloses(t)
         \/ \E k \in Kinds : \/ BlockGrows(t, k)
                             \/ \E n \in 0..MaxChunks : BlockStarts(t, k, n) \/ BlockEnds(t, k, n)
         \/ \E c \in Calls : \/ ToolStarts(t, c) \/ ToolUpdates(t, c) \/ ToolAsks(t, c)
                             \/ ToolCancelled(t, c) \/ ToolEnds(t, c)
  PROVE  TranscriptIInv' /\ UNCHANGED rows
<1>1. \A n \in 0..MaxChunks : n \in Nat BY DEF TranscriptAssumption
<1>2. CASE MessageEdge(t) BY <1>2, MessageEdgeStep DEF MessageEdge, Worker
<1>3. CASE Settles(t) BY <1>3, SettlesStep DEF Settles, Worker
<1>4. CASE RetryFails(t) BY <1>4, RetryFailsStep DEF RetryFails, Worker
<1>5. CASE SessionCloses(t) BY <1>5, SessionClosesStep DEF SessionCloses, Worker
<1>6. ASSUME NEW k \in Kinds, BlockGrows(t, k) PROVE TranscriptIInv' /\ UNCHANGED rows
  BY <1>6, BlockGrowsStep DEF BlockGrows, Worker
<1>7. ASSUME NEW k \in Kinds, NEW n \in 0..MaxChunks, BlockStarts(t, k, n)
      PROVE  TranscriptIInv' /\ UNCHANGED rows
  BY <1>7, BlockStartsStep DEF BlockStarts, Worker
<1>8. ASSUME NEW k \in Kinds, NEW n \in 0..MaxChunks, BlockEnds(t, k, n)
      PROVE  TranscriptIInv' /\ UNCHANGED rows
  BY <1>1, <1>8, BlockEndsStep DEF BlockEnds, Worker
<1>9. ASSUME NEW c \in Calls,
             \/ ToolStarts(t, c) \/ ToolUpdates(t, c) \/ ToolAsks(t, c)
             \/ ToolCancelled(t, c) \/ ToolEnds(t, c)
      PROVE  TranscriptIInv' /\ UNCHANGED rows
  <2>1. CASE ToolStarts(t, c) BY <2>1, ToolStartsStep DEF ToolStarts, Worker
  <2>2. CASE ToolUpdates(t, c) BY <2>2, ToolUpdatesStep DEF ToolUpdates, Worker
  <2>3. CASE ToolAsks(t, c) BY <2>3, ToolAsksStep DEF ToolAsks, Worker
  <2>4. CASE ToolCancelled(t, c) BY <2>4, ToolCancelledStep DEF ToolCancelled, Worker
  <2>5. CASE ToolEnds(t, c) BY <2>5, ToolEndsStep DEF ToolEnds, Worker
  <2> QED BY <1>9, <2>1, <2>2, <2>3, <2>4, <2>5
<1> QED BY <1>2, <1>3, <1>4, <1>5, <1>6, <1>7, <1>8, <1>9

\* Every step keeps the invariant and what is settled.
LEMMA TranscriptStep ==
  ASSUME TranscriptAssumption, TranscriptIInv, [TranscriptNext]_transcriptVars
  PROVE  TranscriptIInv' /\ Final(rows, rows')
<1>1. ASSUME NEW t \in TurnIds,
             \/ MessageEdge(t) \/ Settles(t) \/ RetryFails(t) \/ SessionCloses(t)
             \/ \E k \in Kinds : \/ BlockGrows(t, k)
                                 \/ \E n \in 0..MaxChunks : BlockStarts(t, k, n) \/ BlockEnds(t, k, n)
             \/ \E c \in Calls : \/ ToolStarts(t, c) \/ ToolUpdates(t, c) \/ ToolAsks(t, c)
                                 \/ ToolCancelled(t, c) \/ ToolEnds(t, c)
      PROVE  TranscriptIInv' /\ Final(rows, rows')
  <2>1. TranscriptIInv' /\ UNCHANGED rows BY <1>1, WorkerSteps
  <2> QED BY <2>1, FinalSame
<1>2. CASE BeginTurn
  <2>1. UNCHANGED rows BY <1>2 DEF BeginTurn
  <2> QED BY <1>2, <2>1, BeginTurnStep, FinalSame
<1>3. CASE Receive BY <1>3, ReceiveStep
<1>4. CASE TurnFails BY <1>4, TurnFailsStep
<1>5. CASE AgentWorkerExits BY <1>5, WorkerExitsStep
<1>6. CASE ReadinessChanges
  <2>1. UNCHANGED rows BY <1>6 DEF ReadinessChanges
  <2> QED BY <1>6, <2>1, ReadinessStep, FinalSame
<1>7. CASE DaemonRestarts BY <1>7, DaemonRestartsStep
<1>8. ASSUME NEW r \in serving, Served(r) PROVE TranscriptIInv' /\ Final(rows, rows')
  <2>1. UNCHANGED rows BY <1>8 DEF Served
  <2> QED BY <1>8, <2>1, ServedStep, FinalSame
<1>9. CASE UNCHANGED transcriptVars
  <2>1. UNCHANGED rows BY <1>9 DEF transcriptVars
  <2> QED BY <1>9, <2>1, TranscriptStutter, FinalSame
<1> QED BY <1>1, <1>2, <1>3, <1>4, <1>5, <1>6, <1>7, <1>8, <1>9 DEF TranscriptNext

\* At first there are no rows, no Turns and no sessions.
LEMMA TranscriptStart == TranscriptAssumption /\ TranscriptInit => TranscriptIInv
<1> SUFFICES ASSUME TranscriptAssumption, TranscriptInit PROVE TranscriptIInv OBVIOUS
<1>1. /\ rows = {} /\ wire = <<>> /\ serving = {}
      /\ turn = [latest |-> 0, working |-> FALSE]
      /\ ctx = NoContext /\ ready = TRUE
      /\ sess = [t \in TurnIds |-> ClosedSession]
      /\ native = [texts |-> {}, lossy |-> {}, events |-> 0, lapses |-> 0]
  BY DEF TranscriptInit
<1>2. /\ sess \in [TurnIds -> Sessions] /\ \A t \in TurnIds : sess[t] = ClosedSession
  <2> HIDE DEF Sessions, ClosedSession
  <2> QED BY <1>1, ClosedIsSession
<1>3. DOMAIN wire = {} /\ wire \in Seq(Events)
  <2> HIDE DEF Events
  <2> QED BY <1>1
<1>4. /\ ctx.turn = NoTurn /\ ctx.started = {}
      /\ ctx \in [turn : {NoTurn} \cup TurnIds, started : SUBSET Calls, dispatched : SUBSET Calls]
  BY <1>1 DEF NoContext
<1>5. /\ turn.latest = 0 /\ turn.working = FALSE
      /\ turn \in [latest : 0..MaxTurns, working : BOOLEAN]
  BY <1>1 DEF TranscriptAssumption
<1>6. native \in Natives BY <1>1 DEF Natives
<1>7. TranscriptTyped
  <2> HIDE DEF Rows, Sessions, Natives
  <2> QED BY <1>1, <1>2, <1>4, <1>5, <1>6 DEF TranscriptTyped
<1>8. PipeFits(wire, turn.latest) BY <1>3 DEF PipeFits
<1>9. WorkIsLatest BY <1>4, <1>5 DEF WorkIsLatest
<1>10. NothingAhead
  <2> HIDE DEF ClosedSession
  <2> QED BY <1>1, <1>2 DEF NothingAhead
<1>11. RowsFit /\ OnlyWorkIsBusy BY <1>1 DEF RowsFit, OnlyWorkIsBusy
<1>12. StartedHaveRows BY <1>4 DEF StartedHaveRows
<1>13. RequestsFit BY <1>3 DEF RequestsFit, RequestFits
<1>14. ServedFit BY <1>1 DEF ServedFit
<1>15. StreamsFit BY <1>4 DEF StreamsFit
<1>16. TextsWhole BY <1>1 DEF TextsWhole
<1> QED BY <1>7, <1>8, <1>9, <1>10, <1>11, <1>12, <1>13, <1>14, <1>15, <1>16 DEF TranscriptIInv

\* The invariant says what the transcript is for.
LEMMA InvariantSettles == TranscriptIInv => TranscriptSettles
<1> SUFFICES ASSUME TranscriptIInv PROVE TranscriptSettles OBVIOUS
<1>1. TranscriptTypeOK BY DEF TranscriptIInv, TranscriptTyped, Rows, WorkIsLatest, TranscriptTypeOK
<1>2. OnlyWorkIsBusy BY DEF TranscriptIInv
<1>3. BlocksAreWhole BY DEF TranscriptIInv, RowsFit, TextsWhole, BlocksAreWhole
<1>4. CallsAreOwned
  <2> SUFFICES ASSUME NEW r \in serving
               PROVE  /\ \E q \in rows : IsToolCall(q, r[2]) /\ q.turn = r[1]
                      /\ \/ ctx.turn = r[1] /\ r[2] \in ctx.dispatched
                         \/ sess[r[1]].closing
                         \/ sess[r[1]].phase = "closed" /\ sess[r[1]].tool[r[2]] = "asking"
                         \/ Cancelled(r[1], r[2])
    BY DEF CallsAreOwned
  <2> QED BY DEF TranscriptIInv, ServedFit, CallHasRow
<1> QED BY <1>1, <1>2, <1>3, <1>4 DEF TranscriptSettles

\* The inductive invariant of the transcript.
LEMMA TranscriptInvariant == TranscriptSpec => []TranscriptIInv
<1>1. TranscriptInit => TranscriptIInv BY TranscriptAssumption, TranscriptStart
<1>2. TranscriptIInv /\ [TranscriptNext]_transcriptVars => TranscriptIInv'
  BY TranscriptAssumption, TranscriptStep
<1> QED BY <1>1, <1>2, PTL DEF TranscriptSpec

\* The transcript tells what happened and nothing in it stays unfinished, for any numbers of
\* Turns, blocks, chunks and calls: what TurnService and ThreadService make of the events of a
\* session (turns.ts, threads.ts).
THEOREM TranscriptIsSettled == TranscriptSpec => []TranscriptSettles
BY TranscriptInvariant, InvariantSettles, PTL

\* What was completed or failed once stays as it is and in its place, and what is new comes after
\* all there was (threads.ts, appendMessageQuiet and the updates).
THEOREM TranscriptRowsAreFinal == TranscriptSpec => RowsAreFinal
<1>1. ASSUME TranscriptIInv, [TranscriptNext]_transcriptVars
      PROVE  /\ \A r \in rows : Streaming(r) \/ Running(r) \/ r \in rows'
             /\ \A r \in rows' : \A q \in rows :
                  r.seq <= q.seq => \E p \in rows : p.seq = r.seq
  <2>1. Final(rows, rows') BY <1>1, TranscriptAssumption, TranscriptStep
  <2> QED BY <2>1 DEF Final
<1>2. TranscriptIInv /\ [TranscriptNext]_transcriptVars =>
        [/\ \A r \in rows : Streaming(r) \/ Running(r) \/ r \in rows'
         /\ \A r \in rows' : \A q \in rows :
              r.seq <= q.seq => \E p \in rows : p.seq = r.seq]_transcriptVars
  BY <1>1
<1> QED BY <1>2, TranscriptInvariant, PTL DEF TranscriptSpec, RowsAreFinal
=============================================================================
