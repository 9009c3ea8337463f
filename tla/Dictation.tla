------------------------------ MODULE Dictation ------------------------------
(***************************************************************************)
(* DictationService (apps/daemon/src/modules/dictation): one voice         *)
(* recording at a time through the voxtype command.  start, stop and       *)
(* cancel are HTTP requests that nothing serializes: each one waits for a  *)
(* command (bounded by a timer that kills it) and for the removal of the   *)
(* transcript files, and the others run in between.                        *)
(*                                                                         *)
(* A recording is named by the start request that made it.  A step is a    *)
(* synchronous JavaScript section.  The voxtype commands are external, and *)
(* so is the voxtype service, which writes the transcripts: `record stop   *)
(* --wait` only waits for it, and killing the command does not stop it.    *)
(***************************************************************************)
EXTENDS Naturals, FiniteSets

CONSTANTS
  Recordings,  \* start requests that are accepted, each a recording id
  NoRecording, \* undefined
  Requests     \* stop and cancel requests

ASSUME DictationAssumption == NoRecording \notin Recordings

VARIABLES
  state,      \* #state
  active,     \* #active (NoRecording: undefined)
  cancelled,  \* recordings with active.cancelled
  stopper,    \* active.stopProcess: the stop request whose process it is
  start,      \* where start() is, per recording
  request,    \* the stop and cancel requests
  voice,      \* what the voxtype service has of each recording: it hears it, was
              \* asked for its transcript, and has made it
  files,      \* recordings whose transcript or .done file exists
  eager       \* input: do stop and cancel arrive while start is running?

vars == <<state, active, cancelled, stopper, start, request, voice, files, eager>>

Outcomes == {"success", "empty", "timeout", "failure", "unavailable", "cancelled"}
NewRequest == [op |-> "none", on |-> NoRecording, at |-> "new", outcome |-> "none"]
Request == [op : {"none", "stop", "cancel"},
            on : Recordings \cup {NoRecording},
            at : {"new", "running", "killed", "cleaning", "done"},
            outcome : Outcomes \cup {"none"}]

TypeOK ==
  /\ state \in {"unavailable", "idle", "recording", "transcribing"}
  /\ active \in Recordings \cup {NoRecording}
  /\ cancelled \subseteq Recordings
  /\ stopper \in [Recordings -> SUBSET Requests]
  /\ start \in [Recordings -> {"new", "clearing", "running", "spawnFailed",
                               "failed", "ended"}]
  /\ request \in [Requests -> Request]
  /\ voice \in [Recordings -> {"none", "heard", "asked", "made"}]
  /\ files \subseteq Recordings
  /\ eager \in BOOLEAN

\* The constructor: voxtype is on the PATH or dictation stays unavailable.
Init ==
  /\ state \in {"idle", "unavailable"}
  /\ active = NoRecording
  /\ cancelled = {}
  /\ stopper = [r \in Recordings |-> {}]
  /\ start = [r \in Recordings |-> "new"]
  /\ request = [q \in Requests |-> NewRequest]
  /\ voice = [r \in Recordings |-> "none"]
  /\ files = {}
  /\ eager \in BOOLEAN

---------------------------------------------------------------------------
(* start()                                                                 *)

\* Refused as a conflict while a recording is active, answered without
\* effect while voxtype is unavailable.
Start(r) ==
  /\ start[r] = "new"
  /\ state # "unavailable"
  /\ active = NoRecording
  /\ active' = r
  /\ start' = [start EXCEPT ![r] = "clearing"]
  /\ UNCHANGED <<state, cancelled, stopper, request, voice, files, eager>>

\* Stale artifacts are gone and the command is spawned, or cannot be.
StartSpawns(r) ==
  /\ start[r] = "clearing"
  /\ files' = files \ {r}
  /\ \/ /\ start' = [start EXCEPT ![r] = "running"]
        /\ voice' = [voice EXCEPT ![r] = "heard"]
     \/ /\ start' = [start EXCEPT ![r] = "spawnFailed"]
        /\ UNCHANGED voice
  /\ UNCHANGED <<state, active, cancelled, stopper, request, eager>>

\* The command exited with 0.  Whether the recording is still the active
\* one, or was cancelled, is not looked at.
StartSucceeds(r) ==
  /\ start[r] = "running"
  /\ start' = [start EXCEPT ![r] = "ended"]
  /\ state' = "recording"
  /\ UNCHANGED <<active, cancelled, stopper, request, voice, files, eager>>

\* It exited with another code, or its timer killed it.
StartCommandFails(r) ==
  /\ start[r] = "running"
  /\ start' = [start EXCEPT ![r] = "failed"]
  /\ UNCHANGED <<state, active, cancelled, stopper, request, voice, files, eager>>

\* After a failure and the removal of the artifacts #active is cleared,
\* whichever recording it holds.
StartFails(r) ==
  /\ start[r] \in {"spawnFailed", "failed"}
  /\ start' = [start EXCEPT ![r] = "ended"]
  /\ files' = files \ {r}
  /\ active' = NoRecording
  /\ state' = IF start[r] = "spawnFailed" THEN "unavailable" ELSE "idle"
  /\ UNCHANGED <<cancelled, stopper, request, voice, eager>>

---------------------------------------------------------------------------
(* stop() and cancel()                                                     *)

Arrives(q) ==
  /\ request[q].at = "new"
  /\ active # NoRecording
  /\ eager \/ start[active] = "ended"

\* stop(): the state shows it, and the command is spawned in the same
\* synchronous section.
Stop(q) ==
  /\ Arrives(q)
  /\ state # "unavailable"
  /\ state' = "transcribing"
  /\ \/ /\ request' = [request EXCEPT ![q] =
             [op |-> "stop", on |-> active, at |-> "running", outcome |-> "none"]]
        /\ stopper' = [stopper EXCEPT ![active] = {q}]
        /\ voice' = [voice EXCEPT ![active] = IF @ = "heard" THEN "asked" ELSE @]
     \/ /\ request' = [request EXCEPT ![q] =
             [op |-> "stop", on |-> active, at |-> "cleaning",
              outcome |-> IF active \in cancelled THEN "cancelled" ELSE "unavailable"]]
        /\ UNCHANGED <<stopper, voice>>
  /\ UNCHANGED <<active, cancelled, start, files, eager>>

\* External: the voxtype service writes the transcript it was asked for at
\* any time, also after the command that waits for it timed out or was
\* killed and its files were removed.
TranscriptWritten(r) ==
  /\ voice[r] = "asked"
  /\ voice' = [voice EXCEPT ![r] = "made"]
  /\ files' = files \cup {r}
  /\ UNCHANGED <<state, active, cancelled, stopper, start, request, eager>>

\* What stop() reads from the command that ended: its result, or that the
\* recording was cancelled meanwhile.
StopOutcomeOfCommand(q, result) == result
StopOutcome(q, result) ==
  IF request[q].on \in cancelled THEN "cancelled" ELSE result

\* Exit 0 tells that the transcript is written, exit 3 that there is none
\* to write.
Voiced(r, result) ==
  [voice EXCEPT ![r] = IF result = "empty" /\ @ = "asked" THEN "made" ELSE @]

StopEnds(q) ==
  /\ request[q].op = "stop"
  /\ request[q].at \in {"running", "killed"}
  /\ \E result \in {"success", "empty", "timeout", "failure"} :
       /\ result = "success" => voice[request[q].on] = "made"
       /\ request' = [request EXCEPT ![q].at = "cleaning",
                                     ![q].outcome = StopOutcome(q, result)]
       /\ voice' = Voiced(request[q].on, result)
  /\ UNCHANGED <<state, active, cancelled, stopper, start, files, eager>>

\* cancel() marks the recording, kills the process of its latest stop and
\* runs `record cancel`, whose result it does not look at.
Cancel(q) ==
  /\ Arrives(q)
  /\ cancelled' = cancelled \cup {active}
  /\ request' =
       [s \in Requests |->
          IF s = q THEN [op |-> "cancel", on |-> active, at |-> "running", outcome |-> "none"]
          ELSE IF s \in stopper[active] /\ request[s].at = "running"
          THEN [request[s] EXCEPT !.at = "killed"]
          ELSE request[s]]
  /\ UNCHANGED <<state, active, stopper, start, voice, files, eager>>

CancelEnds(q) ==
  /\ request[q].op = "cancel"
  /\ request[q].at = "running"
  /\ request' = [request EXCEPT ![q].at = "cleaning"]
  /\ UNCHANGED <<state, active, cancelled, stopper, start, voice, files, eager>>

\* The files that a request removes when its command has ended.
Removed(q) == {request[q].on}

\* Mutant: whichever recording is active is released.
ReleasesAny(q) == active # NoRecording

\* #release: only of the recording that is still active.
Releases(q) == active = request[q].on

\* The state that is shown after the request, if it releases its recording.
Resting(q) == IF request[q].outcome = "unavailable" THEN "unavailable" ELSE "idle"

\* Mutant: every end of a request is shown.
ShownAlways(q) == Resting(q)

Shown(q) == IF Releases(q) THEN Resting(q) ELSE state

\* The finally of stop() and the end of cancel(): artifacts, release and
\* the answer.
Cleaned(q) ==
  /\ request[q].at = "cleaning"
  /\ request' = [request EXCEPT ![q].at = "done"]
  /\ files' = files \ Removed(q)
  /\ active' = IF Releases(q) THEN NoRecording ELSE active
  /\ state' = Shown(q)
  /\ UNCHANGED <<cancelled, stopper, start, voice, eager>>

Next ==
  \/ \E r \in Recordings :
       \/ Start(r) \/ StartSpawns(r) \/ StartSucceeds(r) \/ StartCommandFails(r) \/ StartFails(r)
       \/ TranscriptWritten(r)
  \/ \E q \in Requests :
       Stop(q) \/ StopEnds(q) \/ Cancel(q) \/ CancelEnds(q) \/ Cleaned(q)

Spec == Init /\ [][Next]_vars

---------------------------------------------------------------------------
(* Properties                                                              *)

InFlight(q) == request[q].at \notin {"new", "done"}
Starting(r) == start[r] \notin {"new", "ended"}

\* #state and #active agree: a recording whose start has ended and that is
\* still active is shown as recording or transcribing, whatever the late
\* ends of earlier requests have set the state to.
ActiveIsShown ==
  active # NoRecording /\ ~Starting(active) => state \in {"recording", "transcribing"}

\* With a client that stops and cancels only what it has seen start, the
\* service shows a recording only while one is active.
ShownIsOwned ==
  ~eager /\ active = NoRecording => state \notin {"recording", "transcribing"}

\* The words that were handed out are on disk no more, whichever requests
\* raced about their recording. Of a recording that was not handed out a late
\* transcript may stay (TranscriptWritten).
HandedOutIsGone ==
  \A q \in Requests :
    request[q].at = "done" /\ request[q].outcome = "success" => request[q].on \notin files

\* The state and the files tell the truth about the recordings, whichever
\* order the requests that race about them end in.
ShowsTheTruth == TypeOK /\ ActiveIsShown /\ ShownIsOwned /\ HandedOutIsGone

\* A recording stops being the active one only by its own stop, its own
\* cancel or its own failed start, never by the late end of a request on
\* an earlier recording, if the client waits for the answer of a start.
EndedByItsOwn ==
  [][~eager => \A r \in Recordings : active = r /\ active' # r =>
       \/ \E q \in Requests : request[q].on = r /\ request[q].at = "cleaning"
       \/ start[r] \in {"spawnFailed", "failed"}]_vars

\* A stop whose command ends after a cancel arrived is answered with
\* "cancelled": the transcript of a cancelled recording is not handed out.
CancelWins ==
  [][\A q, c \in Requests :
       /\ request[c].op = "cancel" /\ request[c].on = request[q].on
       /\ request[q].op = "stop" /\ request[q].outcome = "none"
       => request'[q].outcome # "success"]_vars
=============================================================================
