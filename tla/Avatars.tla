------------------------------- MODULE Avatars -------------------------------
(* The avatar of one Bot: its row (bots.ts), its uploaded file, the requests   *)
(* that change both (avatarService.ts, avatarRoutes.ts) and the part of the    *)
(* Bot's permanent deletion that touches them (botDeletion.ts).  No request    *)
(* waits for another one, nor for the deletion.                                *)
EXTENDS Naturals

CONSTANTS AvatarRequests,   \* bound: the requests that are made
          MaxDeletions      \* bound: how often the permanent deletion is tried

ASSUME AvatarsAssumption == MaxDeletions \in Nat

VARIABLES profile,   \* the Bot's row: whether it exists, and the kind of its avatar
          picture,   \* whether the file of its upload exists
          requests,  \* the requests
          erasure,   \* the deletion: where it is, what it read of the row, and how many there were
          mishaps    \* ghost: what came between a row and its file

avatarVars == <<profile, picture, requests, erasure, mishaps>>

AvatarKinds == {"generated", "recipe", "upload"}
NoRequest == [kind |-> "none", at |-> "none", pending |-> "none", held |-> FALSE]
Stages == {"none", "decoding", "storing", "stored", "opening", "sending", "waiting", "answered",
           "removing", "closing", "done"}
Mishaps == {"crossed", "late", "stuck", "half"}

AvatarsTypeOK ==
  /\ profile \in [there : BOOLEAN, kind : AvatarKinds]
  /\ picture \in BOOLEAN
  /\ requests \in [AvatarRequests -> [kind : {"none", "generate", "upload", "recipe"}, at : Stages,
                                      pending : {"none", "waiting", "output", "error"},
                                      held : BOOLEAN]]
  /\ erasure \in [at : {"none", "turns", "picture", "files"}, reads : BOOLEAN, tries : 0..MaxDeletions]
  /\ mishaps \subseteq Mishaps

\* A Bot as its creation or an earlier upload left it.
AvatarsInit ==
  /\ profile \in [there : {TRUE}, kind : {"generated", "upload"}]
  /\ picture = (profile.kind = "upload")
  /\ requests = [r \in AvatarRequests |-> NoRequest]
  /\ erasure = [at |-> "none", reads |-> FALSE, tries |-> 0]
  /\ mishaps = {}

\* What a step leaves to be remembered: a removal and an upload of the same file at once, and an
\* upload while the Bot is deleted or gone.
Remember(more) ==
  LET uploading == \E r \in AvatarRequests : requests'[r].at \in {"storing", "stored"}
      removing == \E r \in AvatarRequests : requests'[r].at = "removing"
  IN mishaps' = mishaps \cup more
                \cup {m \in {"crossed"} : uploading /\ removing}
                \cup {m \in {"late"} : uploading /\ (erasure'.at # "none" \/ ~profile'.there)}

Reaches(r, at) == requests' = [requests EXCEPT ![r].at = at]
Starts(r, kind, at) == requests' = [requests EXCEPT ![r].kind = kind, ![r].at = at]

\* The new kind of the avatar. What was uploaded before is removed after the row has changed; the
\* request then goes on with rest.
Replace(r, kind, rest) ==
  /\ profile' = [profile EXCEPT !.kind = kind]
  /\ Reaches(r, IF profile.kind = "upload" THEN "removing" ELSE rest)

-----------------------------------------------------------------------------
(* A generated variation.                                                     *)

Generate(r) ==
  /\ requests[r] = NoRequest
  /\ profile.there
  /\ profile' = [profile EXCEPT !.kind = "generated"]
  /\ Starts(r, "generate", IF profile.kind = "upload" THEN "removing" ELSE "done")
  /\ UNCHANGED <<picture, erasure>> /\ Remember({})

\* The removal of the earlier upload ends; a failed one is ignored.
EarlierRemoved(r) ==
  /\ requests[r].at = "removing"
  /\ Reaches(r, IF requests[r].kind = "recipe" THEN "closing" ELSE "done")
  /\ UNCHANGED <<profile, erasure>>
  /\ \/ picture' = FALSE /\ Remember({})
     \/ picture' = picture /\ Remember({"stuck"})

-----------------------------------------------------------------------------
(* An upload.                                                                 *)

Upload(r) ==
  /\ requests[r] = NoRequest
  /\ profile.there
  /\ Starts(r, "upload", "decoding")
  /\ UNCHANGED <<profile, picture, erasure>> /\ Remember({})

\* Mutant: the row names the file before it is stored.
DecodedNaming(r) ==
  /\ requests[r].at = "decoding"
  /\ \/ Reaches(r, "storing") /\ profile' = [profile EXCEPT !.kind = "upload"]
     \/ Reaches(r, "done") /\ UNCHANGED profile
  /\ UNCHANGED <<picture, erasure>> /\ Remember({})

\* The image is normalized, or cannot be decoded.
Decoded(r) ==
  /\ requests[r].at = "decoding"
  /\ \/ Reaches(r, "storing") \/ Reaches(r, "done")
  /\ UNCHANGED <<profile, picture, erasure>> /\ Remember({})

\* The temporary file is renamed over the file of the Bot, or removed after an error.
Stored(r) ==
  /\ requests[r].at = "storing"
  /\ \/ Reaches(r, "stored") /\ picture' = TRUE
     \/ Reaches(r, "done") /\ picture' = picture
  /\ UNCHANGED <<profile, erasure>> /\ Remember({})

\* Then the row names the file, if there is one still.
Named(r) ==
  /\ requests[r].at = "stored"
  /\ Reaches(r, "done")
  /\ profile' = IF profile.there THEN [profile EXCEPT !.kind = "upload"] ELSE profile
  /\ UNCHANGED <<picture, erasure>> /\ Remember({})

-----------------------------------------------------------------------------
(* A recipe, written by the Bot's Agent in a session of its own.              *)

\* The Agent's worker is there, or the request fails before it opened anything.
Recipe(r) ==
  /\ requests[r] = NoRequest
  /\ profile.there
  /\ \E at \in {"opening", "done"} : Starts(r, "recipe", at)
  /\ UNCHANGED <<profile, picture, erasure>> /\ Remember({})

\* The session is open, or the answer does not say so in time: whatever the worker then opens
\* stays with it.
SessionOpened(r) ==
  /\ requests[r].at = "opening"
  /\ \/ requests' = [requests EXCEPT ![r].at = "sending", ![r].pending = "waiting", ![r].held = TRUE]
     \/ \E held \in BOOLEAN : requests' = [requests EXCEPT ![r].at = "done", ![r].held = held]
  /\ UNCHANGED <<profile, picture, erasure>> /\ Remember({})

\* #settleRecipe: only the first outcome counts.
Settled(q, outcome) == IF q.pending = "waiting" THEN [q EXCEPT !.pending = outcome] ELSE q

\* onAgentEvent and the timer: the Agent completes, is cancelled, reports an error, writes too
\* much, or takes too long.
RecipeSettles(r) ==
  /\ requests[r].pending = "waiting"
  /\ \E outcome \in {"output", "error"} :
       requests' = [requests EXCEPT ![r] = Settled(requests[r], outcome)]
  /\ UNCHANGED <<profile, picture, erasure>> /\ Remember({})

\* The worker accepted the prompt, or the request for it failed, which ends the recipe even when
\* its output is there already.
SendAnswered(r) ==
  /\ requests[r].at = "sending"
  /\ \/ Reaches(r, "waiting")
     \/ requests' = [requests EXCEPT ![r] = [Settled(requests[r], "error") EXCEPT !.at = "closing"]]
  /\ UNCHANGED <<profile, picture, erasure>> /\ Remember({})

\* The outcome is awaited. An output that is no valid recipe, and a Bot that is gone, end it.
RecipeWritten(r) ==
  /\ requests[r].at = "waiting"
  /\ \/ requests[r].pending = "error" /\ Reaches(r, "closing") /\ UNCHANGED profile
     \/ /\ requests[r].pending = "output"
        /\ \/ Reaches(r, "closing") /\ UNCHANGED profile
           \/ profile.there /\ Replace(r, "recipe", "closing")
  /\ UNCHANGED <<picture, erasure>> /\ Remember({})

\* Whatever happened, the session is settled and asked to close; the answer is not looked at.
SessionClosed(r) ==
  /\ requests[r].at = "closing"
  /\ \E held \in {FALSE, requests[r].held} :
       requests' = [requests EXCEPT ![r] = [Settled(requests[r], "error") EXCEPT !.at = "done",
                                                                                 !.held = held]]
  /\ UNCHANGED <<profile, picture, erasure>> /\ Remember({})

-----------------------------------------------------------------------------
(* The Bot's permanent deletion.                                              *)

\* The row is read, and the deletion claimed.
DeletionBegins ==
  /\ profile.there /\ erasure.at = "none" /\ erasure.tries < MaxDeletions
  /\ erasure' = [at |-> "turns", reads |-> profile.kind = "upload", tries |-> erasure.tries + 1]
  /\ UNCHANGED <<profile, picture, requests>> /\ Remember({})

ErasureEnds == erasure' = [erasure EXCEPT !.at = "none"]

\* The Turns have ended, the Screen is gone and the attachments are removed; or one of these failed.
BarrierPassed ==
  /\ erasure.at = "turns"
  /\ \/ ErasureEnds \/ erasure' = [erasure EXCEPT !.at = "picture"]
  /\ UNCHANGED <<profile, picture, requests>> /\ Remember({})

\* The uploaded file is removed if the row named one at the beginning.
PictureErased ==
  /\ erasure.at = "picture"
  /\ \/ /\ erasure' = [erasure EXCEPT !.at = "files"]
        /\ picture' = (picture /\ ~erasure.reads)
     \/ erasure.reads /\ ErasureEnds /\ picture' = picture
  /\ UNCHANGED <<profile, requests>> /\ Remember({})

\* The artifacts are removed and the row is; or one of the two fails and the row stays.
RowErased ==
  /\ erasure.at = "files"
  /\ ErasureEnds /\ UNCHANGED <<picture, requests>>
  /\ \/ profile' = [profile EXCEPT !.there = FALSE] /\ Remember({})
     \/ profile' = profile /\ Remember({m \in {"half"} : erasure.reads})

AvatarsNext ==
  \/ \E r \in AvatarRequests :
       \/ Generate(r) \/ EarlierRemoved(r) \/ Upload(r) \/ Decoded(r) \/ Stored(r) \/ Named(r)
       \/ Recipe(r) \/ SessionOpened(r) \/ RecipeSettles(r) \/ SendAnswered(r) \/ RecipeWritten(r)
       \/ SessionClosed(r)
  \/ DeletionBegins \/ BarrierPassed \/ PictureErased \/ RowErased

AvatarsSpec == AvatarsInit /\ [][AvatarsNext]_avatarVars

-----------------------------------------------------------------------------
(* Properties.                                                                *)

\* The route serves the file a row names. It is missing only while the Bot is being deleted or
\* after that failed halfway, or when an upload crossed the removal of an earlier one.
NamedIsThere ==
  profile.there /\ profile.kind = "upload" /\ ~picture =>
    erasure.at = "files" \/ mishaps \cap {"crossed", "half"} # {}

\* A file no row names is about to be named or removed, unless its
\* removal failed or it was stored while the Bot was deleted.
KeptIsNamed ==
  picture /\ ~(profile.there /\ profile.kind = "upload") =>
    \/ \E r \in AvatarRequests : requests[r].at \in {"stored", "removing"}
    \/ mishaps \cap {"stuck", "late"} # {}

\* A recipe that has ended waits for no outcome.
NoRecipeIsLeft ==
  \A r \in AvatarRequests : requests[r].at = "done" => requests[r].pending # "waiting"

\* A Bot's avatar is what its row says it is, whatever requests and deletions cross.
AvatarsAgree == AvatarsTypeOK /\ NamedIsThere /\ KeptIsNamed /\ NoRecipeIsLeft
=============================================================================
