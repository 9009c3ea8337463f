---------------------------- MODULE ServicesProofs ----------------------------
(* What holds of four services, for any number of requests, commands, Turns,  *)
(* sources and launches: avatars agree with their files (Avatars), native     *)
(* input stays inside the authority it was given (ScreenHelpers), plugin      *)
(* connections are shared soundly (Plugins), and one daemon runs (Launcher).  *)
EXTENDS Avatars, ScreenHelpers, Plugins, Launcher, FiniteSetTheorems, TLAPS

-----------------------------------------------------------------------------
(* Avatars. *)

Uploading == \E r \in AvatarRequests : requests[r].at \in {"storing", "stored"}
RemovingEarlier == \E r \in AvatarRequests : requests[r].at = "removing"
Missing == mishaps \cap {"crossed", "half"} # {} \/ (erasure.at = "files" /\ erasure.reads)

\* The ghost remembers what is going on at once.
MishapsRemembered ==
  /\ Uploading /\ RemovingEarlier => "crossed" \in mishaps
  /\ Uploading /\ (erasure.at # "none" \/ ~profile.there) => "late" \in mishaps

\* A file that a row names, or is about to name, is missing only after a mishap or during a deletion.
FileFollowsRow ==
  /\ profile.there /\ profile.kind = "upload" /\ ~picture => Missing
  /\ profile.there /\ ~picture /\ (\E r \in AvatarRequests : requests[r].at = "stored") => Missing
  /\ profile.there /\ profile.kind = "upload" /\ RemovingEarlier => "crossed" \in mishaps

\* What a deletion does not know of was uploaded while it ran.
DeletionKnows ==
  /\ erasure.at # "none" /\ profile.kind = "upload" /\ ~erasure.reads => "late" \in mishaps
  /\ erasure.at = "files" /\ erasure.reads /\ picture => "late" \in mishaps

\* Only a recipe that is being sent or awaited waits for its outcome.
WaitsInTime ==
  \A r \in AvatarRequests : requests[r].pending = "waiting" => requests[r].at \in {"sending", "waiting"}

AvatarRequestRecord ==
  [kind : {"none", "generate", "upload", "recipe"}, at : Stages,
   pending : {"none", "waiting", "output", "error"}, held : BOOLEAN]

AvatarsIInv ==
  /\ AvatarsTypeOK /\ MishapsRemembered /\ FileFollowsRow /\ KeptIsNamed /\ DeletionKnows /\ WaitsInTime

\* The invariant of the avatars holds at first.
LEMMA AvatarsInvariantInit == AvatarsInit => AvatarsIInv
<1> SUFFICES ASSUME AvatarsInit PROVE AvatarsIInv OBVIOUS
<1>1. /\ profile.there = TRUE /\ profile.kind \in {"generated", "upload"} /\ picture = (profile.kind = "upload")
      /\ profile \in [there : BOOLEAN, kind : AvatarKinds]
      /\ erasure = [at |-> "none", reads |-> FALSE, tries |-> 0] /\ mishaps = {}
      /\ requests = [r \in AvatarRequests |-> NoRequest]
  BY DEF AvatarsInit, AvatarKinds
<1>2. AvatarsTypeOK
  <2>1. 0 \in 0..MaxDeletions BY AvatarsAssumption
  <2>2. picture \in BOOLEAN BY <1>1
  <2>3. NoRequest \in AvatarRequestRecord BY DEF NoRequest, AvatarRequestRecord, Stages
  <2>4. requests \in [AvatarRequests -> AvatarRequestRecord] BY <1>1, <2>3
  <2>5. erasure \in [at : {"none", "turns", "picture", "files"}, reads : BOOLEAN, tries : 0..MaxDeletions]
    BY <1>1, <2>1
  <2> QED BY <1>1, <2>2, <2>4, <2>5 DEF AvatarsTypeOK, AvatarRequestRecord
<1>3. \A r \in AvatarRequests : requests[r].at = "none" /\ requests[r].pending = "none" BY <1>1
  DEF NoRequest
<1>4. ~Uploading /\ ~RemovingEarlier BY <1>3 DEF Uploading, RemovingEarlier
<1>5. MishapsRemembered /\ WaitsInTime BY <1>3, <1>4 DEF MishapsRemembered, WaitsInTime
<1>6. FileFollowsRow BY <1>1, <1>3, <1>4 DEF FileFollowsRow
<1>7. KeptIsNamed /\ DeletionKnows BY <1>1 DEF KeptIsNamed, DeletionKnows
<1> QED BY <1>2, <1>5, <1>6, <1>7 DEF AvatarsIInv

\* What every request and deletion step remembers.
LEMMA Remembers ==
  ASSUME AvatarsTypeOK, NEW more \in SUBSET Mishaps, Remember(more)
  PROVE  MishapsRemembered' /\ mishaps \cup more \subseteq mishaps' /\ mishaps' \in SUBSET Mishaps
BY DEF AvatarsTypeOK, Remember, MishapsRemembered, Uploading, RemovingEarlier, Mishaps


\* A step that gives request r the value q.
Becomes(r, q) ==
  /\ q \in AvatarRequestRecord /\ (q.pending = "waiting" => q.at \in {"sending", "waiting"})
  /\ requests' = [requests EXCEPT ![r] = q]

\* Whatever a request becomes, its type and its waiting are kept, and no other request moves.
LEMMA RequestBecomes ==
  ASSUME AvatarsTypeOK, WaitsInTime, NEW r \in AvatarRequests, NEW q, Becomes(r, q)
  PROVE  /\ requests' \in [AvatarRequests -> AvatarRequestRecord] /\ WaitsInTime'
         /\ requests'[r] = q /\ \A u \in AvatarRequests \ {r} : requests'[u] = requests[u]
<1>0. requests \in [AvatarRequests -> AvatarRequestRecord] BY DEF AvatarsTypeOK, AvatarRequestRecord
<1>1. requests'[r] = q /\ \A u \in AvatarRequests \ {r} : requests'[u] = requests[u] BY <1>0 DEF Becomes
<1>2. requests' \in [AvatarRequests -> AvatarRequestRecord] BY <1>0 DEF Becomes
<1>3. WaitsInTime' BY <1>0, <1>1 DEF Becomes, WaitsInTime
<1> QED BY <1>1, <1>2, <1>3

\* Every step of a request keeps the invariant: the ones that change neither row nor file first.
LEMMA QuietRequest ==
  ASSUME AvatarsIInv, NEW r \in AvatarRequests, NEW q, Becomes(r, q), UNCHANGED <<profile, picture, erasure>>,
         Remember({}), requests[r].at \notin {"stored", "removing"}, q.at \notin {"stored", "removing"}
  PROVE  AvatarsIInv'
<1>0. AvatarsTypeOK /\ WaitsInTime /\ FileFollowsRow /\ KeptIsNamed /\ DeletionKnows BY DEF AvatarsIInv
<1>1. /\ requests' \in [AvatarRequests -> AvatarRequestRecord] /\ WaitsInTime'
      /\ requests'[r] = q /\ \A u \in AvatarRequests \ {r} : requests'[u] = requests[u]
  BY <1>0, RequestBecomes
<1>2. MishapsRemembered' /\ mishaps \subseteq mishaps' /\ mishaps' \in SUBSET Mishaps
  BY <1>0, Remembers, {} \in SUBSET Mishaps
<1>3. AvatarsTypeOK' BY <1>0, <1>1, <1>2 DEF AvatarsTypeOK, AvatarRequestRecord
<1>4. \A u \in AvatarRequests : \A at \in {"stored", "removing"} :
        requests'[u].at = at <=> requests[u].at = at
  BY <1>1
<1>5. Missing => Missing' BY <1>2 DEF Missing
<1>6. FileFollowsRow' BY <1>0, <1>2, <1>4, <1>5 DEF FileFollowsRow, RemovingEarlier
<1>7. KeptIsNamed' BY <1>0, <1>2, <1>4 DEF KeptIsNamed
<1>8. DeletionKnows' BY <1>0, <1>2 DEF DeletionKnows
<1> QED BY <1>1, <1>2, <1>3, <1>6, <1>7, <1>8 DEF AvatarsIInv

\* What every step of a request keeps.
LEMMA RequestStep ==
  ASSUME AvatarsIInv, NEW r \in AvatarRequests, NEW q, Becomes(r, q), UNCHANGED erasure,
         profile' \in [there : BOOLEAN, kind : AvatarKinds], picture' \in BOOLEAN,
         NEW more \in SUBSET Mishaps, Remember(more)
  PROVE  /\ AvatarsTypeOK' /\ WaitsInTime' /\ MishapsRemembered'
         /\ mishaps \subseteq mishaps' /\ more \subseteq mishaps' /\ (Missing => Missing')
         /\ requests[r] \in AvatarRequestRecord
         /\ requests'[r].at = q.at /\ \A u \in AvatarRequests : u # r => requests'[u].at = requests[u].at
<1>0. AvatarsTypeOK /\ WaitsInTime /\ requests[r] \in AvatarRequestRecord
  BY DEF AvatarsIInv, AvatarsTypeOK, AvatarRequestRecord
<1>1. /\ requests' \in [AvatarRequests -> AvatarRequestRecord] /\ WaitsInTime'
      /\ requests'[r] = q /\ \A u \in AvatarRequests \ {r} : requests'[u] = requests[u]
  BY <1>0, RequestBecomes
<1>2. MishapsRemembered' /\ mishaps \cup more \subseteq mishaps' /\ mishaps' \in SUBSET Mishaps
  BY <1>0, Remembers
<1>3. AvatarsTypeOK' BY <1>0, <1>1, <1>2 DEF AvatarsTypeOK, AvatarRequestRecord
<1>4. Missing => Missing' BY <1>2 DEF Missing
<1> QED BY <1>0, <1>1, <1>2, <1>3, <1>4

\* A new kind of avatar whose predecessor, if it was an upload, is removed after the row has changed.
LEMMA ReplaceKeeps ==
  ASSUME AvatarsIInv, NEW r \in AvatarRequests, NEW q, Becomes(r, q), UNCHANGED <<picture, erasure>>,
         NEW kind \in {"generated", "recipe"}, profile' = [profile EXCEPT !.kind = kind],
         requests[r].at \notin {"stored", "removing"}, q.at # "stored",
         profile.kind = "upload" <=> q.at = "removing", Remember({})
  PROVE  AvatarsIInv'
<1>0. FileFollowsRow /\ KeptIsNamed /\ DeletionKnows BY DEF AvatarsIInv
<1>1. /\ erasure' = erasure /\ profile' \in [there : BOOLEAN, kind : AvatarKinds] /\ picture' \in BOOLEAN
      /\ profile'.there = profile.there /\ profile'.kind = kind /\ picture' = picture
  BY DEF AvatarsIInv, AvatarsTypeOK, AvatarKinds
<1>2. {} \in SUBSET Mishaps OBVIOUS
<1>3. /\ AvatarsTypeOK' /\ WaitsInTime' /\ MishapsRemembered'
      /\ mishaps \subseteq mishaps' /\ (Missing => Missing')
      /\ requests'[r].at = q.at /\ \A u \in AvatarRequests : u # r => requests'[u].at = requests[u].at
  BY <1>1, <1>2, RequestStep
<1>4. FileFollowsRow' BY <1>0, <1>1, <1>3 DEF FileFollowsRow
<1>5. KeptIsNamed'
  <2>1. CASE profile.kind = "upload" BY <1>3, <2>1 DEF KeptIsNamed
  <2>2. CASE profile.kind # "upload"
    <3>1. \A u \in AvatarRequests : requests[u].at \in {"stored", "removing"}
                                     => requests'[u].at \in {"stored", "removing"}
      BY <1>3
    <3> QED BY <1>0, <1>1, <1>3, <2>2, <3>1 DEF KeptIsNamed
  <2> QED BY <2>1, <2>2
<1>6. DeletionKnows' BY <1>0, <1>1, <1>3 DEF DeletionKnows
<1> QED BY <1>3, <1>4, <1>5, <1>6 DEF AvatarsIInv

\* The end of the removal of an earlier upload.
LEMMA RemovalKeeps ==
  ASSUME AvatarsIInv, NEW r \in AvatarRequests, EarlierRemoved(r)
  PROVE  AvatarsIInv'
<1>0. /\ FileFollowsRow /\ KeptIsNamed /\ DeletionKnows /\ MishapsRemembered /\ AvatarsTypeOK /\ WaitsInTime
      /\ requests[r] \in AvatarRequestRecord /\ requests \in [AvatarRequests -> AvatarRequestRecord]
      /\ RemovingEarlier
  BY DEF AvatarsIInv, AvatarsTypeOK, AvatarRequestRecord, EarlierRemoved, RemovingEarlier
<1> DEFINE q == [requests[r] EXCEPT !.at = IF requests[r].kind = "recipe" THEN "closing" ELSE "done"]
<1>1. Becomes(r, q) /\ q.at \in {"closing", "done"}
  BY <1>0 DEF EarlierRemoved, Reaches, Becomes, AvatarRequestRecord, Stages, WaitsInTime
<1> HIDE DEF q
<1>2. /\ UNCHANGED <<profile, erasure>>
      /\ profile' \in [there : BOOLEAN, kind : AvatarKinds]
  BY <1>0 DEF EarlierRemoved, AvatarsTypeOK
<1>3. PICK more \in SUBSET Mishaps :
        Remember(more) /\ (picture' = FALSE \/ (picture' = picture /\ "stuck" \in more))
  BY DEF EarlierRemoved, Mishaps
<1>4. /\ AvatarsTypeOK' /\ WaitsInTime' /\ MishapsRemembered'
      /\ mishaps \subseteq mishaps' /\ more \subseteq mishaps' /\ (Missing => Missing')
      /\ requests'[r].at = q.at /\ \A u \in AvatarRequests : u # r => requests'[u].at = requests[u].at
  BY <1>0, <1>3, <1>1, <1>2, RequestStep DEF AvatarsTypeOK
<1>5. \A u \in AvatarRequests : requests'[u].at \in {"stored", "removing"} => requests'[u].at = requests[u].at
  BY <1>1, <1>4
<1>6. FileFollowsRow'
  BY <1>0, <1>4, <1>5, <1>2 DEF FileFollowsRow, Missing, Uploading, MishapsRemembered
<1>7. KeptIsNamed' BY <1>3, <1>4 DEF KeptIsNamed
<1>8. DeletionKnows' BY <1>3, <1>0, <1>2, <1>4 DEF DeletionKnows
<1> QED BY <1>4, <1>6, <1>7, <1>8 DEF AvatarsIInv

\* The stored file.
LEMMA StoredKeeps ==
  ASSUME AvatarsIInv, NEW r \in AvatarRequests, Stored(r)
  PROVE  AvatarsIInv'
<1>0. /\ FileFollowsRow /\ KeptIsNamed /\ DeletionKnows /\ MishapsRemembered /\ AvatarsTypeOK /\ WaitsInTime
      /\ requests[r] \in AvatarRequestRecord /\ requests \in [AvatarRequests -> AvatarRequestRecord]
      /\ Uploading /\ requests[r].at = "storing"
  BY DEF AvatarsIInv, AvatarsTypeOK, AvatarRequestRecord, Stored, Uploading
<1>1. PICK at \in {"stored", "done"} : Reaches(r, at) /\ picture' = (at = "stored" \/ picture)
  BY <1>0 DEF Stored, AvatarsTypeOK
<1> DEFINE q == [requests[r] EXCEPT !.at = at]
<1>2. Becomes(r, q) /\ q.at = at
  BY <1>0, <1>1 DEF Reaches, Becomes, AvatarRequestRecord, Stages, WaitsInTime
<1> HIDE DEF q
<1>3. /\ UNCHANGED <<profile, erasure>> /\ Remember({}) /\ {} \in SUBSET Mishaps
      /\ profile' \in [there : BOOLEAN, kind : AvatarKinds] /\ picture' \in BOOLEAN
  BY <1>0, <1>1 DEF Stored, AvatarsTypeOK
<1>4. /\ AvatarsTypeOK' /\ WaitsInTime' /\ MishapsRemembered'
      /\ mishaps \subseteq mishaps' /\ (Missing => Missing')
      /\ requests'[r].at = at /\ \A u \in AvatarRequests : u # r => requests'[u].at = requests[u].at
  BY <1>2, <1>3, RequestStep
<1>5. CASE at = "stored"
  <2>1. FileFollowsRow' BY <1>0, <1>4, <1>5, <1>1, <1>3 DEF RemovingEarlier, FileFollowsRow
  <2>2. KeptIsNamed' BY <1>4, <1>5 DEF KeptIsNamed
  <2>3. DeletionKnows' BY <1>0, <1>4, <1>3 DEF MishapsRemembered, DeletionKnows
  <2> QED BY <1>4, <2>1, <2>2, <2>3 DEF AvatarsIInv
<1>6. CASE at = "done"
  <2>0. /\ picture' = picture
        /\ \A u \in AvatarRequests : \A x \in {"stored", "removing"} : requests'[u].at = x <=> requests[u].at = x
    BY <1>0, <1>1, <1>6, <1>4 DEF AvatarsTypeOK
  <2>1. FileFollowsRow' BY <1>0, <1>3, <1>4, <2>0 DEF FileFollowsRow, RemovingEarlier
  <2>2. KeptIsNamed' BY <1>0, <1>3, <1>4, <2>0 DEF KeptIsNamed
  <2>3. DeletionKnows' BY <1>0, <1>3, <1>4, <2>0 DEF DeletionKnows
  <2> QED BY <1>4, <2>1, <2>2, <2>3 DEF AvatarsIInv
<1> QED BY <1>5, <1>6

\* The row that names the stored file.
LEMMA NamedKeeps ==
  ASSUME AvatarsIInv, NEW r \in AvatarRequests, Named(r)
  PROVE  AvatarsIInv'
<1>0. /\ FileFollowsRow /\ KeptIsNamed /\ DeletionKnows /\ MishapsRemembered /\ AvatarsTypeOK /\ WaitsInTime
      /\ requests[r] \in AvatarRequestRecord /\ requests \in [AvatarRequests -> AvatarRequestRecord]
      /\ Uploading /\ requests[r].at = "stored"
  BY DEF AvatarsIInv, AvatarsTypeOK, AvatarRequestRecord, Named, Uploading
<1> DEFINE q == [requests[r] EXCEPT !.at = "done"]
<1>2. Becomes(r, q) /\ q.at = "done"
  BY <1>0 DEF Named, Reaches, Becomes, AvatarRequestRecord, Stages, WaitsInTime
<1> HIDE DEF q
<1>3. /\ UNCHANGED <<picture, erasure>> /\ Remember({}) /\ {} \in SUBSET Mishaps
      /\ profile' \in [there : BOOLEAN, kind : AvatarKinds] /\ picture' \in BOOLEAN
      /\ profile'.there = profile.there /\ (profile.there => profile'.kind = "upload")
      /\ ~profile.there => profile' = profile
  BY <1>0 DEF Named, AvatarsTypeOK, AvatarKinds
<1>4. /\ AvatarsTypeOK' /\ WaitsInTime' /\ MishapsRemembered'
      /\ mishaps \subseteq mishaps' /\ (Missing => Missing')
      /\ requests'[r].at = "done" /\ \A u \in AvatarRequests : u # r => requests'[u].at = requests[u].at
  BY <1>2, <1>3, RequestStep
<1>5. /\ \A u \in AvatarRequests : requests'[u].at = "stored" => requests[u].at = "stored"
      /\ RemovingEarlier' => RemovingEarlier
  BY <1>4 DEF RemovingEarlier
<1>6. /\ RemovingEarlier => "crossed" \in mishaps'
      /\ erasure.at # "none" \/ ~profile.there => "late" \in mishaps'
  BY <1>0, <1>4 DEF MishapsRemembered
<1>7. FileFollowsRow' BY <1>0, <1>3, <1>4, <1>5, <1>6 DEF FileFollowsRow
<1>8. KeptIsNamed' BY <1>3, <1>4, <1>6 DEF KeptIsNamed
<1>9. DeletionKnows' BY <1>3, <1>6 DEF DeletionKnows
<1> QED BY <1>4, <1>7, <1>8, <1>9 DEF AvatarsIInv

\* The steps of the permanent deletion.
LEMMA DeletionKeeps ==
  ASSUME AvatarsIInv, DeletionBegins \/ BarrierPassed \/ PictureErased \/ RowErased
  PROVE  AvatarsIInv'
<1>0. /\ FileFollowsRow /\ KeptIsNamed /\ DeletionKnows /\ MishapsRemembered /\ AvatarsTypeOK /\ WaitsInTime
      /\ profile \in [there : BOOLEAN, kind : AvatarKinds] /\ picture \in BOOLEAN
      /\ erasure \in [at : {"none", "turns", "picture", "files"}, reads : BOOLEAN, tries : 0..MaxDeletions]
  BY DEF AvatarsIInv, AvatarsTypeOK
<1>1. UNCHANGED requests BY DEF DeletionBegins, BarrierPassed, PictureErased, RowErased, ErasureEnds
<1>2. WaitsInTime' BY <1>0, <1>1 DEF WaitsInTime
<1>3. ASSUME NEW more \in SUBSET Mishaps, Remember(more)
      PROVE  MishapsRemembered' /\ mishaps \subseteq mishaps' /\ mishaps' \in SUBSET Mishaps
             /\ more \subseteq mishaps' /\ ("crossed" \in mishaps => "crossed" \in mishaps')
             /\ ("half" \in mishaps => "half" \in mishaps')
  BY <1>0, <1>3, Remembers
<1>4. {} \in SUBSET Mishaps /\ {m \in {"half"} : erasure.reads} \in SUBSET Mishaps BY DEF Mishaps
<1>DeletionBegins. CASE DeletionBegins
  <2>1. /\ UNCHANGED <<profile, picture>> /\ erasure.at = "none" /\ profile.there
        /\ erasure'.at = "turns" /\ erasure'.reads = (profile.kind = "upload")
        /\ erasure' \in [at : {"none", "turns", "picture", "files"}, reads : BOOLEAN, tries : 0..MaxDeletions]
    BY <1>0, <1>DeletionBegins, AvatarsAssumption DEF DeletionBegins
  <2>2. MishapsRemembered' /\ mishaps \subseteq mishaps' /\ mishaps' \in SUBSET Mishaps
    BY <1>3, <1>4, <1>DeletionBegins DEF DeletionBegins
  <2>3. AvatarsTypeOK' BY <1>0, <1>1, <2>1, <2>2 DEF AvatarsTypeOK
  <2>4. Missing => Missing' BY <2>1, <2>2 DEF Missing
  <2>5. FileFollowsRow' BY <1>0, <1>1, <2>1, <2>2, <2>4 DEF FileFollowsRow, RemovingEarlier
  <2>6. KeptIsNamed' BY <1>0, <1>1, <2>1, <2>2 DEF KeptIsNamed
  <2>7. DeletionKnows' BY <2>1 DEF DeletionKnows
  <2> QED BY <1>2, <2>2, <2>3, <2>5, <2>6, <2>7 DEF AvatarsIInv
<1>BarrierPassed. CASE BarrierPassed
  <2>1. /\ UNCHANGED <<profile, picture>> /\ erasure.at = "turns"
        /\ erasure'.at \in {"none", "picture"} /\ erasure'.reads = erasure.reads
        /\ erasure' \in [at : {"none", "turns", "picture", "files"}, reads : BOOLEAN, tries : 0..MaxDeletions]
    BY <1>0, <1>BarrierPassed DEF BarrierPassed, ErasureEnds
  <2>2. MishapsRemembered' /\ mishaps \subseteq mishaps' /\ mishaps' \in SUBSET Mishaps
    BY <1>3, <1>4, <1>BarrierPassed DEF BarrierPassed
  <2>3. AvatarsTypeOK' BY <1>0, <1>1, <2>1, <2>2 DEF AvatarsTypeOK
  <2>4. Missing => Missing' BY <2>1, <2>2 DEF Missing
  <2>5. FileFollowsRow' BY <1>0, <1>1, <2>1, <2>2, <2>4 DEF FileFollowsRow, RemovingEarlier
  <2>6. KeptIsNamed' BY <1>0, <1>1, <2>1, <2>2 DEF KeptIsNamed
  <2>7. DeletionKnows' BY <1>0, <2>1, <2>2 DEF DeletionKnows
  <2> QED BY <1>2, <2>2, <2>3, <2>5, <2>6, <2>7 DEF AvatarsIInv
<1>PictureErased. CASE PictureErased
  <2>1. /\ UNCHANGED profile /\ erasure.at = "picture" /\ erasure'.reads = erasure.reads
        /\ \/ erasure'.at = "files" /\ picture' = (picture /\ ~erasure.reads)
           \/ erasure'.at = "none" /\ picture' = picture
        /\ erasure' \in [at : {"none", "turns", "picture", "files"}, reads : BOOLEAN, tries : 0..MaxDeletions]
    BY <1>0, <1>PictureErased DEF PictureErased, ErasureEnds
  <2>2. MishapsRemembered' /\ mishaps \subseteq mishaps' /\ mishaps' \in SUBSET Mishaps
    BY <1>3, <1>4, <1>PictureErased DEF PictureErased
  <2>3. AvatarsTypeOK' BY <1>0, <1>1, <2>1, <2>2 DEF AvatarsTypeOK
  <2>4. /\ Missing => Missing'
        /\ ~picture' => ~picture \/ Missing'
        /\ picture' => picture
    BY <1>0, <2>1, <2>2 DEF Missing
  <2>5. FileFollowsRow' BY <1>0, <1>1, <2>1, <2>2, <2>4 DEF FileFollowsRow, RemovingEarlier
  <2>6. KeptIsNamed' BY <1>0, <1>1, <2>1, <2>2, <2>4 DEF KeptIsNamed
  <2>7. DeletionKnows' BY <1>0, <2>1, <2>2 DEF DeletionKnows
  <2> QED BY <1>2, <2>2, <2>3, <2>5, <2>6, <2>7 DEF AvatarsIInv
<1>RowErased. CASE RowErased
  <2>0. PICK more \in SUBSET Mishaps :
          /\ Remember(more)
          /\ \/ profile' = [profile EXCEPT !.there = FALSE]
             \/ profile' = profile /\ (erasure.reads => "half" \in more)
    BY <1>4, <1>RowErased DEF RowErased
  <2>1. /\ UNCHANGED picture /\ erasure.at = "files" /\ erasure'.at = "none"
        /\ profile' \in [there : BOOLEAN, kind : AvatarKinds] /\ profile'.kind = profile.kind
        /\ profile'.there => profile.there
        /\ ~profile'.there \/ (profile'.there = profile.there /\ (erasure.reads => "half" \in more))
        /\ erasure' \in [at : {"none", "turns", "picture", "files"}, reads : BOOLEAN, tries : 0..MaxDeletions]
    BY <1>0, <1>RowErased, <2>0 DEF RowErased, ErasureEnds
  <2>2. MishapsRemembered' /\ mishaps \subseteq mishaps' /\ mishaps' \in SUBSET Mishaps /\ more \subseteq mishaps'
    BY <1>3, <2>0
  <2>3. AvatarsTypeOK' BY <1>0, <1>1, <2>1, <2>2 DEF AvatarsTypeOK
  <2>4. profile'.there /\ Missing => Missing' BY <2>1, <2>2 DEF Missing
  <2>5. FileFollowsRow' BY <1>0, <1>1, <2>1, <2>2, <2>4 DEF FileFollowsRow, RemovingEarlier
  <2>6. KeptIsNamed' BY <1>0, <2>1, <1>1, <2>2 DEF DeletionKnows, KeptIsNamed
  <2>7. DeletionKnows' BY <2>1 DEF DeletionKnows
  <2> QED BY <1>2, <2>2, <2>3, <2>5, <2>6, <2>7 DEF AvatarsIInv
<1> QED BY <1>DeletionBegins, <1>BarrierPassed, <1>PictureErased, <1>RowErased

\* Every step of a request or of the deletion keeps the invariant.
LEMMA AvatarsInvariantNext == AvatarsIInv /\ [AvatarsNext]_avatarVars => AvatarsIInv'
<1> SUFFICES ASSUME AvatarsIInv, [AvatarsNext]_avatarVars PROVE AvatarsIInv' OBVIOUS
<1>0. /\ requests \in [AvatarRequests -> AvatarRequestRecord]
      /\ \A u \in AvatarRequests : requests[u].pending = "waiting" => requests[u].at \in {"sending", "waiting"}
  BY DEF AvatarsIInv, AvatarsTypeOK, AvatarRequestRecord, WaitsInTime
<1>1. ASSUME NEW r \in AvatarRequests, NEW q, Becomes(r, q), UNCHANGED <<profile, picture, erasure>>, Remember({}),
             requests[r].at \notin {"stored", "removing"}, q.at \notin {"stored", "removing"}
      PROVE  AvatarsIInv'
  BY <1>1, QuietRequest
<1>2. ASSUME NEW r \in AvatarRequests, NEW at \in Stages \ {"stored", "removing"}, Reaches(r, at),
             requests[r].at \notin {"stored", "removing"}, requests[r].pending = "waiting" => at \in {"sending", "waiting"},
             UNCHANGED <<profile, picture, erasure>>, Remember({})
      PROVE  AvatarsIInv'
  <2> DEFINE q == [requests[r] EXCEPT !.at = at]
  <2>1. Becomes(r, q) /\ q.at = at BY <1>0, <1>2 DEF Reaches, Becomes, AvatarRequestRecord
  <2> HIDE DEF q
  <2> QED BY <1>1, <1>2, <2>1
<1>3. ASSUME NEW r \in AvatarRequests, requests[r] = NoRequest,
             NEW kind \in {"generate", "upload", "recipe"}, NEW at \in Stages \ {"stored", "removing"},
             Starts(r, kind, at), UNCHANGED <<profile, picture, erasure>>, Remember({})
      PROVE  AvatarsIInv'
  <2> DEFINE q == [requests[r] EXCEPT !.kind = kind, !.at = at]
  <2>1. /\ Becomes(r, q) /\ q.at = at /\ requests[r].at = "none"
    <3>1. requests[r].at = "none" /\ requests[r].pending = "none" BY <1>3 DEF NoRequest
    <3>2. requests' = [requests EXCEPT ![r] = q] BY <1>0, <1>3 DEF Starts
    <3>3. q \in AvatarRequestRecord /\ q.at = at /\ q.pending = "none"
      BY <1>0, <1>3, <3>1 DEF AvatarRequestRecord
    <3> QED BY <3>1, <3>2, <3>3 DEF Becomes
  <2> HIDE DEF q
  <2> QED BY <1>1, <1>3, <2>1
<1>4. "decoding" \in Stages /\ "storing" \in Stages /\ "done" \in Stages /\ "opening" \in Stages
      /\ "closing" \in Stages /\ "waiting" \in Stages /\ "sending" \in Stages
  BY DEF Stages
<1>Generate. ASSUME NEW r \in AvatarRequests, Generate(r) PROVE AvatarsIInv'
  <2> DEFINE at == IF profile.kind = "upload" THEN "removing" ELSE "done"
             q == [requests[r] EXCEPT !.kind = "generate", !.at = at]
  <2>1. at \in {"removing", "done"} /\ (profile.kind = "upload" <=> at = "removing") OBVIOUS
  <2>2. requests[r].at = "none" /\ requests[r].pending = "none" BY <1>Generate DEF Generate, NoRequest
  <2>3. Starts(r, "generate", at) BY <1>Generate DEF Generate
  <2> HIDE DEF at
  <2>4. Becomes(r, q) /\ q.at = at
    BY <1>0, <2>1, <2>2, <2>3 DEF Starts, Becomes, AvatarRequestRecord, Stages
  <2> HIDE DEF q
  <2>5. /\ UNCHANGED <<picture, erasure>> /\ Remember({}) /\ profile' = [profile EXCEPT !.kind = "generated"]
    BY <1>Generate DEF Generate
  <2> QED BY <2>1, <2>2, <2>4, <2>5, ReplaceKeeps
<1>EarlierRemoved. ASSUME NEW r \in AvatarRequests, EarlierRemoved(r) PROVE AvatarsIInv'
  BY <1>EarlierRemoved, RemovalKeeps
<1>Upload. ASSUME NEW r \in AvatarRequests, Upload(r) PROVE AvatarsIInv'
  BY <1>Upload, <1>3, <1>4 DEF Upload
<1>Decoded. ASSUME NEW r \in AvatarRequests, Decoded(r) PROVE AvatarsIInv'
  <2>1. requests[r].pending # "waiting" /\ requests[r].at = "decoding" BY <1>0, <1>Decoded DEF Decoded
  <2> QED BY <1>Decoded, <1>2, <1>4, <2>1 DEF Decoded
<1>Stored. ASSUME NEW r \in AvatarRequests, Stored(r) PROVE AvatarsIInv'
  BY <1>Stored, StoredKeeps
<1>Named. ASSUME NEW r \in AvatarRequests, Named(r) PROVE AvatarsIInv'
  BY <1>Named, NamedKeeps
<1>Recipe. ASSUME NEW r \in AvatarRequests, Recipe(r) PROVE AvatarsIInv'
  BY <1>Recipe, <1>3, <1>4 DEF Recipe
<1>SessionOpened. ASSUME NEW r \in AvatarRequests, SessionOpened(r) PROVE AvatarsIInv'
  <2>1. requests[r].at = "opening" /\ requests[r].pending # "waiting" BY <1>0, <1>SessionOpened
    DEF SessionOpened
  <2>2. UNCHANGED <<profile, picture, erasure>> /\ Remember({}) BY <1>SessionOpened DEF SessionOpened
  <2>3. CASE requests' = [requests EXCEPT ![r].at = "sending", ![r].pending = "waiting", ![r].held = TRUE]
    <3> DEFINE q == [requests[r] EXCEPT !.at = "sending", !.pending = "waiting", !.held = TRUE]
    <3>1. Becomes(r, q) /\ q.at = "sending" BY <1>0, <1>4, <2>3 DEF Becomes, AvatarRequestRecord
    <3> HIDE DEF q
    <3> QED BY <1>1, <2>1, <2>2, <3>1
  <2>4. ASSUME NEW held \in BOOLEAN, requests' = [requests EXCEPT ![r].at = "done", ![r].held = held]
        PROVE  AvatarsIInv'
    <3> DEFINE q == [requests[r] EXCEPT !.at = "done", !.held = held]
    <3>1. Becomes(r, q) /\ q.at = "done" BY <1>0, <1>4, <2>1, <2>4 DEF Becomes, AvatarRequestRecord
    <3> HIDE DEF q
    <3> QED BY <1>1, <2>1, <2>2, <3>1
  <2> QED BY <2>3, <2>4, <1>SessionOpened DEF SessionOpened
<1>RecipeSettles. ASSUME NEW r \in AvatarRequests, RecipeSettles(r) PROVE AvatarsIInv'
  <2>1. PICK outcome \in {"output", "error"} : requests' = [requests EXCEPT ![r] = Settled(requests[r], outcome)]
    BY <1>RecipeSettles DEF RecipeSettles
  <2> DEFINE q == [requests[r] EXCEPT !.pending = outcome]
  <2>2. /\ requests' = [requests EXCEPT ![r] = q] /\ requests[r].at \in {"sending", "waiting"}
    BY <1>0, <1>RecipeSettles, <2>1 DEF RecipeSettles, Settled
  <2>3. Becomes(r, q) /\ q.at = requests[r].at BY <1>0, <2>2 DEF Becomes, AvatarRequestRecord
  <2> HIDE DEF q
  <2> QED BY <1>1, <1>RecipeSettles, <2>2, <2>3 DEF RecipeSettles
<1>5. ASSUME NEW r \in AvatarRequests
      PROVE  /\ Settled(requests[r], "error") \in AvatarRequestRecord
             /\ Settled(requests[r], "error").pending # "waiting"
  BY <1>0 DEF Settled, AvatarRequestRecord
<1>6. ASSUME NEW r \in AvatarRequests, NEW at \in {"closing", "done"}, NEW held \in BOOLEAN,
             requests' = [requests EXCEPT ![r] = [Settled(requests[r], "error") EXCEPT !.at = at, !.held = held]],
             requests[r].at \notin {"stored", "removing"}, UNCHANGED <<profile, picture, erasure>>, Remember({})
      PROVE  AvatarsIInv'
  <2> DEFINE s == Settled(requests[r], "error")
             q == [s EXCEPT !.at = at, !.held = held]
  <2>1. s \in AvatarRequestRecord /\ s.pending # "waiting" BY <1>5
  <2>2. requests' = [requests EXCEPT ![r] = q] BY <1>6
  <2> HIDE DEF s
  <2>3. Becomes(r, q) /\ q.at = at BY <1>4, <2>1, <2>2 DEF Becomes, AvatarRequestRecord
  <2> HIDE DEF q
  <2> QED BY <1>1, <1>6, <2>3
<1>SendAnswered. ASSUME NEW r \in AvatarRequests, SendAnswered(r) PROVE AvatarsIInv'
  <2>1. requests[r].at = "sending" /\ UNCHANGED <<profile, picture, erasure>> /\ Remember({})
    BY <1>SendAnswered DEF SendAnswered
  <2>2. CASE Reaches(r, "waiting") BY <1>2, <1>4, <2>1, <2>2
  <2>3. CASE requests' = [requests EXCEPT ![r] = [Settled(requests[r], "error") EXCEPT !.at = "closing"]]
    <3> DEFINE s == Settled(requests[r], "error")
               q == [s EXCEPT !.at = "closing"]
    <3>1. s \in AvatarRequestRecord /\ s.pending # "waiting" BY <1>5
    <3>2. requests' = [requests EXCEPT ![r] = q] BY <2>3
    <3> HIDE DEF s
    <3>3. Becomes(r, q) /\ q.at = "closing" BY <1>4, <3>1, <3>2 DEF Becomes, AvatarRequestRecord
    <3> HIDE DEF q
    <3> QED BY <1>1, <2>1, <3>3
  <2> QED BY <2>2, <2>3, <1>SendAnswered DEF SendAnswered
<1>RecipeWritten. ASSUME NEW r \in AvatarRequests, RecipeWritten(r) PROVE AvatarsIInv'
  <2>1. /\ requests[r].at = "waiting" /\ requests[r].pending # "waiting"
        /\ UNCHANGED <<picture, erasure>> /\ Remember({})
    BY <1>RecipeWritten DEF RecipeWritten
  <2>2. CASE Reaches(r, "closing") /\ UNCHANGED profile BY <1>2, <1>4, <2>1, <2>2
  <2>3. CASE Replace(r, "recipe", "closing")
    <3> DEFINE at == IF profile.kind = "upload" THEN "removing" ELSE "closing"
               q == [requests[r] EXCEPT !.at = at]
    <3>1. at \in {"removing", "closing"} /\ (profile.kind = "upload" <=> at = "removing") OBVIOUS
    <3>2. Reaches(r, at) /\ profile' = [profile EXCEPT !.kind = "recipe"] BY <2>3 DEF Replace
    <3> HIDE DEF at
    <3>3. Becomes(r, q) /\ q.at = at
      BY <1>0, <2>1, <3>1, <3>2 DEF Reaches, Becomes, AvatarRequestRecord, Stages
    <3> HIDE DEF q
    <3> QED BY <2>1, <3>1, <3>2, <3>3, ReplaceKeeps
  <2> QED BY <2>2, <2>3, <1>RecipeWritten DEF RecipeWritten
<1>SessionClosed. ASSUME NEW r \in AvatarRequests, SessionClosed(r) PROVE AvatarsIInv'
  <2>1. requests[r].held \in BOOLEAN BY <1>0 DEF AvatarRequestRecord
  <2>2. PICK held \in BOOLEAN :
          requests' = [requests EXCEPT ![r] = [Settled(requests[r], "error") EXCEPT !.at = "done", !.held = held]]
    BY <1>SessionClosed, <2>1 DEF SessionClosed
  <2> QED BY <1>6, <1>SessionClosed, <2>2 DEF SessionClosed
<1>Deletion. ASSUME DeletionBegins \/ BarrierPassed \/ PictureErased \/ RowErased PROVE AvatarsIInv'
  BY <1>Deletion, DeletionKeeps
<1>Stutter. CASE UNCHANGED avatarVars
  BY <1>Stutter
  DEF avatarVars, AvatarsIInv, AvatarsTypeOK, MishapsRemembered, FileFollowsRow, KeptIsNamed,
      DeletionKnows,
      WaitsInTime, Uploading, RemovingEarlier, Missing
<1> QED
  BY <1>Generate, <1>EarlierRemoved, <1>Upload, <1>Decoded, <1>Stored, <1>Named, <1>Recipe,
     <1>SessionOpened,
     <1>RecipeSettles, <1>SendAnswered, <1>RecipeWritten, <1>SessionClosed, <1>Deletion, <1>Stutter
       DEF AvatarsNext

\* A Bot's row and its file agree whatever requests and deletions cross (bots.ts, avatarService.ts,
\* botDeletion.ts): a missing file and a forgotten one each have the mishap that explains them, and no
\* recipe that ended waits for its Agent.
THEOREM AvatarsAreTrue == AvatarsSpec => []AvatarsAgree
<1>1. AvatarsIInv => AvatarsAgree
  BY DEF AvatarsIInv, AvatarsAgree, NamedIsThere, FileFollowsRow, Missing, NoRecipeIsLeft, WaitsInTime
<1> QED BY AvatarsInvariantInit, AvatarsInvariantNext, <1>1, PTL DEF AvatarsSpec

-----------------------------------------------------------------------------
(* The helpers of a Screen. *)

LineOfHelper == [cmd : {"authority", "press", "lift", "release"}, epoch : Nat, by : {"op", "screen"}]
ScreenSteps == {"input", "worker", "unstarted", "ready", "failing", "stopping", "letgo", "ending", "exiting",
                "opens", "closes", "rest", "over"}

HelpersTypeOK ==
  /\ screen \in ScreenSteps
  /\ op \in [kind : {"none", "act", "notify", "look", "claim", "input", "letgo"}, epoch : Nat]
  /\ human \in Nat /\ epochs \in [given : Nat, last : Nat]
  /\ helper \in [running : BOOLEAN, terminal : BOOLEAN, stopped : BOOLEAN]
  /\ chain \in Seq(LineOfHelper)
  /\ device \in [line : LineOfHelper \cup {NoLine}, answer : {"none", "awaited", "ok", "rejected"},
                 active : BOOLEAN, epoch : Nat, highest : Nat, held : BOOLEAN]

\* The chain holds at most one command of the operation and one of the Screen's end.
Alone(s) == \A i, j \in DOMAIN s : s[i].by = s[j].by => i = j
OfOp(c, o) ==
  /\ c.epoch = o.epoch
  /\ \/ o.kind = "act"
     \/ o.kind = "claim" /\ c.cmd = "authority"
     \/ o.kind = "input" /\ c.cmd \in {"press", "lift"}
     \/ o.kind = "letgo" /\ c.cmd = "release"
OfScreen(c, step) == c = LetAllGo /\ step \in {"failing", "letgo", "ending"}
ChainIsShort ==
  /\ Alone(chain)
  /\ \A i \in DOMAIN chain : IF chain[i].by = "op" THEN OfOp(chain[i], op) ELSE OfScreen(chain[i], screen)

\* Only the head is in exchange, and none is when the helper is beyond it.
HeadIsExchanged ==
  /\ InExchange => ~helper.terminal /\ chain # <<>>
  /\ device.line # NoLine /\ ~helper.terminal =>
       device.answer = "awaited" /\ chain # <<>> /\ device.line = chain[1]

\* Authority that is asked for is newer than all there was.
AuthorityIsNewer ==
  /\ device.highest <= epochs.last
  /\ device.line.cmd = "authority" => device.line.epoch <= epochs.last
  /\ op.kind \in {"act", "claim"} => op.epoch = epochs.last
  /\ \A i \in DOMAIN chain :
       chain[i].cmd = "authority" /\ ~helper.terminal /\ ~(i = 1 /\ device.answer = "ok")
         => device.highest < chain[i].epoch

\* What an answer tells of the device.
AnswerTells ==
  /\ device.answer = "ok" /\ chain[1].cmd = "authority" => device.epoch = chain[1].epoch /\ ~device.held
  /\ device.answer = "ok" /\ chain[1].cmd = "release" => ~device.held
  /\ device.answer = "rejected" =>
       /\ chain[1].cmd # "authority"
       /\ chain[1].cmd = "release" => ~device.held \/ device.epoch # chain[1].epoch

\* A device holds something down only for an authority, of a helper that runs.
HeldUnderAuthority ==
  /\ device.held => device.active /\ helper.running
  /\ device.active => device.epoch > 0

\* The steps of the Screen, and what there is in them.
HelperRunsWithScreen ==
  /\ helper.running => screen \in {"worker", "ready", "failing", "stopping", "letgo", "ending", "exiting"}
  /\ screen \in {"input", "worker", "unstarted"} => chain = <<>> /\ op = NoOp /\ device.line = NoLine
                                                     /\ ~device.held
  /\ helper.stopped => screen \notin {"input", "worker", "ready"}
  /\ op.kind \in {"none", "notify", "look"} => op.epoch = 0
  /\ screen = "ready" /\ op.kind = "input" => human = op.epoch

\* Nothing stays pressed that nobody will let go.
HeldIsAnswered ==
  device.held => \/ human = device.epoch
                 \/ op.epoch = device.epoch
                 \/ helper.terminal
                 \/ screen \in {"failing", "stopping", "letgo", "ending", "exiting"}

HelpersIInv ==
  /\ HelpersTypeOK /\ ChainIsShort /\ HeadIsExchanged /\ AuthorityIsNewer /\ AnswerTells
  /\ HeldUnderAuthority /\ HelperRunsWithScreen /\ HeldIsAnswered

\* The invariant of the helpers holds at first.
LEMMA HelpersInvariantInit == HelpersInit => HelpersIInv
<1> SUFFICES ASSUME HelpersInit PROVE HelpersIInv OBVIOUS
<1> USE DEF HelpersInit
<1>1. HelpersTypeOK BY DEF HelpersTypeOK, NoOp, ScreenSteps
<1>2. ChainIsShort BY DEF ChainIsShort, Alone
<1>3. HeadIsExchanged BY DEF HeadIsExchanged, InExchange
<1>4. AuthorityIsNewer BY DEF AuthorityIsNewer, NoOp, NoLine
<1>5. AnswerTells BY DEF AnswerTells
<1>6. HeldUnderAuthority /\ HelperRunsWithScreen /\ HeldIsAnswered
  BY DEF HeldUnderAuthority, HelperRunsWithScreen, HeldIsAnswered, NoOp
<1> QED BY <1>1, <1>2, <1>3, <1>4, <1>5, <1>6 DEF HelpersIInv

\* t is s with e behind it.
Grown(s, t, e) ==
  /\ t \in Seq(LineOfHelper) /\ t # <<>>
  /\ s # <<>> => t[1] = s[1]
  /\ \A i \in DOMAIN t : \/ i \in DOMAIN s /\ t[i] = s[i]
                         \/ t[i] = e /\ i \notin DOMAIN s /\ (i = 1 => s = <<>>)
  /\ Alone(s) /\ (\A i \in DOMAIN s : s[i].by # e.by) => Alone(t)

\* What Append does to a chain.
LEMMA ChainGrows ==
  ASSUME NEW s \in Seq(LineOfHelper), NEW e \in LineOfHelper
  PROVE  Grown(s, Append(s, e), e)
<1> DEFINE t == Append(s, e)
<1>1. /\ t \in Seq(LineOfHelper) /\ Len(t) = Len(s) + 1 /\ t[Len(s) + 1] = e
      /\ \A i \in 1..Len(s) : t[i] = s[i]
      /\ Len(s) \in Nat /\ DOMAIN s = 1..Len(s) /\ DOMAIN t = 1..(Len(s) + 1)
  OBVIOUS
<1> HIDE DEF t
<1>2. t # <<>> BY <1>1
<1>3. s # <<>> => Len(s) > 0 OBVIOUS
<1>4. s # <<>> => t[1] = s[1] BY <1>1, <1>3
<1>5. ASSUME NEW i \in DOMAIN t PROVE (i \in DOMAIN s /\ t[i] = s[i]) \/ (t[i] = e /\ i \notin DOMAIN s /\ (i = 1 => s = <<>>))
  <2>1. CASE i \in 1..Len(s) BY <1>1, <2>1
  <2>2. CASE i = Len(s) + 1 BY <1>1, <1>3, <2>2
  <2> QED BY <1>1, <2>1, <2>2
<1>6. Alone(s) /\ (\A i \in DOMAIN s : s[i].by # e.by) => Alone(t)
  <2> SUFFICES ASSUME Alone(s), \A i \in DOMAIN s : s[i].by # e.by, NEW i \in DOMAIN t, NEW j \in DOMAIN t,
                      t[i].by = t[j].by
               PROVE  i = j
    BY DEF Alone
  <2>1. CASE i \in DOMAIN s /\ j \in DOMAIN s BY <1>1, <2>1 DEF Alone
  <2>2. CASE i \in DOMAIN s /\ j \notin DOMAIN s BY <1>5, <2>2
  <2>3. CASE i \notin DOMAIN s /\ j \in DOMAIN s BY <1>5, <2>3
  <2>4. CASE i \notin DOMAIN s /\ j \notin DOMAIN s BY <1>1, <2>4
  <2> QED BY <2>1, <2>2, <2>3, <2>4
<1>7. Grown(s, t, e) BY <1>1, <1>2, <1>4, <1>5, <1>6 DEF Grown
<1> QED BY <1>7 DEF t

\* t is s without its head.
Shortened(s, t) ==
  /\ t \in Seq(LineOfHelper) /\ s[1] \in LineOfHelper /\ 1 \in DOMAIN s /\ Head(s) = s[1]
  /\ \A i \in DOMAIN t : i + 1 \in DOMAIN s /\ i + 1 # 1 /\ t[i] = s[i + 1]
  /\ Alone(s) => Alone(t) /\ \A i \in DOMAIN t : t[i].by # s[1].by

\* What Tail does to a chain.
LEMMA ChainShortens ==
  ASSUME NEW s \in Seq(LineOfHelper), s # <<>>
  PROVE  Shortened(s, Tail(s))
<1> DEFINE t == Tail(s)
<1>1. /\ t \in Seq(LineOfHelper) /\ Len(s) \in Nat /\ Len(s) > 0 /\ DOMAIN s = 1..Len(s)
      /\ DOMAIN t = 1..(Len(s) - 1) /\ Head(s) = s[1]
      /\ \A i \in 1..(Len(s) - 1) : t[i] = s[i + 1]
  OBVIOUS
<1> HIDE DEF t
<1>2. 1 \in DOMAIN s /\ s[1] \in LineOfHelper BY <1>1
<1>3. ASSUME NEW i \in DOMAIN t PROVE i \in Nat /\ i + 1 \in DOMAIN s /\ i + 1 # 1 /\ t[i] = s[i + 1]
  BY <1>1
<1>4. Alone(s) => Alone(t)
  <2> SUFFICES ASSUME Alone(s), NEW i \in DOMAIN t, NEW j \in DOMAIN t, t[i].by = t[j].by PROVE i = j
    BY DEF Alone
  <2>1. i + 1 = j + 1 BY <1>3 DEF Alone
  <2> QED BY <1>3, <2>1
<1>5. Alone(s) => \A i \in DOMAIN t : t[i].by # s[1].by BY <1>2, <1>3 DEF Alone
<1>6. Shortened(s, t) BY <1>1, <1>2, <1>3, <1>4, <1>5 DEF Shortened
<1> QED BY <1>6 DEF t

\* The step that begins an operation: it is alone in the chain, and its authority is newer than all.
LEMMA OperationBegins ==
  ASSUME HelpersIInv,
         NEW kind \in {"act", "notify", "look", "claim", "input", "letgo"}, NEW epoch \in Nat,
         NEW cmd \in {"none", "authority", "press", "lift", "release"}, Begin(kind, epoch, cmd),
         cmd # "none" => OfOp(ByOp(cmd, epoch), [kind |-> kind, epoch |-> epoch]),
         epochs' \in [given : Nat, last : Nat],
         IF kind \in {"act", "claim"} THEN epoch = epochs'.last /\ epochs.last < epoch
         ELSE epochs'.last = epochs.last,
         kind \in {"notify", "look"} => epoch = 0,
         kind = "input" => epoch = human,
         human' \in Nat, human' = human \/ (kind = "letgo" /\ epoch = human),
         UNCHANGED <<screen, helper, device>>
  PROVE  HelpersIInv'
<1> USE DEF HelpersIInv
<1>0. /\ HelpersTypeOK /\ ChainIsShort /\ HeadIsExchanged /\ AuthorityIsNewer /\ AnswerTells
      /\ HeldUnderAuthority /\ HelperRunsWithScreen /\ HeldIsAnswered
      /\ chain \in Seq(LineOfHelper) /\ epochs.last \in Nat /\ epochs'.last \in Nat /\ device.highest \in Nat
      /\ epochs.last <= epochs'.last /\ device.line.cmd = "authority" => device.line.epoch \in Nat
  BY DEF HelpersTypeOK, LineOfHelper, NoLine
<1>1. /\ screen = "ready" /\ op = NoOp /\ op' = [kind |-> kind, epoch |-> epoch]
      /\ op'.kind = kind /\ op'.epoch = epoch
      /\ chain' = IF cmd = "none" THEN chain ELSE Append(chain, ByOp(cmd, epoch))
      /\ screen' = screen /\ helper' = helper /\ device' = device
  BY DEF Begin
<1>2. ByOp(cmd, epoch).by = "op" /\ ByOp(cmd, epoch).cmd = cmd /\ ByOp(cmd, epoch).epoch = epoch
      /\ (cmd # "none" => ByOp(cmd, epoch) \in LineOfHelper)
  BY DEF ByOp, LineOfHelper
<1>3. chain' = chain \/ (cmd # "none" /\ Grown(chain, chain', ByOp(cmd, epoch)))
  BY <1>0, <1>1, <1>2, ChainGrows
<1>4. \A i \in DOMAIN chain : chain[i].by # "op" /\ chain[i] = LetAllGo /\ OfScreen(chain[i], screen)
  BY <1>0, <1>1 DEF ChainIsShort, OfOp, OfScreen, NoOp
<1>5. HelpersTypeOK' BY <1>0, <1>1, <1>3 DEF HelpersTypeOK, Grown
<1>6. ChainIsShort'
  <2>1. Alone(chain') BY <1>0, <1>2, <1>3, <1>4 DEF ChainIsShort, Grown
  <2>2. ASSUME NEW i \in DOMAIN chain'
        PROVE  IF chain'[i].by = "op" THEN OfOp(chain'[i], op') ELSE OfScreen(chain'[i], screen')
    BY <1>1, <1>2, <1>3, <1>4 DEF Grown
  <2> QED BY <2>1, <2>2 DEF ChainIsShort
<1>7. chain # <<>> => chain' # <<>> /\ chain'[1] = chain[1] BY <1>3 DEF Grown
<1>8. HeadIsExchanged' BY <1>0, <1>1, <1>7 DEF HeadIsExchanged, InExchange
<1>9. AuthorityIsNewer'
  <2>1. /\ device.highest <= epochs'.last
        /\ device.line.cmd = "authority" => device.line.epoch <= epochs'.last
    BY <1>0 DEF AuthorityIsNewer
  <2>2. kind \in {"act", "claim"} => epoch = epochs'.last OBVIOUS
  <2>3. ASSUME NEW i \in DOMAIN chain', chain'[i].cmd = "authority" PROVE device.highest < chain'[i].epoch
    <3>1. LetAllGo.cmd = "release" BY DEF LetAllGo
    <3>2. cmd = "authority" /\ chain'[i] = ByOp(cmd, epoch) BY <1>2, <1>3, <1>4, <2>3, <3>1 DEF Grown
    <3>3. kind \in {"act", "claim"} BY <3>2, <1>2 DEF OfOp
    <3> QED BY <1>0, <1>2, <3>2, <3>3 DEF AuthorityIsNewer
  <2> QED BY <1>1, <2>1, <2>2, <2>3 DEF AuthorityIsNewer
<1>10. AnswerTells' BY <1>0, <1>1, <1>7 DEF AnswerTells, HeadIsExchanged, InExchange
<1>11. HeldUnderAuthority' BY <1>0, <1>1 DEF HeldUnderAuthority
<1>12. HelperRunsWithScreen' BY <1>0, <1>1 DEF HelperRunsWithScreen
<1>13. HeldIsAnswered' BY <1>0, <1>1 DEF HeldUnderAuthority, NoOp, HeldIsAnswered
<1> QED BY <1>5, <1>6, <1>8, <1>9, <1>10, <1>11, <1>12, <1>13

\* A step that leaves the helper, its chain and its device alone, and the Screen where it matters.
LEMMA HelperLeftAlone ==
  ASSUME HelpersIInv, UNCHANGED <<op, epochs, helper, chain, device, human>>, screen' \in ScreenSteps,
         \/ screen' = screen
         \/ /\ screen \in {"exiting", "opens", "closes", "rest"} /\ screen' \in {"opens", "closes", "rest", "over"}
            /\ ~helper.running
  PROVE  HelpersIInv'
<1> USE DEF HelpersIInv
<1>1. HelpersTypeOK' BY DEF HelpersTypeOK
<1>2. ChainIsShort' BY DEF ChainIsShort, OfScreen
<1>3. HeadIsExchanged' BY DEF HeadIsExchanged, InExchange
<1>4. AuthorityIsNewer' BY DEF AuthorityIsNewer
<1>5. AnswerTells' BY DEF AnswerTells
<1>6. HeldUnderAuthority' BY DEF HeldUnderAuthority
<1>7. HelperRunsWithScreen' BY DEF HelperRunsWithScreen
<1>8. HeldIsAnswered' BY DEF HeldIsAnswered, HeldUnderAuthority
<1> QED BY <1>1, <1>2, <1>3, <1>4, <1>5, <1>6, <1>7, <1>8

\* The start of the input helper and of the computer worker.
LEMMA HelpersStartKeeps ==
  ASSUME HelpersIInv, NEW b \in BOOLEAN, InputStarts(b) \/ WorkerStarts(b)
  PROVE  HelpersIInv'
<1> USE DEF HelpersIInv
<1>1. /\ screen \in {"input", "worker"} /\ screen' \in {"worker", "ready", "unstarted"}
      /\ op' = op /\ human' = human /\ epochs' = epochs /\ chain' = chain /\ device' = device
      /\ helper' \in [running : BOOLEAN, terminal : BOOLEAN, stopped : BOOLEAN]
      /\ helper'.terminal = helper.terminal
      /\ helper'.running => screen' \in {"worker", "ready"}
      /\ helper'.stopped => screen' = "unstarted"
  BY DEF InputStarts, WorkerStarts, HelpersTypeOK, HelperRunsWithScreen
<1>2. chain = <<>> /\ op = NoOp /\ device.line = NoLine /\ ~device.held
      /\ NoOp.kind = "none" /\ NoOp.epoch = 0
  BY <1>1 DEF HelperRunsWithScreen, NoOp
<1>3. HelpersTypeOK' BY <1>1 DEF HelpersTypeOK, ScreenSteps
<1>4. ChainIsShort' BY <1>1, <1>2 DEF ChainIsShort
<1>5. HeadIsExchanged' BY <1>1 DEF HeadIsExchanged, InExchange
<1>6. AuthorityIsNewer' BY <1>1, <1>2 DEF AuthorityIsNewer
<1>7. AnswerTells' BY <1>1 DEF AnswerTells
<1>8. HeldUnderAuthority' BY <1>1, <1>2 DEF HeldUnderAuthority
<1>9. HelperRunsWithScreen' BY <1>1, <1>2 DEF HelperRunsWithScreen
<1>10. HeldIsAnswered' BY <1>1, <1>2 DEF HeldIsAnswered
<1> QED BY <1>3, <1>4, <1>5, <1>6, <1>7, <1>8, <1>9, <1>10

\* The head of the chain is written to the helper.
LEMMA SentKeeps ==
  ASSUME HelpersIInv, Sent
  PROVE  HelpersIInv'
<1> USE DEF HelpersIInv
<1>1. /\ chain # <<>> /\ chain \in Seq(LineOfHelper) /\ Head(chain) = chain[1] /\ chain[1] \in LineOfHelper
      /\ 1 \in DOMAIN chain
  BY ChainShortens DEF Sent, HelpersTypeOK, Shortened
<1>2. /\ UNCHANGED <<screen, op, human, epochs, helper, chain>> /\ device.answer = "none"
      /\ helper.running /\ ~helper.terminal /\ ~helper.stopped
      /\ device' \in [line : LineOfHelper \cup {NoLine}, answer : {"none", "awaited", "ok", "rejected"},
                      active : BOOLEAN, epoch : Nat, highest : Nat, held : BOOLEAN]
      /\ device'.line = chain[1] /\ device'.answer = "awaited" /\ device'.active = device.active
      /\ device'.epoch = device.epoch /\ device'.highest = device.highest /\ device'.held = device.held
  BY <1>1 DEF Sent, Healthy, InExchange, HelpersTypeOK
<1>3. HelpersTypeOK' BY <1>2 DEF HelpersTypeOK
<1>4. ChainIsShort' BY <1>2 DEF ChainIsShort
<1>5. HeadIsExchanged' BY <1>1, <1>2 DEF HeadIsExchanged, InExchange
<1>6. AuthorityIsNewer'
  <2>1. chain[1].cmd = "authority" => chain[1].epoch <= epochs.last
    <3> SUFFICES ASSUME chain[1].cmd = "authority" PROVE chain[1].epoch <= epochs.last OBVIOUS
    <3>1. chain[1].by = "op" BY <1>1 DEF ChainIsShort, OfScreen, LetAllGo
    <3>2. chain[1].epoch = op.epoch /\ op.kind \in {"act", "claim"} BY <1>1, <3>1 DEF ChainIsShort, OfOp
    <3>3. epochs.last \in Nat BY DEF HelpersTypeOK
    <3> QED BY <3>2, <3>3 DEF AuthorityIsNewer
  <2> QED BY <1>2, <2>1 DEF AuthorityIsNewer
<1>7. AnswerTells' BY <1>2 DEF AnswerTells
<1>8. HeldUnderAuthority' BY <1>2 DEF HeldUnderAuthority
<1>9. HelperRunsWithScreen' BY <1>1, <1>2 DEF HelperRunsWithScreen
<1>10. HeldIsAnswered' BY <1>2 DEF HeldIsAnswered
<1> QED BY <1>3, <1>4, <1>5, <1>6, <1>7, <1>8, <1>9, <1>10

\* The helper reads its line, also one that nobody waits for any more.
LEMMA DeviceKeeps ==
  ASSUME HelpersIInv, NEW b \in BOOLEAN, DeviceTakes(b)
  PROVE  HelpersIInv'
<1> USE DEF HelpersIInv
<1> DEFINE c == device.line
           obeys == Obeyed(c) /\ ~(b /\ c.cmd \in {"press", "lift"})
           after == IF obeys THEN Effect(c) ELSE device
<1>1. /\ UNCHANGED <<screen, op, human, epochs, helper, chain>> /\ helper.running /\ c # NoLine
      /\ device' = [after EXCEPT !.line = NoLine,
                                 !.answer = IF @ # "awaited" THEN @ ELSE IF obeys THEN "ok" ELSE "rejected"]
  BY DEF DeviceTakes
<1>2. /\ c \in LineOfHelper /\ c.epoch \in Nat /\ c.cmd \in {"authority", "press", "lift", "release"}
      /\ device \in [line : LineOfHelper \cup {NoLine}, answer : {"none", "awaited", "ok", "rejected"},
                      active : BOOLEAN, epoch : Nat, highest : Nat, held : BOOLEAN]
      /\ device.highest \in Nat /\ device.epoch \in Nat /\ epochs.last \in Nat /\ chain \in Seq(LineOfHelper)
  BY <1>1 DEF HelpersTypeOK, LineOfHelper
<1>3. obeys \in BOOLEAN BY DEF Obeyed
<1>4. /\ after \in [line : LineOfHelper \cup {NoLine}, answer : {"none", "awaited", "ok", "rejected"},
                      active : BOOLEAN, epoch : Nat, highest : Nat, held : BOOLEAN]
      /\ after.line = device.line /\ after.answer = device.answer
      /\ after.active => (device.active /\ after.epoch = device.epoch) \/ after.epoch > 0
      /\ ~obeys => after = device
      /\ obeys /\ c.cmd = "authority" => /\ device.highest < c.epoch /\ after.active /\ ~after.held
                                         /\ after.epoch = c.epoch /\ after.highest = c.epoch
      /\ obeys /\ c.cmd = "release" => /\ ~after.active /\ ~after.held
                                       /\ after.epoch = device.epoch /\ after.highest = device.highest
      /\ obeys /\ c.cmd = "press" => /\ device.active /\ after.active /\ after.held /\ c.epoch = device.epoch
                                     /\ after.epoch = device.epoch /\ after.highest = device.highest
      /\ obeys /\ c.cmd = "lift" => /\ after.active = device.active /\ ~after.held
                                    /\ after.epoch = device.epoch /\ after.highest = device.highest
  <2>1. CASE ~obeys BY <1>2, <2>1
  <2>2. CASE obeys /\ c.cmd = "authority"
    <3>1. device.highest < c.epoch BY <1>2, <2>2 DEF Obeyed
    <3>2. c.epoch > 0 BY <1>2, <3>1
    <3> QED BY <1>2, <2>2, <3>1, <3>2 DEF Effect
  <2>3. CASE obeys /\ c.cmd = "release" BY <1>2, <2>3 DEF Obeyed, Effect
  <2>4. CASE obeys /\ c.cmd = "press" BY <1>2, <2>4 DEF Obeyed, Effect
  <2>5. CASE obeys /\ c.cmd = "lift" BY <1>2, <2>5 DEF Obeyed, Effect
  <2> QED BY <1>2, <2>1, <2>2, <2>3, <2>4, <2>5
<1>5. /\ c.cmd = "authority" /\ ~obeys => c.epoch <= device.highest
      /\ c.cmd = "release" /\ ~obeys => c.epoch # 0 /\ (device.active => c.epoch # device.epoch)
  BY <1>2 DEF Obeyed
<1> HIDE DEF after, obeys
<1> DEFINE answer == IF device.answer # "awaited" THEN device.answer ELSE IF obeys THEN "ok" ELSE "rejected"
<1>6. /\ device' \in [line : LineOfHelper \cup {NoLine}, answer : {"none", "awaited", "ok", "rejected"},
                      active : BOOLEAN, epoch : Nat, highest : Nat, held : BOOLEAN]
      /\ device'.line = NoLine /\ device'.active = after.active /\ device'.epoch = after.epoch
      /\ device'.highest = after.highest /\ device'.held = after.held
      /\ device'.answer = answer
  <2>1. answer \in {"none", "awaited", "ok", "rejected"} BY <1>2
  <2>2. device' = [after EXCEPT !.line = NoLine, !.answer = answer] BY <1>1, <1>4
  <2> HIDE DEF answer
  <2> QED BY <1>4, <2>1, <2>2
<1>7. ~helper.terminal => /\ device.answer = "awaited" /\ chain # <<>> /\ c = chain[1] /\ 1 \in DOMAIN chain
  BY <1>1, <1>2, ChainShortens DEF HeadIsExchanged, Shortened
<1>8. NoLine.cmd = "none" BY DEF NoLine
<1>9. HelpersTypeOK' BY <1>1, <1>6 DEF HelpersTypeOK
<1>10. ChainIsShort' BY <1>1 DEF ChainIsShort
<1>11. HeadIsExchanged' BY <1>6, <1>1 DEF HeadIsExchanged, InExchange
<1>12. AuthorityIsNewer'
  <2>1. device'.highest <= epochs.last BY <1>2, <1>4, <1>6 DEF AuthorityIsNewer
  <2>2. ASSUME NEW i \in DOMAIN chain, chain[i].cmd = "authority", ~helper.terminal,
               ~(i = 1 /\ device'.answer = "ok")
        PROVE  device'.highest < chain[i].epoch
    <3>1. ~(i = 1 /\ device.answer = "ok") BY <1>7, <2>2
    <3>2. device.highest < chain[i].epoch BY <2>2, <3>1 DEF AuthorityIsNewer
    <3>3. CASE obeys /\ c.cmd = "authority"
      <4>1. i # 1 BY <1>6, <1>7, <2>2, <3>3
      <4>2. chain[1].by = "op" /\ chain[i].by = "op"
        BY <1>7, <2>2, <3>3 DEF ChainIsShort, OfScreen, LetAllGo
      <4> QED BY <1>7, <2>2, <4>1, <4>2 DEF ChainIsShort, Alone
    <3>4. CASE ~(obeys /\ c.cmd = "authority")
      <4>1. device'.highest = device.highest BY <1>2, <1>4, <1>6, <3>4
      <4> QED BY <3>2, <4>1
    <3> QED BY <3>3, <3>4
  <2> QED BY <1>1, <1>6, <1>8, <2>1, <2>2 DEF AuthorityIsNewer
<1>13. AnswerTells'
  <2>1. CASE device.answer # "awaited"
    <3>1. helper.terminal BY <1>7, <2>1
    <3>2. device'.answer = "none" BY <1>6, <2>1, <3>1 DEF HeadIsExchanged, InExchange
    <3> QED BY <3>2 DEF AnswerTells
  <2>2. CASE device.answer = "awaited" /\ obeys
    <3>1. device'.answer = "ok" /\ c = chain[1] BY <1>6, <1>7, <2>2 DEF HeadIsExchanged, InExchange
    <3> QED BY <1>1, <1>4, <1>6, <2>2, <3>1 DEF AnswerTells
  <2>3. CASE device.answer = "awaited" /\ ~obeys
    <3>1. device'.answer = "rejected" /\ c = chain[1] /\ ~helper.terminal /\ 1 \in DOMAIN chain
      BY <1>6, <1>7, <2>3 DEF HeadIsExchanged, InExchange
    <3>2. c.cmd # "authority"
      <4> SUFFICES ASSUME c.cmd = "authority" PROVE FALSE OBVIOUS
      <4>1. device.highest < c.epoch BY <2>3, <3>1 DEF AuthorityIsNewer
      <4> QED BY <1>2, <1>5, <2>3, <4>1
    <3>3. c.cmd = "release" => ~device'.held \/ device'.epoch # c.epoch
      BY <1>4, <1>6, <2>3, <1>5 DEF HeldUnderAuthority
    <3> QED BY <1>1, <3>1, <3>2, <3>3 DEF AnswerTells
  <2> QED BY <1>3, <2>1, <2>2, <2>3
<1>14. HeldUnderAuthority' BY <1>2, <1>4, <1>1, <1>6 DEF HeldUnderAuthority
<1>15. HelperRunsWithScreen' BY <1>1 DEF HelperRunsWithScreen
<1>16. HeldIsAnswered'
  <2> SUFFICES ASSUME device'.held, ~helper.terminal, screen = "ready"
               PROVE  human = device'.epoch \/ op.epoch = device'.epoch
    <3>1. helper.running => screen \in {"ready", "failing", "stopping", "letgo", "ending", "exiting"}
      BY <1>1 DEF HelperRunsWithScreen
    <3> QED BY <1>1, <3>1 DEF HeldIsAnswered
  <2>1. device.epoch = device'.epoch BY <1>2, <1>4, <1>6
  <2>2. CASE obeys /\ c.cmd = "press"
    <3>1. chain[1].by = "op" BY <1>7, <2>2 DEF ChainIsShort, OfScreen, LetAllGo
    <3>2. op.epoch = c.epoch BY <1>7, <3>1 DEF ChainIsShort, OfOp
    <3> QED BY <1>4, <2>1, <2>2, <3>2
  <2>3. CASE ~(obeys /\ c.cmd = "press")
    <3>1. device.held BY <1>2, <1>4, <1>6, <2>3
    <3> QED BY <2>1, <3>1 DEF HeldIsAnswered
  <2> QED BY <2>2, <2>3
<1> QED BY <1>9, <1>10, <1>11, <1>12, <1>13, <1>14, <1>15, <1>16

\* The helper's process ends.
LEMMA HelperExitKeeps ==
  ASSUME HelpersIInv, HelperExits
  PROVE  HelpersIInv'
<1> USE DEF HelpersIInv
<1>1. /\ UNCHANGED <<screen, op, human, epochs, chain>>
      /\ helper' \in [running : BOOLEAN, terminal : BOOLEAN, stopped : BOOLEAN]
      /\ ~helper'.running /\ helper'.terminal = helper.terminal /\ helper'.stopped = helper.stopped
      /\ device' \in [line : LineOfHelper \cup {NoLine}, answer : {"none", "awaited", "ok", "rejected"},
                      active : BOOLEAN, epoch : Nat, highest : Nat, held : BOOLEAN]
      /\ device'.line = NoLine /\ ~device'.active /\ ~device'.held /\ device'.answer = device.answer
      /\ device'.epoch = device.epoch /\ device'.highest = device.highest
  BY DEF HelperExits, HelpersTypeOK
<1>2. NoLine.cmd = "none" BY DEF NoLine
<1>3. HelpersTypeOK' BY <1>1 DEF HelpersTypeOK
<1>4. ChainIsShort' BY <1>1 DEF ChainIsShort
<1>5. HeadIsExchanged' BY <1>1 DEF HeadIsExchanged, InExchange
<1>6. AuthorityIsNewer' BY <1>1, <1>2 DEF AuthorityIsNewer
<1>7. AnswerTells' BY <1>1 DEF AnswerTells
<1>8. HeldUnderAuthority' BY <1>1 DEF HeldUnderAuthority
<1>9. HelperRunsWithScreen' BY <1>1 DEF HelperRunsWithScreen
<1>10. HeldIsAnswered' BY <1>1 DEF HeldIsAnswered
<1> QED BY <1>3, <1>4, <1>5, <1>6, <1>7, <1>8, <1>9, <1>10

\* A chain that goes with an operation and a step of the Screen.
Fits(cs, o, step) ==
  /\ Alone(cs)
  /\ \A i \in DOMAIN cs : IF cs[i].by = "op" THEN OfOp(cs[i], o) ELSE OfScreen(cs[i], step)

\* One more release, for the Screen's end.
LEMMA ReleaseFits ==
  ASSUME NEW cs \in Seq(LineOfHelper), NEW o, NEW was \in {"ready", "stopping"}, Fits(cs, o, was),
         NEW step \in {"failing", "letgo"}
  PROVE  Grown(cs, Append(cs, LetAllGo), LetAllGo) /\ Fits(Append(cs, LetAllGo), o, step)
<1>1. LetAllGo \in LineOfHelper /\ LetAllGo.by = "screen" BY DEF LetAllGo, LineOfHelper
<1> DEFINE t == Append(cs, LetAllGo)
<1>2. Grown(cs, t, LetAllGo) BY <1>1, ChainGrows
<1> HIDE DEF t
<1>3. \A i \in DOMAIN cs : cs[i].by = "op" /\ OfOp(cs[i], o)
  BY DEF Fits, OfScreen
<1>4. Alone(t) BY <1>1, <1>2, <1>3 DEF Grown, Fits
<1>5. \A i \in DOMAIN t : IF t[i].by = "op" THEN OfOp(t[i], o) ELSE OfScreen(t[i], step)
  BY <1>1, <1>2, <1>3 DEF Grown, OfScreen
<1>6. Grown(cs, t, LetAllGo) /\ Fits(t, o, step) BY <1>2, <1>4, <1>5 DEF Fits
<1> QED BY <1>6 DEF t

\* The Screen's end queues a release behind what there is, while an operation without a command may end.
LEMMA ReleaseQueued ==
  ASSUME HelpersIInv, UNCHANGED <<epochs, helper, device>>,
         op' = op \/ (op.kind \in {"look", "notify"} /\ op' = NoOp),
         human' \in Nat, human' = human \/ screen' # "ready" ,
         \/ chain' = chain /\ screen' = screen
         \/ /\ chain' = Append(chain, LetAllGo)
            /\ (screen = "ready" /\ screen' = "failing") \/ (screen = "stopping" /\ screen' = "letgo")
  PROVE  HelpersIInv'
<1> USE DEF HelpersIInv
<1>0. /\ HelpersTypeOK /\ ChainIsShort /\ HeadIsExchanged /\ AuthorityIsNewer /\ AnswerTells
      /\ HeldUnderAuthority /\ HelperRunsWithScreen /\ HeldIsAnswered
      /\ chain \in Seq(LineOfHelper)
      /\ helper' = helper /\ device' = device /\ epochs' = epochs
  BY DEF HelpersTypeOK
<1>1. NoOp.kind = "none" /\ NoOp.epoch = 0 /\ NoOp \in [kind : {"none"}, epoch : Nat] /\ LetAllGo.cmd = "release"
  BY DEF NoOp, LetAllGo
<1>2. Fits(chain, op', screen)
  <2>1. CASE op' = op BY <1>0, <2>1 DEF Fits, ChainIsShort
  <2>2. CASE op.kind \in {"look", "notify"} BY <1>0, <2>2 DEF Fits, ChainIsShort, OfOp
  <2> QED BY <2>1, <2>2
<1>3. \/ chain' = chain /\ screen' = screen
      \/ Grown(chain, chain', LetAllGo)
  BY <1>0, <1>2, ReleaseFits
<1>4. Fits(chain', op', screen')
  BY <1>0, <1>2, ReleaseFits
<1>5. chain # <<>> => chain' # <<>> /\ chain'[1] = chain[1] BY <1>3 DEF Grown
<1>6. HelpersTypeOK' BY <1>0, <1>3, <1>1 DEF Grown, HelpersTypeOK, ScreenSteps
<1>7. ChainIsShort' BY <1>4 DEF ChainIsShort, Fits
<1>8. HeadIsExchanged' BY <1>0, <1>5 DEF HeadIsExchanged, InExchange
<1>9. AuthorityIsNewer' BY <1>0, <1>1, <1>3 DEF AuthorityIsNewer, Grown
<1>10. AnswerTells' BY <1>0, <1>5 DEF AnswerTells, HeadIsExchanged, InExchange
<1>11. HeldUnderAuthority' BY <1>0 DEF HeldUnderAuthority
<1>12. HelperRunsWithScreen'
  <2>1. screen' \in {"input", "worker", "unstarted"} => screen' = screen /\ chain' = chain OBVIOUS
  <2>2. screen' \in {"input", "worker", "ready"} => screen' = screen OBVIOUS
  <2>3. op = NoOp => op' = NoOp BY <1>1
  <2>4. op'.kind \in {"none", "notify", "look"} => op'.epoch = 0 BY <1>0, <1>1 DEF HelperRunsWithScreen
  <2>5. screen' = "ready" /\ op'.kind = "input" => op' = op /\ human' = human /\ screen = "ready"
    BY <1>1, <2>2
  <2>6. helper.running => screen' \in {"worker", "ready", "failing", "stopping", "letgo", "ending", "exiting"}
    BY <1>0 DEF HelperRunsWithScreen
  <2> QED BY <1>0, <2>1, <2>2, <2>3, <2>4, <2>5, <2>6 DEF HelperRunsWithScreen
<1>13. HeldIsAnswered'
  <2> SUFFICES ASSUME device.held, ~helper.terminal,
                      screen' \notin {"failing", "stopping", "letgo", "ending", "exiting"}
               PROVE  human' = device.epoch \/ op'.epoch = device.epoch
    BY <1>0 DEF HeldIsAnswered
  <2>1. screen' = "ready" /\ screen = "ready"
    BY <1>0 DEF HeldUnderAuthority, HelperRunsWithScreen
  <2>2. op.kind \in {"look", "notify"} => op.epoch = 0 BY <1>0 DEF HelperRunsWithScreen
  <2> QED BY <1>0, <1>1, <2>1, <2>2 DEF HeldIsAnswered
<1> QED BY <1>6, <1>7, <1>8, <1>9, <1>10, <1>11, <1>12, <1>13

\* The head of the chain is over: what is left of the chain, and of its authority.
LEMMA HeadIsOver ==
  ASSUME HelpersIInv, NEW out, HeadEnds(out)
  PROVE  /\ Shortened(chain, Tail(chain)) /\ chain # <<>> /\ Head(chain) = chain[1] /\ 1 \in DOMAIN chain
         /\ chain \in Seq(LineOfHelper)
         /\ \A i \in DOMAIN Tail(chain) :
              Tail(chain)[i].cmd = "authority" /\ ~helper.terminal => device.highest < Tail(chain)[i].epoch
         /\ chain[1].by = "op" => OfOp(chain[1], op) /\ \A i \in DOMAIN Tail(chain) : OfScreen(Tail(chain)[i], screen)
         /\ chain[1].by # "op" => /\ OfScreen(chain[1], screen)
                                  /\ \A i \in DOMAIN Tail(chain) : OfOp(Tail(chain)[i], op) /\ Tail(chain)[i].by = "op"
         /\ Alone(Tail(chain))
<1> USE DEF HelpersIInv
<1>1. chain # <<>> /\ chain \in Seq(LineOfHelper) BY DEF HeadEnds, HelpersTypeOK
<1>2. Shortened(chain, Tail(chain)) BY <1>1, ChainShortens
<1> DEFINE u == Tail(chain)
<1> HIDE DEF u
<1>3. /\ u \in Seq(LineOfHelper) /\ 1 \in DOMAIN chain /\ Head(chain) = chain[1] /\ chain[1] \in LineOfHelper
      /\ \A i \in DOMAIN u : i + 1 \in DOMAIN chain /\ i + 1 # 1 /\ u[i] = chain[i + 1] /\ u[i].by # chain[1].by
      /\ Alone(u) /\ Alone(chain)
      /\ \A i \in DOMAIN u : u[i] \in LineOfHelper
  BY <1>2 DEF u, Shortened, ChainIsShort
<1>4. \A i \in DOMAIN chain : IF chain[i].by = "op" THEN OfOp(chain[i], op) ELSE OfScreen(chain[i], screen)
  BY DEF ChainIsShort
<1>5. ASSUME NEW i \in DOMAIN u, u[i].cmd = "authority", ~helper.terminal PROVE device.highest < u[i].epoch
  BY <1>3, <1>5 DEF AuthorityIsNewer
<1>6. chain[1].by = "op" => OfOp(chain[1], op) /\ \A i \in DOMAIN u : OfScreen(u[i], screen)
  BY <1>3, <1>4
<1>7. chain[1].by # "op" => OfScreen(chain[1], screen) /\ \A i \in DOMAIN u : OfOp(u[i], op) /\ u[i].by = "op"
  BY <1>3, <1>4 DEF LineOfHelper
<1> QED BY <1>1, <1>2, <1>3, <1>5, <1>6, <1>7 DEF u

\* The head ends that an operation sent.
LEMMA OperationGoesOn ==
  ASSUME HelpersIInv, NEW out \in {"ok", "rejected", "failed"}, HeadEnds(out), chain[1].by = "op"
  PROVE  HelpersIInv'
<1> USE DEF HelpersIInv
<1> DEFINE c == chain[1]
           u == Tail(chain)
           next == IF op.kind = "act" THEN NextOfAct(c.cmd, out) ELSE "over"
           m == IF next = "over" THEN u ELSE Append(u, ByOp(next, op.epoch))
           fails == op.kind \in {"claim", "input"} /\ out = "failed"
           terminal == helper.terminal \/ (out = "failed" /\ InExchange)
<1>1. /\ Shortened(chain, u) /\ chain # <<>> /\ Head(chain) = c /\ 1 \in DOMAIN chain /\ chain \in Seq(LineOfHelper)
      /\ OfOp(c, op) /\ (\A i \in DOMAIN u : OfScreen(u[i], screen)) /\ Alone(u)
      /\ u \in Seq(LineOfHelper) /\ c \in LineOfHelper
  BY HeadIsOver DEF Shortened
<1>2. /\ OpGoesOn(c, out)
      /\ helper' = [helper EXCEPT !.terminal = terminal, !.stopped = @ \/ screen' = "exiting"]
      /\ device' = [device EXCEPT !.answer = "none"] /\ epochs' = epochs
      /\ \/ out = device.answer /\ out \in {"ok", "rejected"}
         \/ out = "failed" /\ (device.answer = "awaited" \/ (~InExchange /\ ~Healthy))
  BY <1>1 DEF HeadEnds
<1>3. /\ op' = (IF next = "over" THEN NoOp ELSE op)
      /\ human' = (IF op.kind = "claim" /\ out = "ok" /\ screen = "ready" THEN c.epoch
                   ELSE IF fails THEN 0 ELSE human)
      /\ Failing(m, fails)
  BY <1>2 DEF OpGoesOn
<1>4. /\ next # "over" => op.kind = "act" /\ next \in {"press", "lift", "release"}
      /\ next = "over" /\ op.kind = "act" => c.cmd = "release" \/ (c.cmd = "authority" /\ out # "ok")
  BY <1>1 DEF NextOfAct, ReleasedAfter, LineOfHelper
<1>5. /\ terminal \in BOOLEAN /\ helper.stopped \in BOOLEAN /\ device.answer \in {"none", "awaited", "ok", "rejected"}
      /\ helper \in [running : BOOLEAN, terminal : BOOLEAN, stopped : BOOLEAN]
      /\ device \in [line : LineOfHelper \cup {NoLine}, answer : {"none", "awaited", "ok", "rejected"},
                     active : BOOLEAN, epoch : Nat, highest : Nat, held : BOOLEAN]
      /\ human \in Nat /\ op.epoch \in Nat /\ c.epoch \in Nat
      /\ op \in [kind : {"none", "act", "notify", "look", "claim", "input", "letgo"}, epoch : Nat]
  BY <1>1 DEF HelpersTypeOK, InExchange, LineOfHelper
<1>6. NoOp.kind = "none" /\ NoOp.epoch = 0 /\ LetAllGo.by = "screen" /\ LetAllGo.cmd = "release"
      /\ NoOp \in [kind : {"none", "act", "notify", "look", "claim", "input", "letgo"}, epoch : Nat]
  BY DEF NoOp, LetAllGo
<1> DEFINE e == ByOp(next, op.epoch)
<1>7. e.by = "op" /\ e.cmd = next /\ e.epoch = op.epoch /\ (next # "over" => e \in LineOfHelper)
  BY <1>4, <1>5 DEF ByOp, LineOfHelper
<1>8. m = u \/ (next # "over" /\ Grown(u, m, e)) BY <1>1, <1>7, ChainGrows
<1>9. next = "over" => m = u OBVIOUS
<1> HIDE DEF e, m, next, terminal, u
<1>10. m \in Seq(LineOfHelper) BY <1>1, <1>8 DEF Grown
<1>11. \A i \in DOMAIN u : u[i] = LetAllGo BY <1>1 DEF OfScreen
<1>12. Fits(m, op', screen)
  <2>1. Alone(m) BY <1>1, <1>6, <1>7, <1>8, <1>11 DEF Grown
  <2>2. ASSUME NEW i \in DOMAIN m PROVE IF m[i].by = "op" THEN OfOp(m[i], op') ELSE OfScreen(m[i], screen)
    <3>1. CASE m[i] = e /\ next # "over" BY <1>3, <1>4, <1>7, <3>1 DEF OfOp
    <3>2. CASE i \in DOMAIN u /\ m[i] = u[i] BY <1>1, <1>6, <1>11, <3>2
    <3> QED BY <1>8, <3>1, <3>2 DEF Grown
  <2> QED BY <2>1, <2>2 DEF Fits
<1>13. \/ chain' = m /\ screen' = screen /\ ~(fails /\ screen = "ready")
       \/ screen = "ready" /\ screen' = "failing" /\ chain' = Append(m, LetAllGo)
  BY <1>3 DEF Failing
<1>14. /\ Fits(chain', op', screen')
       /\ chain' = m \/ Grown(m, chain', LetAllGo)
  BY <1>10, <1>12, <1>13, ReleaseFits
<1>15. /\ helper' \in [running : BOOLEAN, terminal : BOOLEAN, stopped : BOOLEAN]
       /\ helper'.running = helper.running /\ helper'.terminal = terminal
       /\ helper'.stopped => helper.stopped \/ screen' = "exiting"
  <2> DEFINE stopped == helper.stopped \/ screen' = "exiting"
  <2>1. stopped \in BOOLEAN OBVIOUS
  <2>2. helper' = [helper EXCEPT !.terminal = terminal, !.stopped = stopped] BY <1>2
  <2> HIDE DEF stopped
  <2>3. /\ helper' \in [running : BOOLEAN, terminal : BOOLEAN, stopped : BOOLEAN]
        /\ helper'.running = helper.running /\ helper'.terminal = terminal /\ helper'.stopped = stopped
    BY <1>5, <2>1, <2>2
  <2> QED BY <2>3 DEF stopped
<1>16. /\ device' \in [line : LineOfHelper \cup {NoLine}, answer : {"none", "awaited", "ok", "rejected"},
                       active : BOOLEAN, epoch : Nat, highest : Nat, held : BOOLEAN]
       /\ device'.line = device.line /\ device'.answer = "none" /\ device'.active = device.active
       /\ device'.epoch = device.epoch /\ device'.highest = device.highest /\ device'.held = device.held
  BY <1>2, <1>5
<1>17. HelpersTypeOK'
  BY <1>10, <1>14, <1>3, <1>5, <1>6, <1>13, <1>2, <1>15, <1>16 DEF Grown, HelpersTypeOK,
     ScreenSteps
<1>18. ChainIsShort' BY <1>14 DEF ChainIsShort, Fits
<1>19. helper.terminal => terminal BY DEF terminal
<1>20. HeadIsExchanged'
  <2>1. device.line # NoLine => terminal
    <3> SUFFICES ASSUME device.line # NoLine, ~helper.terminal PROVE terminal BY <1>19
    <3>1. device.answer = "awaited" BY DEF HeadIsExchanged
    <3> QED BY <1>2, <3>1 DEF terminal, InExchange
  <2> QED BY <1>15, <1>16, <2>1 DEF HeadIsExchanged, InExchange
<1>21. AuthorityIsNewer'
  BY <1>4, <1>6, <1>7, <1>8, <1>11, <1>14, <1>2, <1>3, <1>16 DEF Grown, AuthorityIsNewer
<1>22. AnswerTells' BY <1>16 DEF AnswerTells
<1>23. HeldUnderAuthority' BY <1>15, <1>16 DEF HeldUnderAuthority
<1>24. HelperRunsWithScreen' BY <1>1, <1>3, <1>4, <1>6, <1>13, <1>15 DEF HelperRunsWithScreen
<1>25. HeldIsAnswered'
  <2> SUFFICES ASSUME device.held, ~terminal,
                      screen' \notin {"failing", "stopping", "letgo", "ending", "exiting"}
               PROVE  human' = device.epoch \/ op'.epoch = device.epoch
    BY <1>15, <1>16 DEF HeldIsAnswered
  <2>1. screen' = screen /\ screen = "ready" /\ helper.running /\ ~fails
    BY <1>1, <1>13 DEF HeldUnderAuthority, HelperRunsWithScreen
  <2>2. out = device.answer /\ out \in {"ok", "rejected"}
    BY <1>19, <2>1, <1>2 DEF Healthy, HelperRunsWithScreen, terminal, InExchange
  <2>3. human = device.epoch \/ op.epoch = device.epoch BY <1>19, <2>1 DEF HeldIsAnswered
  <2>4. c.cmd # "authority" BY <2>2 DEF AnswerTells
  <2>5. c.cmd = "release" => device.epoch # op.epoch BY <1>1, <2>2 DEF AnswerTells, OfOp
  <2>6. op.kind # "claim" BY <1>1, <2>4 DEF OfOp
  <2>7. human' = human BY <1>3, <2>1, <2>6
  <2>8. CASE next # "over" BY <1>3, <2>3, <2>7, <2>8
  <2>9. CASE next = "over"
    <3>1. op.kind = "input" \/ c.cmd = "release" BY <1>1, <1>4, <2>4, <2>6, <2>9 DEF OfOp
    <3>2. op.kind = "input" => human = op.epoch BY <2>1 DEF HelperRunsWithScreen
    <3> QED BY <2>3, <2>5, <2>7, <3>1, <3>2
  <2> QED BY <2>8, <2>9
<1> QED BY <1>17, <1>18, <1>20, <1>21, <1>22, <1>23, <1>24, <1>25

\* The head ends that the Screen's end sent.
LEMMA ScreenEndGoesOn ==
  ASSUME HelpersIInv, NEW out \in {"ok", "rejected", "failed"}, HeadEnds(out), chain[1].by # "op"
  PROVE  HelpersIInv'
<1> USE DEF HelpersIInv
<1> DEFINE u == Tail(chain)
           terminal == helper.terminal \/ (out = "failed" /\ InExchange)
<1>1. /\ Shortened(chain, u) /\ chain # <<>> /\ Head(chain) = chain[1] /\ chain \in Seq(LineOfHelper)
      /\ OfScreen(chain[1], screen) /\ (\A i \in DOMAIN u : OfOp(u[i], op) /\ u[i].by = "op") /\ Alone(u)
      /\ u \in Seq(LineOfHelper)
      /\ \A i \in DOMAIN u : u[i].cmd = "authority" /\ ~helper.terminal => device.highest < u[i].epoch
  BY HeadIsOver DEF Shortened
<1>2. /\ ScreenGoesOn(terminal)
      /\ helper' = [helper EXCEPT !.terminal = terminal, !.stopped = @ \/ screen' = "exiting"]
      /\ device' = [device EXCEPT !.answer = "none"] /\ epochs' = epochs
      /\ \/ out = device.answer /\ out \in {"ok", "rejected"}
         \/ out = "failed" /\ (device.answer = "awaited" \/ (~InExchange /\ ~Healthy))
  BY <1>1 DEF HeadEnds
<1>3. LetAllGo \in LineOfHelper /\ LetAllGo.by = "screen" /\ LetAllGo.cmd = "release" BY
  DEF LetAllGo, LineOfHelper
<1>4. /\ op' = op /\ human' = human
      /\ screen \in {"failing", "letgo", "ending"} /\ screen' \in {"stopping", "ending", "exiting"}
      /\ chain' = u \/ (screen' = "ending" /\ chain' = Append(u, LetAllGo))
  BY <1>1, <1>2 DEF ScreenGoesOn, OfScreen
<1>5. /\ terminal \in BOOLEAN
      /\ helper \in [running : BOOLEAN, terminal : BOOLEAN, stopped : BOOLEAN]
      /\ device \in [line : LineOfHelper \cup {NoLine}, answer : {"none", "awaited", "ok", "rejected"},
                     active : BOOLEAN, epoch : Nat, highest : Nat, held : BOOLEAN]
  BY DEF HelpersTypeOK, InExchange
<1> HIDE DEF u
<1>6. chain' = u \/ (screen' = "ending" /\ Grown(u, chain', LetAllGo)) BY <1>1, <1>3, <1>4, ChainGrows
<1>7. helper.terminal => terminal OBVIOUS
<1>8. device.line # NoLine => terminal
  <2> SUFFICES ASSUME device.line # NoLine, ~helper.terminal PROVE terminal BY <1>7
  <2>1. device.answer = "awaited" BY DEF HeadIsExchanged
  <2> QED BY <1>2, <2>1 DEF InExchange
<1> HIDE DEF terminal
<1>9. /\ helper' \in [running : BOOLEAN, terminal : BOOLEAN, stopped : BOOLEAN]
      /\ helper'.running = helper.running /\ helper'.terminal = terminal
  <2> DEFINE stopped == helper.stopped \/ screen' = "exiting"
  <2>1. stopped \in BOOLEAN OBVIOUS
  <2>2. helper' = [helper EXCEPT !.terminal = terminal, !.stopped = stopped] BY <1>2
  <2> HIDE DEF stopped
  <2> QED BY <1>5, <2>1, <2>2
<1>10. /\ device' \in [line : LineOfHelper \cup {NoLine}, answer : {"none", "awaited", "ok", "rejected"},
                       active : BOOLEAN, epoch : Nat, highest : Nat, held : BOOLEAN]
       /\ device'.line = device.line /\ device'.answer = "none" /\ device'.active = device.active
       /\ device'.epoch = device.epoch /\ device'.highest = device.highest /\ device'.held = device.held
  BY <1>2, <1>5
<1>11. HelpersTypeOK' BY <1>1, <1>6, <1>2, <1>4, <1>9, <1>10 DEF Grown, HelpersTypeOK, ScreenSteps
<1>12. ChainIsShort'
  <2>1. Alone(chain') BY <1>1, <1>3, <1>6 DEF Grown
  <2>2. ASSUME NEW i \in DOMAIN chain'
        PROVE  IF chain'[i].by = "op" THEN OfOp(chain'[i], op) ELSE OfScreen(chain'[i], screen')
    BY <1>1, <1>3, <1>6 DEF Grown, OfScreen
  <2> QED BY <1>4, <2>1, <2>2 DEF ChainIsShort
<1>13. HeadIsExchanged' BY <1>8, <1>9, <1>10 DEF HeadIsExchanged, InExchange
<1>14. AuthorityIsNewer'
  <2>1. ASSUME NEW i \in DOMAIN chain', chain'[i].cmd = "authority", ~terminal PROVE device.highest < chain'[i].epoch
    BY <1>1, <1>3, <1>6, <1>7, <2>1 DEF Grown
  <2> QED BY <1>2, <1>4, <1>9, <1>10, <2>1 DEF AuthorityIsNewer
<1>15. AnswerTells' BY <1>10 DEF AnswerTells
<1>16. HeldUnderAuthority' BY <1>9, <1>10 DEF HeldUnderAuthority
<1>17. HelperRunsWithScreen' BY <1>4, <1>9 DEF HelperRunsWithScreen
<1>18. HeldIsAnswered' BY <1>4 DEF HeldIsAnswered
<1> QED BY <1>11, <1>12, <1>13, <1>14, <1>15, <1>16, <1>17, <1>18

\* Every step of the helpers keeps the invariant.
LEMMA HelpersInvariantNext == HelpersIInv /\ [HelpersNext]_helperVars => HelpersIInv'
<1> SUFFICES ASSUME HelpersIInv, [HelpersNext]_helperVars PROVE HelpersIInv' OBVIOUS
<1>0. /\ screen \in ScreenSteps /\ human \in Nat /\ chain \in Seq(LineOfHelper)
      /\ epochs \in [given : Nat, last : Nat] /\ helper.running \in BOOLEAN
      /\ \A step \in {"opens", "closes", "rest", "over"} : step \in ScreenSteps
  BY DEF HelpersIInv, HelpersTypeOK, ScreenSteps
<1>1. screen \in {"opens", "closes", "rest"} => ~helper.running BY DEF HelpersIInv, HelperRunsWithScreen
<1>2. UNCHANGED <<screen, op, human, epochs, helper, chain, device>> => HelpersIInv'
  BY <1>0, HelperLeftAlone
<1>HelpersStart. ASSUME HelpersStart PROVE HelpersIInv' BY <1>HelpersStart, HelpersStartKeeps
  DEF HelpersStart
<1>DeviceTakes. ASSUME NEW r \in BOOLEAN, DeviceTakes(r) PROVE HelpersIInv' BY <1>DeviceTakes, DeviceKeeps
<1>LookEnds. ASSUME NEW r \in BOOLEAN, LookEnds(r) PROVE HelpersIInv'
  <2>1. /\ UNCHANGED <<epochs, helper, device>> /\ op.kind = "look" /\ op' = NoOp
        /\ human' \in Nat /\ Failing(chain, r) /\ (r \/ human' = human)
    BY <1>0, <1>LookEnds DEF LookEnds
  <2>2. \/ chain' = chain /\ screen' = screen /\ (screen = "ready" => ~r)
        \/ chain' = Append(chain, LetAllGo) /\ screen = "ready" /\ screen' = "failing"
    BY <2>1 DEF Failing
  <2>3. human' = human \/ screen' # "ready" BY <2>1, <2>2
  <2> QED BY <2>1, <2>2, <2>3, ReleaseQueued
<1>Exchange. ASSUME Exchange PROVE HelpersIInv'
  BY <1>Exchange, SentKeeps, OperationGoesOn, ScreenEndGoesOn DEF Exchange
<1>HelperExits. ASSUME HelperExits PROVE HelpersIInv' BY <1>HelperExits, HelperExitKeeps
<1>WorkerExits. ASSUME WorkerExits PROVE HelpersIInv' BY <1>2, <1>WorkerExits DEF WorkerExits
<1>Act. ASSUME Act PROVE HelpersIInv'
  <2>1. /\ Begin("act", epochs.last + 1, "authority") /\ UNCHANGED <<screen, human, helper, device>>
        /\ epochs' = [epochs EXCEPT !.last = @ + 1] /\ epochs.last + 1 \in Nat /\ epochs.last < epochs.last + 1
    BY <1>0, <1>Act DEF Act
  <2>2. epochs' \in [given : Nat, last : Nat] /\ epochs'.last = epochs.last + 1 BY <1>0, <2>1
  <2>3. OfOp(ByOp("authority", epochs.last + 1), [kind |-> "act", epoch |-> epochs.last + 1]) BY
    DEF OfOp, ByOp
  <2> QED BY <1>0, <2>1, <2>2, <2>3, OperationBegins
<1>Look. ASSUME Look \/ Notify PROVE HelpersIInv'
  <2>1. PICK kind \in {"look", "notify"} :
          Begin(kind, 0, "none") /\ UNCHANGED <<screen, human, epochs, helper, device>>
    BY <1>Look DEF Look, Notify
  <2> QED BY <1>0, <2>1, OperationBegins
<1>NotifyEnds. ASSUME NotifyEnds PROVE HelpersIInv'
  <2>1. op.kind = "notify" /\ op' = NoOp /\ UNCHANGED <<screen, human, epochs, helper, chain, device>>
    BY <1>NotifyEnds DEF NotifyEnds
  <2> QED BY <1>0, <2>1, ReleaseQueued
<1>Claim. ASSUME Claim PROVE HelpersIInv'
  <2> DEFINE epoch == EpochFor(epochs.given + 1, epochs.last)
  <2>1. /\ Begin("claim", epoch, "authority") /\ UNCHANGED <<screen, human, helper, device>>
        /\ epochs' = [given |-> epochs.given + 1, last |-> epoch]
    BY <1>Claim DEF Claim
  <2>2. epoch \in Nat /\ epochs.last < epoch BY <1>0 DEF EpochFor
  <2>3. epochs' \in [given : Nat, last : Nat] /\ epochs'.last = epoch BY <1>0, <2>1, <2>2
  <2>4. OfOp(ByOp("authority", epoch), [kind |-> "claim", epoch |-> epoch]) BY DEF OfOp, ByOp
  <2> HIDE DEF epoch
  <2> QED BY <1>0, <2>1, <2>2, <2>3, <2>4, OperationBegins
<1>Input. ASSUME NEW cmd \in {"press", "lift"}, Input(cmd) PROVE HelpersIInv'
  <2>1. Begin("input", human, cmd) /\ UNCHANGED <<screen, human, epochs, helper, device>> BY <1>Input
    DEF Input
  <2>2. OfOp(ByOp(cmd, human), [kind |-> "input", epoch |-> human]) BY DEF OfOp, ByOp
  <2> QED BY <1>0, <2>1, <2>2, OperationBegins
<1>LetGo. ASSUME LetGo PROVE HelpersIInv'
  <2>1. /\ Begin("letgo", human, "release") /\ human' = 0 /\ UNCHANGED <<screen, epochs, helper, device>>
    BY <1>LetGo DEF LetGo
  <2>2. OfOp(ByOp("release", human), [kind |-> "letgo", epoch |-> human]) BY DEF OfOp, ByOp
  <2> QED BY <1>0, <2>1, <2>2, OperationBegins
<1>ScreenEnds. ASSUME ScreenEnds PROVE HelpersIInv'
  <2>1. /\ UNCHANGED <<op, epochs, helper, device>> /\ screen = "ready" /\ human' = 0
        /\ screen' = "failing" /\ chain' = Append(chain, LetAllGo)
    BY <1>ScreenEnds DEF ScreenEnds, Failing
  <2> QED BY <2>1, ReleaseQueued
<1>CleanupBegins. ASSUME CleanupBegins PROVE HelpersIInv'
  BY <1>0, <1>CleanupBegins, ReleaseQueued DEF CleanupBegins
<1>HelperGone. ASSUME HelperGone PROVE HelpersIInv'
  BY <1>0, <1>HelperGone, HelperLeftAlone DEF HelperGone, Beyond
<1>StreamsClose. ASSUME StreamsClose \/ StreamsClosed PROVE HelpersIInv'
  BY <1>0, <1>1, <1>StreamsClose, HelperLeftAlone DEF StreamsClose, StreamsClosed, Beyond
<1>RestStops. ASSUME RestStops PROVE HelpersIInv'
  BY <1>0, <1>1, <1>RestStops, HelperLeftAlone DEF RestStops
<1>View. ASSUME NEW v, NEW was, NEW is, View(v, was, is) PROVE HelpersIInv'
  BY <1>2, <1>View DEF View
<1>Stream. ASSUME NEW v \in Views, \/ StreamOpens(v) \/ StreamProgress(v) \/ StreamAsked(v) \/ StreamAnswers(v)
                                   \/ StreamLate(v) \/ StreamBroken(v) \/ StreamLeft(v)
           PROVE  HelpersIInv'
  BY <1>View, <1>Stream DEF StreamOpens, StreamProgress, StreamReady, StreamNotReady, StreamExits,
                            StreamAsked,
     StreamAnswers, StreamLate, StreamBroken, StreamLeft
<1>Stutter. CASE UNCHANGED helperVars BY <1>2, <1>Stutter DEF helperVars
<1> QED
  BY <1>HelpersStart, <1>DeviceTakes, <1>LookEnds, <1>Exchange, <1>HelperExits, <1>WorkerExits, <1>Act,
     <1>Look,
     <1>NotifyEnds, <1>Claim, <1>Input, <1>LetGo, <1>ScreenEnds, <1>CleanupBegins, <1>HelperGone, <1>StreamsClose,
     <1>RestStops, <1>Stream, <1>Stutter DEF HelpersNext, Ending

\* The Bot's actions and a human share the one input helper of a Screen (botScreenWaylandHelpers.ts):
\* authority is never refused, and nothing stays pressed that nobody will let go.
THEOREM InputStaysFenced == HelpersSpec => []InputIsFenced
<1>1. HelpersIInv => InputIsFenced
  <2> SUFFICES ASSUME HelpersIInv PROVE InputIsFenced OBVIOUS
  <2>1. device.answer = "rejected" => Head(chain).cmd # "authority"
    BY DEF HelpersIInv, HelpersTypeOK, AnswerTells, HeadIsExchanged, InExchange
  <2> QED BY <2>1 DEF HelpersIInv, HeldUnderAuthority, HeldIsAnswered, InputIsFenced
<1> QED BY HelpersInvariantInit, HelpersInvariantNext, <1>1, PTL DEF HelpersSpec

-----------------------------------------------------------------------------
(* Plugins. *)

EntryRecord == [source : Sources, gen : Nat, pooled : BOOLEAN,
                phase : {"connecting", "open", "unlisted", "failed", "lost", "closed"}]
SourceRecord == [there : BOOLEAN, on : BOOLEAN, gen : Nat, seen : Nat, ok : BOOLEAN]
RevisionOrNone == Revisions \cup {NoRevision}

ConfigTyped == config \in [Sources -> SourceRecord]

\* Connections are numbered; Turns and checks hold some of them, a Turn only while it uses them.
PoolTyped ==
  /\ \E n \in 0..MaxEntries : pool \in [1..n -> EntryRecord]
  /\ lease \in [Leases -> [phase : {"idle", "opening", "held", "ended"}, entries : SUBSET Entries,
                           dirs : SUBSET RevisionOrNone]]
  /\ \A l \in Leases : lease[l].phase = "idle" => lease[l].entries = {}
  /\ checks \in SUBSET Entries

OthersTyped ==
  /\ grants \in [pending : SUBSET [account : Accounts, known : BOOLEAN, phase : {"asked", "exchanging"}],
                 refreshing : SUBSET Nat, refused : SUBSET Nat]
  /\ skill \in [there : BOOLEAN, on : BOOLEAN, rev : RevisionOrNone, pass : {"none", "listed", "waiting"},
                install : [phase : {"none", "fetching", "materialized"}, existed : BOOLEAN, rev : RevisionOrNone]]
  /\ dirs \in [kept : SUBSET Revisions, removing : SUBSET Revisions]
  /\ service \in [edits : Nat, gen : Nat, stopping : BOOLEAN]

\* Of a source as it is configured there is one connection in the pool; the pool has those that work; and a
\* Turn holds one connection of a source.
PoolIsSound ==
  /\ \A i, j \in Entries :
       pool[i].pooled /\ pool[j].pooled /\ pool[i].source = pool[j].source /\ pool[i].gen = pool[j].gen
         => i = j
  /\ \A i \in Entries : pool[i].pooled <=> pool[i].phase \in {"connecting", "open", "unlisted"}
  /\ \A l \in Leases : \A i, j \in lease[l].entries : pool[i].source = pool[j].source => i = j

\* No connection is closed while it is held, and none that is not held outlives its configuration.
HeldIsOpen ==
  ~service.stopping => \A i \in Entries :
     /\ pool[i].phase = "closed" => i \notin HeldBy(lease, checks)
     /\ pool[i].pooled /\ i \notin HeldBy(lease, checks) => Keep(config, pool[i])

\* What the user last made of the Skill, or that a pass brought it back.
SkillIsWanted(sk, w) ==
  sk.there => \/ w = IF sk.on THEN "on" ELSE "off"
              \/ w = "revived" /\ sk.on

\* A first installation is of a Skill that is not there: the user wants it, or a pass brings it back.
InstallIsWanted ==
  /\ skill.install.phase # "none" /\ ~skill.install.existed => ~skill.there
  /\ ~skill.there => wanted \in {"on", "none"}

PluginsIInv ==
  /\ ConfigTyped /\ PoolTyped /\ OthersTyped
  /\ PoolIsSound /\ HeldIsOpen /\ InstallIsWanted /\ LateResultsAreOwn

\* The invariant of the plugins holds at first.
LEMMA PluginsInvariantInit == PluginsInit => PluginsIInv
<1> SUFFICES ASSUME PluginsInit PROVE PluginsIInv OBVIOUS
<1> USE DEF PluginsInit
<1>1. DOMAIN pool = {} /\ pool \in [1..0 -> EntryRecord] /\ 0 \in 0..MaxEntries
  BY PluginsAssumption
<1>2. ConfigTyped BY DEF ConfigTyped, SourceRecord
<1>3. PoolTyped BY <1>1 DEF PoolTyped
<1>4. OthersTyped BY DEF OthersTyped, RevisionOrNone, NoInstall
<1>5. PoolIsSound /\ HeldIsOpen BY <1>1 DEF PoolIsSound, HeldIsOpen, Entries
<1>6. InstallIsWanted /\ LateResultsAreOwn BY DEF InstallIsWanted, LateResultsAreOwn, NoInstall, Sources
<1> QED BY <1>2, <1>3, <1>4, <1>5, <1>6 DEF PluginsIInv

\* Who holds a connection.
LEMMA HeldMeans ==
  ASSUME NEW ls, NEW cs, NEW i
  PROVE  i \in HeldBy(ls, cs) <=> (i \in cs \/ \E l \in Leases : i \in ls[l].entries)
BY DEF HeldBy

\* A count of holders is a count of those who hold.
LEMMA HoldersCount ==
  ASSUME NEW i
  PROVE  Holders(i) = 0 <=> i \notin HeldBy(lease, checks)
<1> DEFINE L == {l \in Leases : i \in lease[l].entries}
           C == {c \in checks : c = i}
<1>1. IsFiniteSet(L) BY PluginsAssumption, FS_Subset
<1>2. IsFiniteSet(C) BY FS_Singleton, FS_Subset, C \in SUBSET {i}
<1>3. /\ Cardinality(L) \in Nat /\ Cardinality(C) \in Nat
      /\ Cardinality(L) = 0 <=> L = {}
      /\ Cardinality(C) = 0 <=> C = {}
  BY <1>1, <1>2, FS_CardinalityType, FS_EmptySet
<1>4. Holders(i) = 0 <=> Cardinality(L) = 0 /\ Cardinality(C) = 0
  BY <1>3 DEF Holders
<1>5. L = {} /\ C = {} <=> i \notin HeldBy(lease, checks) BY HeldMeans
<1> QED BY <1>3, <1>4, <1>5

\* What there is of the pool after some entries were reaped.
ReapedFrom(p, cfg, held, stopping, q) ==
  /\ DOMAIN q = DOMAIN p
  /\ \A i \in DOMAIN p :
       /\ q[i].source = p[i].source /\ q[i].gen = p[i].gen
       /\ IF p[i].pooled /\ i \notin held /\ (stopping \/ ~Keep(cfg, p[i]))
          THEN ~q[i].pooled /\ q[i].phase = "closed" ELSE q[i] = p[i]
       /\ q[i] \in EntryRecord

\* #reap closes what is idle and no longer configured, and nothing else.
LEMMA Reaping ==
  ASSUME NEW n \in Nat, NEW p \in [1..n -> EntryRecord], NEW cfg, NEW held, NEW stopping
  PROVE  /\ Reaped(p, cfg, held, stopping) \in [1..n -> EntryRecord]
         /\ ReapedFrom(p, cfg, held, stopping, Reaped(p, cfg, held, stopping))
<1> DEFINE q == Reaped(p, cfg, held, stopping)
<1>1. DOMAIN p = 1..n /\ \A i \in 1..n : p[i] \in EntryRecord OBVIOUS
<1>2. q = [i \in 1..n |-> IF p[i].pooled /\ i \notin held /\ (stopping \/ ~Keep(cfg, p[i]))
                          THEN [p[i] EXCEPT !.pooled = FALSE, !.phase = "closed"] ELSE p[i]]
  BY <1>1 DEF Reaped, Idle
<1> HIDE DEF q
<1>3. \A i \in 1..n : [p[i] EXCEPT !.pooled = FALSE, !.phase = "closed"] \in EntryRecord
  BY <1>1 DEF EntryRecord
<1>4. q \in [1..n -> EntryRecord] BY <1>1, <1>2, <1>3
<1>5. ReapedFrom(p, cfg, held, stopping, q)
  <2> SUFFICES ASSUME NEW i \in 1..n
               PROVE  /\ q[i].source = p[i].source /\ q[i].gen = p[i].gen
                      /\ IF p[i].pooled /\ i \notin held /\ (stopping \/ ~Keep(cfg, p[i]))
                         THEN ~q[i].pooled /\ q[i].phase = "closed" ELSE q[i] = p[i]
    BY <1>1, <1>4 DEF ReapedFrom
  <2>1. CASE p[i].pooled /\ i \notin held /\ (stopping \/ ~Keep(cfg, p[i]))
    <3>1. q[i] = [p[i] EXCEPT !.pooled = FALSE, !.phase = "closed"] BY <1>2, <2>1
    <3> QED BY <1>1, <2>1, <3>1 DEF EntryRecord
  <2>2. CASE ~(p[i].pooled /\ i \notin held /\ (stopping \/ ~Keep(cfg, p[i])))
    BY <1>2, <2>2
  <2> QED BY <2>1, <2>2
<1> QED BY <1>4, <1>5 DEF q

\* The pool p after the sources ss were asked for: each has its connection, the new ones connect.
AskedPool(p, ss) ==
  /\ Entries \subseteq DOMAIN p
  /\ \A i \in DOMAIN p : p[i] \in EntryRecord
  /\ \A i \in Entries : /\ p[i].source = pool[i].source /\ p[i].gen = pool[i].gen /\ p[i].pooled = pool[i].pooled
                        /\ \/ p[i].phase = pool[i].phase
                           \/ pool[i].phase = "unlisted" /\ p[i].phase = "connecting"
  /\ \A i \in DOMAIN p \ Entries :
       /\ p[i].source \in ss /\ p[i].gen = config[p[i].source].gen /\ p[i].pooled /\ p[i].phase = "connecting"
       /\ PooledFor(pool, p[i].source) = {}
       /\ \A j \in DOMAIN p \ Entries : p[i].source = p[j].source => i = j

\* #connection and #tools for a set of sources.
LEMMA Asking ==
  ASSUME ConfigTyped, PoolTyped, PoolIsSound, NEW ss \in SUBSET Sources,
         Cardinality(DOMAIN Asked(ss)) <= MaxEntries
  PROVE  /\ AskedPool(Asked(ss), ss)
         /\ \E n \in 0..MaxEntries : Asked(ss) \in [1..n -> EntryRecord]
<1>1. PICK n \in 0..MaxEntries : pool \in [1..n -> EntryRecord] BY DEF PoolTyped
<1>2. /\ n \in Nat /\ MaxEntries \in Nat /\ Entries = 1..n /\ Cardinality(Entries) = n
      /\ \A i \in 1..n : pool[i] \in EntryRecord
  <2>1. n \in Nat /\ MaxEntries \in Nat /\ Entries = 1..n BY <1>1, PluginsAssumption DEF Entries
  <2>2. Cardinality(1..n) = n BY <2>1, FS_Interval
  <2> QED BY <1>1, <2>1, <2>2
<1> DEFINE new == {s \in ss : PooledFor(pool, s) = {}}
           k == Cardinality(new)
           at == CHOOSE f \in [new -> n + 1 .. n + k] : \A s, t \in new : f[s] = f[t] => s = t
<1>3. IsFiniteSet(new) /\ k \in Nat
  BY PluginsAssumption, FS_Union, FS_Subset, new \in SUBSET Sources, FS_CardinalityType DEF Sources
<1>4. IsFiniteSet(n + 1 .. n + k) /\ Cardinality(n + 1 .. n + k) = k
  <2> HIDE DEF k
  <2> DEFINE a == n + 1
             b == n + k
  <2>1. a \in Int /\ b \in Int /\ b - a + 1 = k /\ k \in Nat /\ (a > b => k = 0) BY <1>2, <1>3
  <2> HIDE DEF a, b
  <2>2. IsFiniteSet(a .. b) /\ Cardinality(a .. b) = IF a > b THEN 0 ELSE b - a + 1 BY <2>1, FS_Interval
  <2>3. IsFiniteSet(a .. b) /\ Cardinality(a .. b) = k BY <2>1, <2>2
  <2> QED BY <2>3 DEF a, b
<1>5. at \in [new -> n + 1 .. n + k] /\ \A s, t \in new : at[s] = at[t] => s = t
  <2>1. PICK f : f \in Bijection(new, n + 1 .. n + k)
    BY <1>3, <1>4, FS_SameCardinalityBij DEF ExistsBijection
  <2>2. f \in [new -> n + 1 .. n + k] /\ \A s, t \in new : f[s] = f[t] => s = t
    BY <2>1 DEF Bijection, Injection, IsInjective
  <2> QED BY <2>2
<1> HIDE DEF at
<1>6. \A i \in n + 1 .. n + k : \E s \in new : at[s] = i
  <2>1. at \in Injection(new, n + 1 .. n + k) BY <1>5 DEF Injection, IsInjective
  <2>2. at \in Surjection(new, n + 1 .. n + k) BY <1>3, <1>4, <2>1, FS_Injection
  <2> QED BY <2>2 DEF Surjection
<1> DEFINE of(i) == CHOOSE t \in new : at[t] = i
<1>7. \A i \in n + 1 .. n + k : of(i) \in new /\ at[of(i)] = i BY <1>6
<1> DEFINE w == [i \in 1 .. n + k |-> IF i \in 1..n THEN pool[i]
                                      ELSE [source |-> of(i), gen |-> config[of(i)].gen, pooled |-> TRUE,
                                            phase |-> "connecting"]]
<1>8. WithConnections(ss) = w BY <1>2 DEF WithConnections, at
<1> HIDE DEF of, new, k
<1>9. \A i \in 1 .. n + k : i \in 1..n \/ i \in n + 1 .. n + k BY <1>2, <1>3
<1>10. /\ DOMAIN w = 1 .. n + k /\ 1..n \subseteq 1 .. n + k
       /\ \A i \in 1..n : w[i] = pool[i]
       /\ \A i \in n + 1 .. n + k : /\ i \notin 1..n
                                    /\ w[i] = [source |-> of(i), gen |-> config[of(i)].gen, pooled |-> TRUE,
                                               phase |-> "connecting"]
  BY <1>2, <1>3
<1> HIDE DEF w
<1>11. \A i \in n + 1 .. n + k : w[i] \in EntryRecord /\ w[i].source = of(i) /\ w[i].gen = config[of(i)].gen
                                 /\ w[i].pooled /\ w[i].phase = "connecting"
  <2> SUFFICES ASSUME NEW i \in n + 1 .. n + k
               PROVE  w[i] \in EntryRecord /\ w[i].source = of(i) /\ w[i].gen = config[of(i)].gen
                      /\ w[i].pooled /\ w[i].phase = "connecting"
    OBVIOUS
  <2>1. of(i) \in Sources BY <1>7 DEF new
  <2>2. config[of(i)].gen \in Nat BY <2>1 DEF ConfigTyped, SourceRecord
  <2>3. w[i] = [source |-> of(i), gen |-> config[of(i)].gen, pooled |-> TRUE, phase |-> "connecting"]
    BY <1>10
  <2> HIDE DEF of
  <2> QED BY <2>1, <2>2, <2>3 DEF EntryRecord
<1>12. \A i \in 1 .. n + k : w[i] \in EntryRecord BY <1>2, <1>9, <1>10, <1>11
<1> DEFINE p == Asked(ss)
           again(i) == w[i].phase = "unlisted" /\ i \in EntriesFor(pool, ss)
<1>13. p = [i \in 1 .. n + k |-> IF again(i) THEN [w[i] EXCEPT !.phase = "connecting"] ELSE w[i]]
  BY <1>8, <1>10 DEF Asked
<1> HIDE DEF p, again
<1>14. /\ DOMAIN p = 1 .. n + k
       /\ \A i \in 1 .. n + k : /\ p[i] \in EntryRecord /\ p[i].source = w[i].source /\ p[i].gen = w[i].gen
                                /\ p[i].pooled = w[i].pooled
                                /\ p[i].phase = IF again(i) THEN "connecting" ELSE w[i].phase
  <2>1. DOMAIN p = 1 .. n + k BY <1>13
  <2>2. ASSUME NEW i \in 1 .. n + k
        PROVE  /\ p[i] \in EntryRecord /\ p[i].source = w[i].source /\ p[i].gen = w[i].gen
               /\ p[i].pooled = w[i].pooled
               /\ p[i].phase = IF again(i) THEN "connecting" ELSE w[i].phase
    <3>1. CASE again(i)
      <4>1. p[i] = [w[i] EXCEPT !.phase = "connecting"] BY <1>13, <3>1
      <4> QED BY <1>12, <3>1, <4>1 DEF EntryRecord
    <3>2. CASE ~again(i)
      <4>1. p[i] = w[i] BY <1>13, <3>2
      <4> QED BY <1>12, <3>2, <4>1
    <3> QED BY <3>1, <3>2
  <2> QED BY <2>1, <2>2
<1>15. AskedPool(p, ss)
  <2>1. ASSUME NEW i \in Entries
        PROVE  /\ p[i].source = pool[i].source /\ p[i].gen = pool[i].gen /\ p[i].pooled = pool[i].pooled
               /\ p[i].phase = pool[i].phase \/ (pool[i].phase = "unlisted" /\ p[i].phase = "connecting")
    <3>1. i \in 1..n /\ i \in 1 .. n + k /\ w[i] = pool[i] BY <1>2, <1>10
    <3> QED BY <1>14, <3>1 DEF again
  <2>2. ASSUME NEW i \in DOMAIN p \ Entries
        PROVE  /\ i \in n + 1 .. n + k
               /\ p[i].source = of(i) /\ p[i].gen = config[of(i)].gen /\ p[i].pooled /\ p[i].phase = "connecting"
               /\ of(i) \in new /\ at[of(i)] = i
    <3>1. i \in n + 1 .. n + k /\ i \in 1 .. n + k BY <1>2, <1>9, <1>14
    <3> QED BY <1>7, <1>11, <1>14, <3>1
  <2>3. \A i \in DOMAIN p : p[i] \in EntryRecord BY <1>14
  <2>4. Entries \subseteq DOMAIN p BY <1>2, <1>10, <1>14
  <2>5. \A i \in DOMAIN p \ Entries : of(i) \in ss /\ PooledFor(pool, of(i)) = {} BY <2>2 DEF new
  <2>6. \A i, j \in DOMAIN p \ Entries : of(i) = of(j) => i = j BY <2>2
  <2> QED BY <2>1, <2>2, <2>3, <2>4, <2>5, <2>6 DEF AskedPool
<1>16. n + k \in 0..MaxEntries
  <2>1. 1 \in Int /\ n + k \in Int /\ n + k \in Nat BY <1>2, <1>3
  <2>2. Cardinality(1 .. n + k) = n + k BY <2>1, FS_Interval
  <2>3. Cardinality(DOMAIN p) <= MaxEntries BY DEF p
  <2> QED BY <1>2, <1>14, <2>1, <2>2, <2>3
<1>17. p \in [1 .. n + k -> EntryRecord]
  BY <1>13, <1>14
<1> QED BY <1>15, <1>16, <1>17 DEF p

\* What is known of connections is recorded for their sources; es has one connection of a source at most.
LEMMA Recording ==
  ASSUME ConfigTyped, NEW es \in SUBSET EntryRecord, \A e, f \in es : e.source = f.source => e = f
  PROVE  /\ Recorded(es) \in [Sources -> SourceRecord]
         /\ \A s \in Sources : /\ Recorded(es)[s].there = config[s].there /\ Recorded(es)[s].on = config[s].on
                               /\ Recorded(es)[s].gen = config[s].gen /\ Recorded(es)[s].ok = config[s].ok
                               /\ Recorded(es)[s].seen \in {config[s].seen, config[s].gen}
<1> DEFINE c == Recorded(es)
           e(s) == CHOOSE x \in es : x.source = s
           new(s) == config[s].ok /\ \E x \in es : x.source = s /\ Own(x)
<1>0. \A s \in Sources : config[s] \in SourceRecord BY DEF ConfigTyped
<1>1. c = [s \in Sources |-> IF new(s) THEN [config[s] EXCEPT !.seen = e(s).gen] ELSE config[s]]
  BY DEF Recorded
<1>2. ASSUME NEW s \in Sources, new(s) PROVE e(s).gen = config[s].gen /\ e(s).gen \in Nat
  <2>1. PICK x \in es : x.source = s /\ Own(x) BY <1>2
  <2>2. e(s) \in es /\ e(s).source = s BY <2>1
  <2>3. e(s) = x BY <2>1, <2>2
  <2> QED BY <2>1, <2>3 DEF Own, EntryRecord
<1> HIDE DEF c, e, new
<1>3. ASSUME NEW s \in Sources
      PROVE  /\ c[s] \in SourceRecord
             /\ c[s].there = config[s].there /\ c[s].on = config[s].on
             /\ c[s].gen = config[s].gen /\ c[s].ok = config[s].ok
             /\ c[s].seen \in {config[s].seen, config[s].gen}
  <2>1. CASE new(s)
    <3>1. c[s] = [config[s] EXCEPT !.seen = e(s).gen] BY <1>1, <2>1
    <3> QED BY <1>0, <1>2, <2>1, <3>1 DEF SourceRecord
  <2>2. CASE ~new(s)
    <3>1. c[s] = config[s] BY <1>1, <2>2
    <3> QED BY <1>0, <3>1
  <2> QED BY <2>1, <2>2
<1>4. c \in [Sources -> SourceRecord] BY <1>1, <1>3
<1> QED BY <1>3, <1>4 DEF c

\* The sources are configured as before.
SameConfigured(c) ==
  \A s \in Sources : c[s].there = config[s].there /\ c[s].on = config[s].on /\ c[s].gen = config[s].gen

\* Whether a connection is still configured depends on what is configured only.
LEMMA KeepStays ==
  ASSUME NEW c, SameConfigured(c), NEW e, e.source \in Sources
  PROVE  Keep(c, e) <=> Keep(config, e)
BY DEF SameConfigured, Keep

\* The invariant of the pool.
PoolInvariant == PoolTyped /\ PoolIsSound /\ HeldIsOpen

\* Of a typed pool, entry by entry.
LEMMA PoolEntries ==
  ASSUME PoolTyped
  PROVE  \A i \in Entries : pool[i] \in EntryRecord /\ pool[i].source \in Sources /\ pool[i].gen \in Nat
                            /\ pool[i].pooled \in BOOLEAN
<1>1. PICK n \in 0..MaxEntries : pool \in [1..n -> EntryRecord] BY DEF PoolTyped
<1>2. \A i \in Entries : pool[i] \in EntryRecord BY <1>1 DEF Entries
<1> QED BY <1>2 DEF EntryRecord

\* The pool, its holders and what is configured stay.
LEMMA PoolStays ==
  ASSUME PoolInvariant, UNCHANGED <<pool, lease, checks>>, SameConfigured(config'),
         service'.stopping \in {service.stopping, TRUE}
  PROVE  PoolInvariant'
<1> USE DEF PoolInvariant
<1>1. Entries' = Entries BY DEF Entries
<1>2. PoolTyped' BY <1>1 DEF PoolTyped
<1>3. PoolIsSound' BY <1>1 DEF PoolIsSound
<1>4. HeldIsOpen' BY PoolEntries, KeepStays, <1>1 DEF HeldBy, HeldIsOpen
<1> QED BY <1>2, <1>3, <1>4

\* The holders of connections let go, or what is configured changes; then what is idle is reaped.
LEMMA PoolIsReaped ==
  ASSUME PoolInvariant,
         lease' \in [Leases -> [phase : {"idle", "opening", "held", "ended"}, entries : SUBSET Entries,
                                dirs : SUBSET RevisionOrNone]],
         \A l \in Leases : lease'[l].entries \in {lease[l].entries, {}},
         \A l \in Leases : lease'[l].phase = "idle" => lease'[l].entries = {},
         checks' \in SUBSET checks,
         pool' = Reaped(pool, config', HeldBy(lease', checks'), service.stopping),
         service'.stopping = service.stopping
  PROVE  PoolInvariant'
<1> USE DEF PoolInvariant
<1>1. PICK n \in 0..MaxEntries : pool \in [1..n -> EntryRecord] BY DEF PoolTyped
<1>2. n \in Nat BY PluginsAssumption
<1> DEFINE held == HeldBy(lease', checks')
           stopping == service.stopping
<1>3. pool' \in [1..n -> EntryRecord] /\ ReapedFrom(pool, config', held, stopping, pool')
  BY <1>1, <1>2, Reaping
<1>4. Entries' = Entries /\ Entries = 1..n BY <1>1, <1>3 DEF Entries
<1>5. \A i \in Entries :
        /\ pool'[i].source = pool[i].source /\ pool'[i].gen = pool[i].gen
        /\ IF pool[i].pooled /\ i \notin held /\ (stopping \/ ~Keep(config', pool[i]))
           THEN ~pool'[i].pooled /\ pool'[i].phase = "closed" ELSE pool'[i] = pool[i]
  BY <1>3, <1>4 DEF ReapedFrom, Entries
<1>6. held \subseteq HeldBy(lease, checks) BY HeldMeans
<1> HIDE DEF held
<1>7. PoolTyped' BY <1>3, <1>4 DEF PoolTyped
<1>8. PoolIsSound'
  <2>1. \A i, j \in Entries : pool'[i].pooled /\ pool'[j].pooled /\ pool'[i].source = pool'[j].source
                              /\ pool'[i].gen = pool'[j].gen => i = j BY <1>5 DEF PoolIsSound
  <2>2. \A i \in Entries : pool'[i].pooled <=> pool'[i].phase \in {"connecting", "open", "unlisted"}
    <3> SUFFICES ASSUME NEW i \in Entries
                 PROVE pool'[i].pooled <=> pool'[i].phase \in {"connecting", "open", "unlisted"}
      OBVIOUS
    <3>1. pool[i].pooled <=> pool[i].phase \in {"connecting", "open", "unlisted"} BY DEF PoolIsSound
    <3> QED BY <1>5, <3>1
  <2>3. \A l \in Leases : \A i, j \in lease'[l].entries : pool'[i].source = pool'[j].source => i = j
    <3> SUFFICES ASSUME NEW l \in Leases, NEW i \in lease'[l].entries, NEW j \in lease'[l].entries,
                        pool'[i].source = pool'[j].source
                 PROVE i = j
      OBVIOUS
    <3>1. i \in Entries /\ j \in Entries /\ i \in lease[l].entries /\ j \in lease[l].entries OBVIOUS
    <3>2. pool[i].source = pool[j].source BY <1>5, <3>1
    <3> QED BY <3>1, <3>2 DEF PoolIsSound
  <2> QED BY <1>4, <2>1, <2>2, <2>3 DEF PoolIsSound
<1>9. HeldIsOpen'
  <2> SUFFICES ASSUME ~service.stopping, NEW i \in Entries
               PROVE  /\ pool'[i].phase = "closed" => i \notin held
                      /\ pool'[i].pooled /\ i \notin held => Keep(config', pool'[i])
    BY <1>4 DEF HeldIsOpen, held
  <2>1. pool[i].phase = "closed" => i \notin held BY <1>6 DEF HeldIsOpen
  <2>2. Keep(config', pool'[i]) <=> Keep(config', pool[i]) BY <1>5 DEF Keep
  <2> QED BY <1>5, <2>1, <2>2
<1> QED BY <1>7, <1>8, <1>9

\* Entries settle or are lost: none is closed, and none comes to the pool.
LEMMA PoolSettles ==
  ASSUME PoolInvariant, UNCHANGED <<lease, checks>>, SameConfigured(config'),
         service'.stopping = service.stopping, NEW i \in Entries, NEW e \in EntryRecord,
         pool' = [pool EXCEPT ![i] = e], e.source = pool[i].source, e.gen = pool[i].gen,
         e.pooled => pool[i].pooled, e.pooled <=> e.phase \in {"connecting", "open", "unlisted"},
         e.phase # "closed"
  PROVE  PoolInvariant'
<1> USE DEF PoolInvariant
<1>1. PICK n \in 0..MaxEntries : pool \in [1..n -> EntryRecord] BY DEF PoolTyped
<1>2. pool' \in [1..n -> EntryRecord] /\ Entries' = Entries BY <1>1 DEF Entries
<1>3. \A j \in Entries : pool'[j] = IF j = i THEN e ELSE pool[j] BY DEF Entries
<1>4. \A j \in Entries : /\ pool'[j].source = pool[j].source /\ pool'[j].gen = pool[j].gen
                         /\ pool'[j].pooled => pool[j].pooled
                         /\ pool'[j].phase = "closed" => pool[j].phase = "closed"
                         /\ pool'[j].pooled <=> pool'[j].phase \in {"connecting", "open", "unlisted"}
  BY <1>3 DEF PoolIsSound
<1>5. PoolTyped' BY <1>2 DEF PoolTyped
<1>6. PoolIsSound' BY <1>2, <1>4 DEF PoolTyped, PoolIsSound
<1>7. HeldIsOpen' BY <1>4, PoolEntries, KeepStays, <1>2 DEF Keep, HeldBy, HeldIsOpen
<1> QED BY <1>5, <1>6, <1>7

\* The pool is asked for some sources, and all their connections are held from then on.
LEMMA PoolIsAsked ==
  ASSUME PoolInvariant, ConfigTyped, NEW ss \in SUBSET Sources, pool' = Asked(ss),
         Cardinality(DOMAIN Asked(ss)) <= MaxEntries, SameConfigured(config'),
         service'.stopping = service.stopping,
         lease' \in [Leases -> [phase : {"idle", "opening", "held", "ended"}, entries : SUBSET DOMAIN pool',
                                dirs : SUBSET RevisionOrNone]],
         \A l \in Leases : \/ lease'[l].entries = lease[l].entries
                           \/ lease'[l].entries = EntriesFor(pool', ss) /\ lease[l].entries = {},
         \A l \in Leases : lease'[l].phase = "idle" => lease'[l].entries = {},
         checks' \in {checks, EntriesFor(pool', ss)}, checks \in {checks', {}},
         EntriesFor(pool', ss) \subseteq HeldBy(lease', checks')
  PROVE  PoolInvariant'
<1> USE DEF PoolInvariant
<1> DEFINE H == EntriesFor(pool', ss)
<1>1. AskedPool(pool', ss) /\ \E n \in 0..MaxEntries : pool' \in [1..n -> EntryRecord] BY Asking
<1>2. Entries' = DOMAIN pool' /\ Entries \subseteq Entries' BY <1>1 DEF AskedPool, Entries
<1>3. \A i \in Entries :
        /\ pool'[i].source = pool[i].source /\ pool'[i].gen = pool[i].gen /\ pool'[i].pooled = pool[i].pooled
        /\ pool'[i].phase = pool[i].phase \/ (pool[i].phase = "unlisted" /\ pool'[i].phase = "connecting")
  BY <1>1 DEF AskedPool
<1>4. \A i \in Entries' \ Entries :
        /\ pool'[i].source \in ss /\ pool'[i].gen = config[pool'[i].source].gen /\ pool'[i].pooled
        /\ pool'[i].phase = "connecting" /\ PooledFor(pool, pool'[i].source) = {}
        /\ \A j \in Entries' \ Entries : pool'[i].source = pool'[j].source => i = j
  BY <1>1, <1>2 DEF AskedPool
<1>5. \A i \in Entries' : pool'[i].pooled <=> pool'[i].phase \in {"connecting", "open", "unlisted"}
  BY <1>3, <1>4 DEF PoolIsSound
<1>6. H = {i \in Entries' : pool'[i].pooled /\ pool'[i].source \in ss
                            /\ pool'[i].gen = config[pool'[i].source].gen}
  BY <1>2 DEF EntriesFor, PooledFor
<1>7. \A i, j \in Entries' : pool'[i].pooled /\ pool'[j].pooled /\ pool'[i].source = pool'[j].source
                             /\ pool'[i].gen = pool'[j].gen => i = j
  <2> SUFFICES ASSUME NEW i \in Entries', NEW j \in Entries', pool'[i].pooled, pool'[j].pooled,
                      pool'[i].source = pool'[j].source, pool'[i].gen = pool'[j].gen
               PROVE i = j
    OBVIOUS
  <2>1. ASSUME NEW x \in Entries, NEW y \in Entries' \ Entries, pool'[x].pooled,
               pool'[x].source = pool'[y].source, pool'[x].gen = pool'[y].gen
        PROVE FALSE
    <3>1. x \in PooledFor(pool, pool'[y].source) BY <1>3, <1>4, <2>1 DEF PooledFor, Entries
    <3> QED BY <1>4, <3>1
  <2>2. CASE i \in Entries /\ j \in Entries BY <1>3, <2>2 DEF PoolIsSound
  <2>3. CASE i \in Entries /\ j \notin Entries BY <2>1, <2>3
  <2>4. CASE i \notin Entries /\ j \in Entries BY <2>1, <2>4
  <2>5. CASE i \notin Entries /\ j \notin Entries BY <1>4, <2>5
  <2> QED BY <2>2, <2>3, <2>4, <2>5
<1>8. \A i, j \in H : pool'[i].source = pool'[j].source => i = j BY <1>6, <1>7
<1> HIDE DEF H
<1>9. PoolTyped' BY <1>6, <1>2, <1>1 DEF PoolTyped, H
<1>10. PoolIsSound'
  <2>1. \A l \in Leases : \A i, j \in lease'[l].entries : pool'[i].source = pool'[j].source => i = j
    <3> SUFFICES ASSUME NEW l \in Leases, NEW i \in lease'[l].entries, NEW j \in lease'[l].entries,
                        pool'[i].source = pool'[j].source
                 PROVE i = j
      OBVIOUS
    <3>1. CASE lease'[l].entries = H BY <1>8, <3>1
    <3>2. CASE lease'[l].entries = lease[l].entries
      <4>1. i \in Entries /\ j \in Entries BY <3>2 DEF PoolTyped
      <4>2. pool[i].source = pool[j].source BY <1>3, <4>1
      <4> QED BY <3>2, <4>2 DEF PoolIsSound
    <3> QED BY <3>1, <3>2 DEF H
  <2> QED BY <1>5, <1>7, <2>1 DEF PoolIsSound
<1>11. HeldBy(lease', checks') = HeldBy(lease, checks) \cup H
  <2>1. ASSUME NEW i \in HeldBy(lease', checks') PROVE i \in HeldBy(lease, checks) \cup H
    <3>1. CASE i \in checks' BY <3>1, HeldMeans DEF H
    <3>2. CASE \E l \in Leases : i \in lease'[l].entries BY <3>2, HeldMeans DEF H
    <3> QED BY <2>1, <3>1, <3>2, HeldMeans
  <2>2. ASSUME NEW i \in HeldBy(lease, checks) PROVE i \in HeldBy(lease', checks')
    <3>1. CASE i \in checks BY <3>1, HeldMeans
    <3>2. CASE \E l \in Leases : i \in lease[l].entries BY <3>2, HeldMeans
    <3> QED BY <2>2, <3>1, <3>2, HeldMeans
  <2> QED BY <2>1, <2>2 DEF H
<1>12. HeldIsOpen'
  <2> SUFFICES ASSUME ~service.stopping, NEW i \in Entries'
               PROVE  /\ pool'[i].phase = "closed" => i \notin HeldBy(lease', checks')
                      /\ pool'[i].pooled /\ i \notin HeldBy(lease', checks') => Keep(config', pool'[i])
    BY DEF HeldIsOpen
  <2>1. CASE i \in Entries
    <3>1. pool'[i].phase = "closed" => i \notin HeldBy(lease, checks) BY <1>3, <2>1 DEF HeldIsOpen
    <3>2. pool'[i].phase = "closed" => i \notin H BY <1>5, <1>6
    <3>3. Keep(config', pool'[i]) <=> Keep(config, pool[i])
      BY <1>3, <2>1, PoolEntries, KeepStays DEF Keep
    <3>4. pool[i].pooled /\ i \notin HeldBy(lease, checks) => Keep(config, pool[i]) BY <2>1
      DEF HeldIsOpen
    <3> QED BY <1>3, <1>11, <2>1, <3>1, <3>2, <3>3, <3>4
  <2>2. CASE i \notin Entries
    <3>1. i \in H BY <1>4, <1>6, <2>2
    <3>2. pool'[i].phase # "closed" BY <1>4, <2>2
    <3> QED BY <1>11, <3>1, <3>2
  <2> QED BY <2>1, <2>2
<1> QED BY <1>9, <1>10, <1>12

\* What is recorded of the sources of a configuration c, and the grants that were refused.
Told(c, refused) ==
  /\ \A s \in Sources : c[s].seen \in {0, c[s].gen}
  /\ \A a \in Accounts : ~c[a].ok => c[a].gen \in refused

\* The invariant of the Skill.
SkillInvariant ==
  InstallIsWanted /\ SkillIsWanted(skill, wanted)

\* The invariant in the parts that actions disturb.
LEMMA InvariantInParts ==
  PluginsIInv <=> /\ PoolInvariant /\ ConfigTyped /\ OthersTyped
                  /\ Told(config, grants.refused) /\ SkillInvariant
BY DEF PluginsIInv, PoolInvariant, Told, SkillInvariant, SkillIsWanted, LateResultsAreOwn

\* It depends on nothing but the state of the plugins.
LEMMA SkillStays ==
  ASSUME SkillInvariant, UNCHANGED <<skill, wanted>>
  PROVE  SkillInvariant'
BY DEF SkillInvariant, InstallIsWanted, SkillIsWanted

\* A source gets a new record; what is idle and configured no longer is reaped.
LEMMA ConfiguredAgain ==
  ASSUME PluginsIInv, NEW s \in Sources, NEW r \in SourceRecord, Configured([config EXCEPT ![s] = r]),
         r.seen \in {0, r.gen}, s \in Accounts => (~r.ok => r.gen \in grants.refused),
         grants'.refused = grants.refused, OthersTyped', service'.stopping = service.stopping,
         UNCHANGED <<lease, checks, skill, wanted>>
  PROVE  PluginsIInv'
<1> USE InvariantInParts
<1>1. config' = [config EXCEPT ![s] = r] /\ pool' = Reaped(pool, config', HeldBy(lease', checks'), service.stopping)
  BY DEF Configured
<1>2. config' \in [Sources -> SourceRecord] /\ \A x \in Sources : config'[x] = IF x = s THEN r ELSE config[x]
  BY <1>1 DEF ConfigTyped
<1>3. ConfigTyped' BY <1>2 DEF ConfigTyped
<1>4. Told(config', grants'.refused) BY <1>2 DEF Told, Sources
<1>5. PoolInvariant' BY <1>1, PoolIsReaped DEF PoolInvariant, PoolTyped
<1>6. SkillInvariant' BY SkillStays
<1>7. PluginsIInv' <=> /\ PoolInvariant' /\ ConfigTyped' /\ OthersTyped'
                       /\ Told(config', grants'.refused) /\ SkillInvariant'
  BY DEF PluginsIInv, PoolInvariant, Told, SkillInvariant, SkillIsWanted, LateResultsAreOwn
<1> QED BY <1>3, <1>4, <1>5, <1>6, <1>7

\* What configures sources keeps the invariant.
LEMMA SourcesStep ==
  ASSUME PluginsIInv, NEW s \in Sources,
         \/ SaveMcp(s, TRUE) \/ SaveMcp(s, FALSE) \/ EnableSource(s, TRUE) \/ EnableSource(s, FALSE)
         \/ RemoveSource(s)
  PROVE  PluginsIInv'
<1>0. /\ config[s] \in SourceRecord /\ NewGen \in Nat /\ OthersTyped
      /\ s \in Accounts => (~config[s].ok => config[s].gen \in grants.refused)
      /\ config[s].seen \in {0, config[s].gen}
  BY DEF PluginsIInv, ConfigTyped, OthersTyped, LateResultsAreOwn, NewGen
<1>1. /\ UNCHANGED <<lease, checks, grants, skill, dirs, wanted>>
      /\ \/ service' = [service EXCEPT !.edits = @ + 1]
         \/ service' = [service EXCEPT !.edits = @ + 1, !.gen = NewGen]
  BY DEF SaveMcp, EnableSource, RemoveSource, Edits, EditsWithGen
<1>2. service' \in [edits : Nat, gen : Nat, stopping : BOOLEAN] /\ service'.stopping = service.stopping
  <2>1. service \in [edits : Nat, gen : Nat, stopping : BOOLEAN] BY <1>0 DEF OthersTyped
  <2> HIDE DEF NewGen
  <2>2. CASE service' = [service EXCEPT !.edits = @ + 1] BY <2>1, <2>2
  <2>3. CASE service' = [service EXCEPT !.edits = @ + 1, !.gen = NewGen]
    <3> DEFINE n == service.edits + 1
    <3>1. n \in Nat /\ NewGen \in Nat BY <1>0, <2>1
    <3>2. service' = [service EXCEPT !.edits = n, !.gen = NewGen] BY <2>3
    <3> HIDE DEF n
    <3>3. service' = [edits |-> n, gen |-> NewGen, stopping |-> service.stopping] BY <2>1, <3>2
    <3> QED BY <2>1, <3>1, <3>3
  <2> QED BY <1>1, <2>2, <2>3
<1>3. OthersTyped' BY <1>0, <1>1, <1>2 DEF OthersTyped
<1>4. \A r \in SourceRecord :
        /\ Configured([config EXCEPT ![s] = r]) /\ r.seen \in {0, r.gen}
        /\ s \in Accounts => (~r.ok => r.gen \in grants.refused)
        => PluginsIInv'
  BY <1>1, <1>2, <1>3, ConfiguredAgain
<1>5. CASE \E on \in BOOLEAN : SaveMcp(s, on)
  <2>1. PICK on \in BOOLEAN : SaveMcp(s, on) BY <1>5
  <2> DEFINE r == [there |-> TRUE, on |-> on, gen |-> NewGen, seen |-> 0, ok |-> TRUE]
  <2>2. Configured([config EXCEPT ![s] = r]) BY <2>1 DEF SaveMcp
  <2>3. r \in SourceRecord /\ r.seen = 0 /\ r.ok BY <1>0, <2>1 DEF SourceRecord
  <2> HIDE DEF r
  <2> QED BY <1>4, <2>2, <2>3
<1>6. CASE \E on \in BOOLEAN : EnableSource(s, on)
  <2>1. PICK on \in BOOLEAN : EnableSource(s, on) BY <1>6
  <2> DEFINE r == [config[s] EXCEPT !.on = on]
  <2>2. Configured([config EXCEPT ![s] = r]) BY <2>1 DEF EnableSource
  <2>3. r \in SourceRecord /\ r.seen = config[s].seen /\ r.ok = config[s].ok /\ r.gen = config[s].gen
    BY <1>0, <2>1 DEF SourceRecord
  <2> HIDE DEF r
  <2> QED BY <1>0, <1>4, <2>2, <2>3
<1>7. CASE RemoveSource(s)
  <2> DEFINE r == [config[s] EXCEPT !.there = FALSE, !.on = FALSE, !.seen = 0, !.ok = TRUE]
  <2>2. Configured([config EXCEPT ![s] = r]) BY <1>7 DEF RemoveSource
  <2>3. r \in SourceRecord /\ r.seen = 0 /\ r.ok BY <1>0 DEF SourceRecord
  <2> HIDE DEF r
  <2> QED BY <1>4, <2>2, <2>3
<1> QED BY <1>5, <1>6, <1>7

\* What is recorded of connections keeps what is told.
LEMMA RecordingTells ==
  ASSUME ConfigTyped, Told(config, grants.refused), NEW es \in SUBSET EntryRecord,
         \A e, f \in es : e.source = f.source => e = f, config' = Recorded(es)
  PROVE  ConfigTyped' /\ SameConfigured(config') /\ Told(config', grants.refused)
<1>1. /\ config' \in [Sources -> SourceRecord]
      /\ \A s \in Sources : /\ config'[s].there = config[s].there /\ config'[s].on = config[s].on
                            /\ config'[s].gen = config[s].gen /\ config'[s].ok = config[s].ok
                            /\ config'[s].seen \in {config[s].seen, config[s].gen}
  BY Recording
<1>2. \A a \in Accounts : a \in Sources BY DEF Sources
<1> QED BY <1>1, <1>2 DEF ConfigTyped, SameConfigured, Told

\* The invariant after a step that disturbs the pool, or what is recorded, only.
LEMMA PoolStep ==
  ASSUME PluginsIInv, PoolInvariant', ConfigTyped', Told(config', grants.refused),
         UNCHANGED <<grants, skill, dirs, wanted>>,
         service' \in [edits : Nat, gen : Nat, stopping : BOOLEAN]
  PROVE  PluginsIInv'
<1> USE InvariantInParts
<1>1. OthersTyped' BY DEF OthersTyped
<1>2. SkillInvariant' BY SkillStays
<1>3. PluginsIInv' <=> /\ PoolInvariant' /\ ConfigTyped' /\ OthersTyped'
                       /\ Told(config', grants'.refused) /\ SkillInvariant'
  BY DEF PluginsIInv, PoolInvariant, Told, SkillInvariant, SkillIsWanted, LateResultsAreOwn
<1> QED BY <1>1, <1>2, <1>3

\* What is configured stays.
LEMMA ConfigStays ==
  ASSUME PluginsIInv, UNCHANGED config
  PROVE  ConfigTyped' /\ SameConfigured(config') /\ Told(config', grants.refused)
BY InvariantInParts DEF ConfigTyped, SameConfigured, Told

\* An entry settles, or its server closes it.
LEMMA EntryStep ==
  ASSUME PluginsIInv, NEW i \in Entries,
         (\E phase \in {"open", "unlisted", "failed"} : EntrySettles(i, phase)) \/ ServerCloses(i)
  PROVE  PluginsIInv'
<1> USE InvariantInParts
<1>0. /\ pool[i] \in EntryRecord /\ pool[i].source \in Sources
      /\ pool[i].pooled <=> pool[i].phase \in {"connecting", "open", "unlisted"}
  BY PoolEntries DEF PoolInvariant, PoolIsSound
<1>1. CASE \E phase \in {"open", "unlisted", "failed"} : EntrySettles(i, phase)
  <2>1. PICK phase \in {"open", "unlisted", "failed"} : EntrySettles(i, phase) BY <1>1
  <2> DEFINE b == pool[i].pooled /\ phase # "failed"
             e == [pool[i] EXCEPT !.phase = phase, !.pooled = b]
  <2>2. b \in BOOLEAN OBVIOUS
  <2>3. pool' = [pool EXCEPT ![i] = e] BY <2>1 DEF EntrySettles
  <2>4. b <=> phase # "failed" BY <1>0, <2>1 DEF EntrySettles
  <2> HIDE DEF b
  <2>5. e \in EntryRecord /\ e.source = pool[i].source /\ e.gen = pool[i].gen /\ e.pooled = b /\ e.phase = phase
    BY <1>0, <2>2 DEF EntryRecord
  <2>6. e.pooled => pool[i].pooled BY <2>5 DEF b
  <2> HIDE DEF e
  <2>7. /\ UNCHANGED <<lease, checks, grants, skill, dirs, wanted, service>>
        /\ config' = config \/ config' = Recorded({pool[i]})
    BY <2>1 DEF EntrySettles
  <2>8. ConfigTyped' /\ SameConfigured(config') /\ Told(config', grants.refused)
    <3>1. CASE config' = config BY <3>1, ConfigStays
    <3>2. CASE config' = Recorded({pool[i]}) BY <1>0, <3>2, RecordingTells
    <3> QED BY <2>7, <3>1, <3>2
  <2>9. PoolInvariant' BY <2>3, <2>4, <2>5, <2>6, <2>7, <2>8, PoolSettles
  <2> QED BY <2>7, <2>8, <2>9, PoolStep DEF OthersTyped
<1>2. CASE ServerCloses(i)
  <2> DEFINE e == [pool[i] EXCEPT !.phase = "lost", !.pooled = FALSE]
  <2>1. pool' = [pool EXCEPT ![i] = e] BY <1>2 DEF ServerCloses
  <2>2. e \in EntryRecord /\ e.source = pool[i].source /\ e.gen = pool[i].gen /\ ~e.pooled /\ e.phase = "lost"
    BY <1>0 DEF EntryRecord
  <2> HIDE DEF e
  <2>3. UNCHANGED <<config, lease, checks, grants, skill, dirs, wanted>>
        /\ service' = [service EXCEPT !.edits = @ + 1]
    BY <1>2 DEF ServerCloses, Edits
  <2>4. service' \in [edits : Nat, gen : Nat, stopping : BOOLEAN] /\ service'.stopping = service.stopping
    BY <2>3 DEF OthersTyped
  <2>5. ConfigTyped' /\ SameConfigured(config') /\ Told(config', grants.refused) BY <2>3, ConfigStays
  <2>6. PoolInvariant' BY <2>1, <2>2, <2>3, <2>4, <2>5, PoolSettles
  <2> QED BY <2>3, <2>4, <2>5, <2>6, PoolStep
<1> QED BY <1>1, <1>2

\* Of a pool that is asked, the connections found for some sources are one for each.
LEMMA ListedAreOwn ==
  ASSUME PoolInvariant', NEW p, p = pool', NEW ss \in SUBSET Sources
  PROVE  /\ Listed(p, ss) \in SUBSET EntryRecord
         /\ \A e, f \in Listed(p, ss) : e.source = f.source => e = f
<1>1. \A i \in DOMAIN p : p[i] \in EntryRecord
  <2>1. PICK n \in 0..MaxEntries : pool' \in [1..n -> EntryRecord] BY DEF PoolInvariant, PoolTyped
  <2> QED BY <2>1
<1>2. \A i, j \in DOMAIN p : p[i].pooled /\ p[j].pooled /\ p[i].source = p[j].source /\ p[i].gen = p[j].gen => i = j
  BY DEF PoolInvariant, PoolIsSound, Entries
<1>3. \A i \in EntriesFor(p, ss) : i \in DOMAIN p /\ p[i].pooled /\ p[i].gen = config[p[i].source].gen
  BY DEF EntriesFor, PooledFor
<1>4. \A i, j \in EntriesFor(p, ss) : p[i].source = p[j].source => i = j BY <1>2, <1>3
<1> QED BY <1>1, <1>3, <1>4 DEF Listed

\* What the sources that are asked for are configured as does not depend on what is recorded.
LEMMA RecordingConfigures ==
  ASSUME ConfigTyped, NEW es, config' = Recorded(es),
         \A s \in Sources : \A e \in es : e.source = s => e.gen \in Nat
  PROVE  SameConfigured(config')
<1>0. \A s \in Sources : config[s] \in SourceRecord BY DEF ConfigTyped
<1> SUFFICES ASSUME NEW s \in Sources
             PROVE /\ config'[s].there = config[s].there /\ config'[s].on = config[s].on
                   /\ config'[s].gen = config[s].gen
  BY DEF SameConfigured
<1> DEFINE g == (CHOOSE e \in es : e.source = s).gen
<1>1. config'[s] = config[s] \/ config'[s] = [config[s] EXCEPT !.seen = g] BY DEF Recorded
<1> HIDE DEF g
<1> QED BY <1>0, <1>1 DEF SourceRecord

\* A check asks for its connection and holds it.
LEMMA CheckStep ==
  ASSUME PluginsIInv, NEW s \in Mcps, CheckMcp(s)
  PROVE  PluginsIInv'
<1> USE InvariantInParts
<1>1. /\ pool' = Asked({s}) /\ Cardinality(DOMAIN pool') <= MaxEntries
      /\ checks = {} /\ checks' = EntriesFor(pool', {s})
      /\ config' = Recorded(Listed(pool', {s}))
      /\ UNCHANGED <<lease, grants, skill, dirs, wanted>>
      /\ service' = [service EXCEPT !.edits = @ + 1]
  BY DEF CheckMcp, Edits
<1>2. service' \in [edits : Nat, gen : Nat, stopping : BOOLEAN] /\ service'.stopping = service.stopping
  BY <1>1 DEF OthersTyped
<1>3. {s} \in SUBSET Sources BY DEF Sources
<1>4. AskedPool(pool', {s}) BY <1>1, <1>3, Asking DEF PoolInvariant
<1>5. \A e \in Listed(pool', {s}) : e.gen \in Nat
  BY <1>4 DEF Listed, EntriesFor, PooledFor, AskedPool, EntryRecord
<1>6. SameConfigured(config') BY <1>1, <1>5, RecordingConfigures
<1>7. lease' \in [Leases -> [phase : {"idle", "opening", "held", "ended"}, entries : SUBSET DOMAIN pool',
                             dirs : SUBSET RevisionOrNone]]
  <2>1. Entries \subseteq DOMAIN pool' BY <1>4 DEF AskedPool
  <2>2. lease \in [Leases -> [phase : {"idle", "opening", "held", "ended"}, entries : SUBSET Entries,
                              dirs : SUBSET RevisionOrNone]]
    BY DEF PoolInvariant, PoolTyped
  <2> QED BY <1>1, <2>1, <2>2
<1>8. \A l \in Leases : lease'[l].phase = "idle" => lease'[l].entries = {} BY <1>1
  DEF PoolInvariant, PoolTyped
<1>9. checks' \subseteq HeldBy(lease', checks') BY HeldMeans
<1>10. PoolInvariant' BY <1>1, <1>2, <1>3, <1>6, <1>7, <1>8, <1>9, PoolIsAsked
<1>11. ConfigTyped' /\ Told(config', grants.refused) BY <1>1, <1>3, <1>10, ListedAreOwn, RecordingTells
<1> QED BY <1>1, <1>2, <1>10, <1>11, PoolStep

\* A Turn asks for what is enabled and holds it.
LEMMA AcquireStep ==
  ASSUME PluginsIInv, NEW l \in Leases, Acquire(l)
  PROVE  PluginsIInv'
<1> USE InvariantInParts
<1> DEFINE ss == {s \in Sources : EnabledSource(s)}
           ds == IF skill.there /\ skill.on THEN {skill.rev} ELSE {}
           held == EntriesFor(pool', ss)
           r == [phase |-> "opening", entries |-> held, dirs |-> ds]
<1>1. /\ pool' = Asked(ss) /\ Cardinality(DOMAIN pool') <= MaxEntries
      /\ lease[l].phase = "idle" /\ lease' = [lease EXCEPT ![l] = r]
      /\ config' = Recorded(Listed(pool', ss \cap Mcps))
      /\ UNCHANGED <<checks, grants, skill, dirs, wanted, service>>
  BY DEF Acquire
<1>2. service' \in [edits : Nat, gen : Nat, stopping : BOOLEAN] /\ service'.stopping = service.stopping
  BY <1>1 DEF OthersTyped
<1>3. ss \in SUBSET Sources /\ ss \cap Mcps \in SUBSET Sources OBVIOUS
<1>4. ds \in SUBSET RevisionOrNone BY DEF OthersTyped
<1> HIDE DEF ss, ds
<1>5. AskedPool(pool', ss) BY <1>1, <1>3, Asking DEF PoolInvariant
<1>6. \A e \in Listed(pool', ss \cap Mcps) : e.gen \in Nat
  BY <1>5 DEF Listed, EntriesFor, PooledFor, AskedPool, EntryRecord
<1>7. SameConfigured(config') BY <1>1, <1>6, RecordingConfigures
<1>8. held \in SUBSET DOMAIN pool' BY DEF EntriesFor, PooledFor
<1> HIDE DEF held
<1>9. r \in [phase : {"idle", "opening", "held", "ended"}, entries : SUBSET DOMAIN pool',
             dirs : SUBSET RevisionOrNone] /\ r.entries = held /\ r.phase = "opening"
  BY <1>4, <1>8
<1> HIDE DEF r
<1>10. lease' \in [Leases -> [phase : {"idle", "opening", "held", "ended"}, entries : SUBSET DOMAIN pool',
                              dirs : SUBSET RevisionOrNone]]
  BY <1>1, <1>5, <1>9 DEF PoolInvariant, PoolTyped, AskedPool
<1>11. \A k \in Leases : lease'[k] = IF k = l THEN r ELSE lease[k] BY <1>1 DEF PoolInvariant, PoolTyped
<1>12. \A k \in Leases : \/ lease'[k].entries = lease[k].entries
                         \/ lease'[k].entries = held /\ lease[k].entries = {}
  BY <1>1, <1>9, <1>11 DEF PoolInvariant, PoolTyped
<1>13. \A k \in Leases : lease'[k].phase = "idle" => lease'[k].entries = {}
  BY <1>9, <1>11 DEF PoolInvariant, PoolTyped
<1>14. held \subseteq HeldBy(lease', checks') BY <1>9, <1>11, HeldMeans
<1>15. PoolInvariant'
  BY <1>1, <1>2, <1>3, <1>7, <1>10, <1>12, <1>13, <1>14, PoolIsAsked DEF held
<1>16. ConfigTyped' /\ Told(config', grants.refused)
  BY <1>3, <1>15, ListedAreOwn, <1>1, RecordingTells
<1> QED BY <1>1, <1>2, <1>15, <1>16, PoolStep

\* A check or a Turn lets go of its connections.
LEMMA ReleaseStep ==
  ASSUME PluginsIInv, (\E i \in Entries : CheckEnds(i)) \/ (\E l \in Leases : ReleaseLease(l))
  PROVE  PluginsIInv'
<1> USE InvariantInParts
<1>0. /\ lease \in [Leases -> [phase : {"idle", "opening", "held", "ended"}, entries : SUBSET Entries,
                               dirs : SUBSET RevisionOrNone]]
      /\ \A k \in Leases : lease[k].phase = "idle" => lease[k].entries = {}
  BY DEF PoolInvariant, PoolTyped
<1>1. CASE \E i \in Entries : CheckEnds(i)
  <2>1. /\ checks' \in SUBSET checks
        /\ pool' = Reaped(pool, config, HeldBy(lease, checks'), service.stopping)
        /\ UNCHANGED <<config, lease, grants, skill, dirs, wanted, service>>
    BY <1>1 DEF CheckEnds
  <2>2. PoolInvariant' BY <1>0, <2>1, PoolIsReaped
  <2>3. ConfigTyped' /\ Told(config', grants.refused) BY <2>1, ConfigStays
  <2> QED BY <2>1, <2>2, <2>3, PoolStep DEF OthersTyped
<1>2. CASE \E l \in Leases : ReleaseLease(l)
  <2>1. PICK l \in Leases : ReleaseLease(l) BY <1>2
  <2> DEFINE r == [phase |-> "ended", entries |-> {}, dirs |-> {}]
  <2>2. /\ lease' = [lease EXCEPT ![l] = r]
        /\ pool' = Reaped(pool, config, HeldBy(lease', checks), service.stopping)
        /\ Removing(lease[l].dirs, lease', skill)
        /\ UNCHANGED <<config, checks, grants, skill, wanted, service>>
    BY <2>1 DEF ReleaseLease
  <2>3. r \in [phase : {"idle", "opening", "held", "ended"}, entries : SUBSET Entries,
               dirs : SUBSET RevisionOrNone] /\ r.entries = {} /\ r.phase = "ended"
    OBVIOUS
  <2> HIDE DEF r
  <2>4. lease' \in [Leases -> [phase : {"idle", "opening", "held", "ended"}, entries : SUBSET Entries,
                               dirs : SUBSET RevisionOrNone]]
    BY <1>0, <2>2, <2>3
  <2>5. \A k \in Leases : lease'[k] = IF k = l THEN r ELSE lease[k] BY <1>0, <2>2
  <2>6. \A k \in Leases : /\ lease'[k].entries \in {lease[k].entries, {}}
                          /\ lease'[k].phase = "idle" => lease'[k].entries = {}
    BY <1>0, <2>3, <2>5
  <2>7. PoolInvariant' BY <2>2, <2>4, <2>6, PoolIsReaped
  <2>8. ConfigTyped' /\ Told(config', grants.refused) BY <2>2, ConfigStays
  <2>9. SkillInvariant' BY <2>2, SkillStays
  <2>10. OthersTyped' BY <2>2, <1>0 DEF Removing, Unused, RevisionOrNone, OthersTyped
  <2>11. PluginsIInv' <=> /\ PoolInvariant' /\ ConfigTyped' /\ OthersTyped'
                          /\ Told(config', grants'.refused) /\ SkillInvariant'
    BY DEF PluginsIInv, PoolInvariant, Told, SkillInvariant, SkillIsWanted, LateResultsAreOwn
  <2> QED BY <2>2, <2>7, <2>8, <2>9, <2>10, <2>11
<1> QED BY <1>1, <1>2

\* A Turn has its snapshot.
LEMMA ReadyStep ==
  ASSUME PluginsIInv, NEW l \in Leases, LeaseReady(l)
  PROVE  PluginsIInv'
<1> USE InvariantInParts
<1> DEFINE es == {pool[i] : i \in {j \in lease[l].entries : pool[j].source \in Accounts}}
<1>1. /\ lease[l].phase = "opening" /\ lease' = [lease EXCEPT ![l].phase = "held"]
      /\ config' = Recorded(es)
      /\ UNCHANGED <<pool, checks, grants, skill, dirs, wanted, service>>
  BY DEF LeaseReady
<1>2. es \in SUBSET EntryRecord
  BY PoolEntries DEF PoolInvariant, PoolTyped
<1>3. \A e, f \in es : e.source = f.source => e = f BY DEF PoolInvariant, PoolIsSound
<1> HIDE DEF es
<1>4. ConfigTyped' /\ SameConfigured(config') /\ Told(config', grants.refused)
  BY <1>1, <1>2, <1>3, RecordingTells
<1>5. /\ lease' \in [Leases -> [phase : {"idle", "opening", "held", "ended"}, entries : SUBSET Entries,
                                dirs : SUBSET RevisionOrNone]]
      /\ \A k \in Leases : lease'[k].entries = lease[k].entries
      /\ \A k \in Leases : lease'[k].phase = "idle" => lease[k].phase = "idle"
  BY <1>1 DEF PoolInvariant, PoolTyped
<1>6. PoolInvariant'
  <2>1. Entries' = Entries BY <1>1 DEF Entries
  <2>2. PoolTyped' BY <1>1, <1>5, <2>1 DEF PoolInvariant, PoolTyped
  <2>3. PoolIsSound' BY <1>1, <1>5, <2>1 DEF PoolInvariant, PoolIsSound
  <2>4. HeldBy(lease', checks') = HeldBy(lease, checks) BY <1>1, <1>5 DEF HeldBy
  <2>5. \A i \in Entries : Keep(config', pool[i]) <=> Keep(config, pool[i])
    BY <1>4, PoolEntries, KeepStays DEF PoolInvariant
  <2>6. HeldIsOpen' BY <1>1, <2>1, <2>4, <2>5 DEF PoolInvariant, HeldIsOpen
  <2> QED BY <2>2, <2>3, <2>6 DEF PoolInvariant
<1> QED BY <1>1, <1>4, <1>6, PoolStep DEF OthersTyped

GrantRecord == [account : Accounts, known : BOOLEAN, phase : {"asked", "exchanging"}]

\* An account is authorized: it gets a grant of its own.
LEMMA AuthorizedStep ==
  ASSUME PluginsIInv, NEW p \in grants.pending, NEW allowed \in BOOLEAN, Authorized(p, allowed)
  PROVE  PluginsIInv'
<1> USE InvariantInParts
<1> DEFINE a == p.account
           b == allowed /\ (p.known => config[a].on)
           r == [there |-> TRUE, on |-> b, gen |-> NewGen, seen |-> 0, ok |-> TRUE]
<1>1. p \in GrantRecord /\ a \in Accounts /\ a \in Sources BY DEF OthersTyped, GrantRecord, Sources
<1>2. b \in BOOLEAN /\ NewGen \in Nat BY DEF OthersTyped, NewGen
<1>3. /\ Configured([config EXCEPT ![a] = r])
      /\ service' = [service EXCEPT !.gen = NewGen]
      /\ grants' = [grants EXCEPT !.pending = {}]
      /\ UNCHANGED <<lease, checks, skill, dirs, wanted>>
  BY DEF Authorized
<1> HIDE DEF b, a, NewGen
<1>4. r \in SourceRecord /\ r.seen = 0 /\ r.ok BY <1>2 DEF SourceRecord
<1> HIDE DEF r
<1>5. service' \in [edits : Nat, gen : Nat, stopping : BOOLEAN] /\ service'.stopping = service.stopping
  BY <1>2, <1>3 DEF OthersTyped
<1>6. /\ grants' \in [pending : SUBSET GrantRecord, refreshing : SUBSET Nat, refused : SUBSET Nat]
      /\ grants'.refused = grants.refused
  BY <1>3 DEF OthersTyped, GrantRecord
<1>7. OthersTyped' BY <1>3, <1>5, <1>6 DEF OthersTyped, GrantRecord
<1> QED BY <1>1, <1>3, <1>4, <1>5, <1>6, <1>7, ConfiguredAgain

\* Any other step of an authorization, or of a refresh that begins.
LEMMA GrantsStep ==
  ASSUME PluginsIInv,
         \/ \E a \in Accounts : Authorize(a)
         \/ \E p \in grants.pending : Callback(p) \/ NotAuthorized(p)
         \/ \E g \in GrantsInUse : Refresh(g)
         \/ Shutdown
  PROVE  PluginsIInv'
<1> USE InvariantInParts
<1>0. grants \in [pending : SUBSET GrantRecord, refreshing : SUBSET Nat, refused : SUBSET Nat]
  BY DEF OthersTyped, GrantRecord
<1> DEFINE Good == /\ UNCHANGED <<config, pool, lease, checks, skill, dirs, wanted>>
                   /\ grants' \in [pending : SUBSET GrantRecord, refreshing : SUBSET Nat, refused : SUBSET Nat]
                   /\ grants'.refused = grants.refused
                   /\ service' \in [edits : Nat, gen : Nat, stopping : BOOLEAN]
                   /\ service'.stopping \in {service.stopping, TRUE}
<1>1. ASSUME NEW a \in Accounts, Authorize(a) PROVE Good
  <2> DEFINE b == config[a].there
             p == [account |-> a, known |-> b, phase |-> "asked"]
  <2>1. a \in Sources BY DEF Sources
  <2>2. b \in BOOLEAN BY <2>1 DEF ConfigTyped, SourceRecord
  <2>3. grants' = [grants EXCEPT !.pending = {p}] BY <1>1 DEF Authorize
  <2> HIDE DEF b
  <2>4. p \in GrantRecord BY <2>2 DEF GrantRecord
  <2> HIDE DEF p
  <2>5. UNCHANGED <<config, pool, lease, checks, skill, dirs, wanted>> /\ service' = [service EXCEPT !.edits = @ + 1]
    BY <1>1 DEF Authorize, Edits
  <2>6. service' \in [edits : Nat, gen : Nat, stopping : BOOLEAN] /\ service'.stopping = service.stopping
    BY <2>5 DEF OthersTyped
  <2> QED BY <1>0, <2>3, <2>4, <2>5, <2>6
<1>2. ASSUME NEW p \in grants.pending, Callback(p) PROVE Good
  <2> DEFINE q == [p EXCEPT !.phase = "exchanging"]
  <2>1. q \in GrantRecord BY <1>0 DEF GrantRecord
  <2>2. grants' = [grants EXCEPT !.pending = {q}] BY <1>2 DEF Callback
  <2> HIDE DEF q
  <2>3. UNCHANGED <<config, pool, lease, checks, skill, dirs, wanted, service>> BY <1>2 DEF Callback
  <2> QED BY <1>0, <2>1, <2>2, <2>3 DEF OthersTyped
<1>3. ASSUME NEW p \in grants.pending, NotAuthorized(p) PROVE Good
  BY <1>0, <1>3 DEF NotAuthorized, OthersTyped
<1>4. ASSUME NEW g \in GrantsInUse, Refresh(g) PROVE Good
  <2>1. g \in Nat BY PoolEntries DEF GrantsInUse, PoolInvariant
  <2>2. grants' = [grants EXCEPT !.refreshing = @ \cup {g}]
        /\ UNCHANGED <<config, pool, lease, checks, skill, dirs, wanted, service>>
    BY <1>4 DEF Refresh
  <2> QED BY <1>0, <2>1, <2>2 DEF OthersTyped
<1>5. ASSUME Shutdown PROVE Good
  <2>1. /\ service' = [service EXCEPT !.stopping = TRUE]
        /\ grants' = [grants EXCEPT !.pending = {p \in @ : p.phase # "asked"}]
        /\ UNCHANGED <<config, pool, lease, checks, skill, dirs, wanted>>
    BY <1>5 DEF Shutdown
  <2>2. service' \in [edits : Nat, gen : Nat, stopping : BOOLEAN] /\ service'.stopping = TRUE
    BY <2>1 DEF OthersTyped
  <2> QED BY <1>0, <2>1, <2>2
<1>6. Good BY <1>1, <1>2, <1>3, <1>4, <1>5
<1>7. ConfigTyped' /\ SameConfigured(config') /\ Told(config', grants'.refused)
  BY <1>6, ConfigStays
<1>8. PoolInvariant' BY <1>6, <1>7, PoolStays
<1>9. SkillInvariant' BY <1>6, SkillStays
<1>10. OthersTyped' BY <1>6 DEF OthersTyped, GrantRecord
<1>11. PluginsIInv' <=> /\ PoolInvariant' /\ ConfigTyped' /\ OthersTyped'
                        /\ Told(config', grants'.refused) /\ SkillInvariant'
  BY DEF PluginsIInv, PoolInvariant, Told, SkillInvariant, SkillIsWanted, LateResultsAreOwn
<1> QED BY <1>7, <1>8, <1>9, <1>10, <1>11

\* A refresh ends, well or with a refusal.
LEMMA RefreshStep ==
  ASSUME PluginsIInv, NEW g \in grants.refreshing, NEW refused \in BOOLEAN, RefreshEnds(g, refused)
  PROVE  PluginsIInv'
<1> USE InvariantInParts
<1> DEFINE bad(s) == refused /\ s \in Accounts /\ Own([source |-> s, gen |-> g])
           no == IF refused THEN grants.refused \cup {g} ELSE grants.refused
<1>0. /\ grants \in [pending : SUBSET GrantRecord, refreshing : SUBSET Nat, refused : SUBSET Nat]
      /\ \A s \in Sources : config[s] \in SourceRecord
      /\ g \in Nat
  BY DEF OthersTyped, GrantRecord, ConfigTyped
<1>1. /\ grants' = [grants EXCEPT !.refreshing = @ \ {g}, !.refused = no]
      /\ config' = [s \in Sources |-> IF bad(s) THEN [config[s] EXCEPT !.ok = FALSE] ELSE config[s]]
      /\ UNCHANGED <<pool, lease, checks, skill, dirs, wanted, service>>
  BY DEF RefreshEnds
<1>2. no \in SUBSET Nat /\ grants.refused \subseteq no /\ (refused => g \in no) BY <1>0
<1>3. \A s \in Sources : bad(s) => refused /\ config[s].gen = g BY DEF Own
<1> HIDE DEF no, bad
<1>4. /\ grants' \in [pending : SUBSET GrantRecord, refreshing : SUBSET Nat, refused : SUBSET Nat]
      /\ grants'.refused = no
  BY <1>0, <1>1, <1>2
<1>5. ASSUME NEW s \in Sources
      PROVE  /\ config'[s] \in SourceRecord
             /\ config'[s].there = config[s].there /\ config'[s].on = config[s].on
             /\ config'[s].gen = config[s].gen /\ config'[s].seen = config[s].seen
             /\ ~config'[s].ok => bad(s) \/ ~config[s].ok
  <2>1. CASE bad(s)
    <3>1. config'[s] = [config[s] EXCEPT !.ok = FALSE] BY <1>1, <2>1
    <3> QED BY <1>0, <2>1, <3>1 DEF SourceRecord
  <2>2. CASE ~bad(s)
    <3>1. config'[s] = config[s] BY <1>1, <2>2
    <3> QED BY <1>0, <3>1
  <2> QED BY <2>1, <2>2
<1>6. ConfigTyped' BY <1>1, <1>5 DEF ConfigTyped
<1>7. SameConfigured(config') BY <1>5 DEF SameConfigured
<1>8. Told(config', no)
  <2>1. \A s \in Sources : config'[s].seen \in {0, config'[s].gen} BY <1>5 DEF Told
  <2>2. \A a \in Accounts : ~config'[a].ok => config'[a].gen \in no
    <3> SUFFICES ASSUME NEW a \in Accounts, ~config'[a].ok PROVE config'[a].gen \in no OBVIOUS
    <3>1. a \in Sources BY DEF Sources
    <3> QED BY <1>2, <1>3, <1>5, <3>1 DEF Told
  <2> QED BY <2>1, <2>2 DEF Told
<1>9. PoolInvariant' BY <1>1, <1>7, PoolStays
<1>10. SkillInvariant' BY <1>1, SkillStays
<1>11. OthersTyped' BY <1>1, <1>4 DEF OthersTyped, GrantRecord
<1>12. PluginsIInv' <=> /\ PoolInvariant' /\ ConfigTyped' /\ OthersTyped'
                        /\ Told(config', grants'.refused) /\ SkillInvariant'
  BY DEF PluginsIInv, PoolInvariant, Told, SkillInvariant, SkillIsWanted, LateResultsAreOwn
<1> QED BY <1>4, <1>6, <1>8, <1>9, <1>10, <1>11, <1>12

\* When the service stops, every connection is closed.
LEMMA ClosesStep ==
  ASSUME PluginsIInv, PoolCloses
  PROVE  PluginsIInv'
<1> USE InvariantInParts
<1>1. PICK n \in 0..MaxEntries : pool \in [1..n -> EntryRecord] BY DEF PoolInvariant, PoolTyped
<1>2. Entries = 1..n BY <1>1 DEF Entries
<1>3. /\ service.stopping
      /\ pool' = [i \in 1..n |-> IF pool[i].pooled THEN [pool[i] EXCEPT !.pooled = FALSE, !.phase = "closed"]
                                 ELSE pool[i]]
      /\ UNCHANGED <<config, lease, checks, grants, skill, dirs, wanted, service>>
  BY <1>2 DEF PoolCloses
<1>4. ASSUME NEW i \in 1..n
      PROVE  pool'[i] \in EntryRecord /\ pool'[i].source = pool[i].source /\ ~pool'[i].pooled
             /\ pool'[i].phase \notin {"connecting", "open", "unlisted"}
  <2>0. pool[i] \in EntryRecord BY <1>1
  <2>1. CASE pool[i].pooled
    <3>1. pool'[i] = [pool[i] EXCEPT !.pooled = FALSE, !.phase = "closed"] BY <1>3, <2>1
    <3> QED BY <2>0, <3>1 DEF EntryRecord
  <2>2. CASE ~pool[i].pooled
    <3>1. pool'[i] = pool[i] BY <1>3, <2>2
    <3> QED BY <1>2, <2>0, <2>2, <3>1 DEF PoolInvariant, PoolIsSound
  <2> QED BY <2>1, <2>2
<1>5. pool' \in [1..n -> EntryRecord] /\ Entries' = Entries BY <1>2, <1>3, <1>4 DEF Entries
<1>6. PoolTyped' BY <1>3, <1>5 DEF PoolInvariant, PoolTyped
<1>7. PoolIsSound'
  <2>1. \A l \in Leases : lease[l].entries \subseteq 1..n BY <1>2 DEF PoolInvariant, PoolTyped
  <2>2. \A l \in Leases : \A i, j \in lease[l].entries : pool'[i].source = pool'[j].source => i = j
    BY <1>4, <2>1 DEF PoolInvariant, PoolIsSound
  <2>3. \A i \in Entries' : ~pool'[i].pooled /\ pool'[i].phase \notin {"connecting", "open", "unlisted"}
    BY <1>2, <1>4, <1>5
  <2>4. lease' = lease BY <1>3
  <2> QED BY <2>2, <2>3, <2>4 DEF PoolIsSound
<1>8. HeldIsOpen' BY <1>3 DEF HeldIsOpen
<1>9. PoolInvariant' BY <1>6, <1>7, <1>8 DEF PoolInvariant
<1> QED BY <1>3, <1>9, ConfigStays, PoolStep DEF OthersTyped

InstallRecord == [phase : {"none", "fetching", "materialized"}, existed : BOOLEAN, rev : RevisionOrNone]
SkillRecord == [there : BOOLEAN, on : BOOLEAN, rev : RevisionOrNone, pass : {"none", "listed", "waiting"},
                install : InstallRecord]

\* The invariant after a step of the Skill and its directories.
LEMMA SkillStep ==
  ASSUME PluginsIInv, UNCHANGED <<config, pool, lease, checks, grants>>,
         skill' \in SkillRecord, dirs' \in [kept : SUBSET Revisions, removing : SUBSET Revisions],
         service' = service \/ service' = [service EXCEPT !.edits = @ + 1], SkillInvariant'
  PROVE  PluginsIInv'
<1> USE InvariantInParts
<1>1. service' \in [edits : Nat, gen : Nat, stopping : BOOLEAN] /\ service'.stopping = service.stopping
  BY DEF OthersTyped
<1>2. ConfigTyped' /\ SameConfigured(config') /\ Told(config', grants'.refused) BY ConfigStays
<1>3. PoolInvariant' BY <1>1, <1>2, PoolStays
<1>4. OthersTyped' BY <1>1 DEF OthersTyped, SkillRecord, InstallRecord
<1>5. PluginsIInv' <=> /\ PoolInvariant' /\ ConfigTyped' /\ OthersTyped'
                       /\ Told(config', grants'.refused) /\ SkillInvariant'
  BY DEF PluginsIInv, PoolInvariant, Told, SkillInvariant, SkillIsWanted, LateResultsAreOwn
<1> QED BY <1>2, <1>3, <1>4, <1>5

\* What is removed of the directories of the Skill are directories of the Skill.
LEMMA RemovingTyped ==
  ASSUME dirs \in [kept : SUBSET Revisions, removing : SUBSET Revisions], NEW ds \in SUBSET RevisionOrNone,
         NEW ls, NEW sk, Removing(ds, ls, sk)
  PROVE  dirs' \in [kept : SUBSET Revisions, removing : SUBSET Revisions]
<1>1. Unused(ds, ls, sk) \subseteq Revisions BY DEF Unused, RevisionOrNone
<1>2. dirs' = [dirs EXCEPT !.removing = @ \cup Unused(ds, ls, sk)] BY DEF Removing
<1> QED BY <1>1, <1>2

\* Installing, enabling, and removing the Skill and its directories keep the invariant.
LEMMA SkillsStep ==
  ASSUME PluginsIInv,
         \/ InstallSkill \/ UpdatesStart \/ UpdateReaches \/ InstallEnds \/ InstallFails \/ RemoveSkill
         \/ \E r \in Revisions : Materialized(r) \/ DirectoryRemoved(r)
         \/ EnableSkill(TRUE) \/ EnableSkill(FALSE)
  PROVE  PluginsIInv'
<1>0. /\ skill \in SkillRecord /\ skill.install \in InstallRecord
      /\ dirs \in [kept : SUBSET Revisions, removing : SUBSET Revisions]
      /\ NoInstall \in InstallRecord /\ NoInstall.phase = "none"
      /\ NoRevision \in RevisionOrNone
      /\ skill.there \in BOOLEAN /\ skill.on \in BOOLEAN /\ skill.rev \in RevisionOrNone
      /\ skill.install.rev \in RevisionOrNone /\ skill.install.existed \in BOOLEAN
  BY DEF PluginsIInv, OthersTyped, SkillRecord, InstallRecord, NoInstall, RevisionOrNone
<1>a. /\ skill.install.phase # "none" /\ ~skill.install.existed => ~skill.there
      /\ ~skill.there => wanted \in {"on", "none"}
      /\ SkillIsWanted(skill, wanted)
  BY DEF PluginsIInv, InstallIsWanted, SkillIsWanted, LateResultsAreOwn
<1> DEFINE Sound(s, w) ==
             /\ s \in SkillRecord
             /\ s.install.phase # "none" /\ ~s.install.existed => ~s.there
             /\ ~s.there => w \in {"on", "none"}
             /\ SkillIsWanted(s, w)
<1>b. Sound(skill', wanted') => SkillInvariant' /\ skill' \in SkillRecord
  BY DEF SkillInvariant, InstallIsWanted
<1> DEFINE Frame == /\ UNCHANGED <<config, pool, lease, checks, grants>>
                    /\ service' = service \/ service' = [service EXCEPT !.edits = @ + 1]
           Good == /\ Frame /\ Sound(skill', wanted')
                   /\ dirs' \in [kept : SUBSET Revisions, removing : SUBSET Revisions]
<1>c. Good => PluginsIInv' BY <1>b, SkillStep
<1>i. ASSUME skill' = Installing \/ skill' = [Installing EXCEPT !.pass = "waiting"]
      PROVE  /\ skill' \in SkillRecord /\ skill'.there = skill.there /\ skill'.on = skill.on
             /\ \/ skill'.install = skill.install /\ skill.install.phase # "none"
                \/ skill'.install.existed = skill.there
  <2> DEFINE i == IF skill.install.phase # "none" THEN skill.install
                  ELSE [phase |-> "fetching", existed |-> skill.there, rev |-> NoRevision]
  <2>1. i \in InstallRecord BY <1>0 DEF InstallRecord
  <2>2. (i = skill.install /\ skill.install.phase # "none") \/ i.existed = skill.there BY <1>0
  <2>3. Installing = [skill EXCEPT !.install = i] BY DEF Installing
  <2> HIDE DEF i
  <2> QED BY <1>0, <1>i, <2>1, <2>2, <2>3 DEF SkillRecord
<1>1. ASSUME InstallSkill \/ UpdateReaches PROVE Good
  <2>1. /\ skill' = Installing \/ skill' = [Installing EXCEPT !.pass = "waiting"]
        /\ wanted' = wanted \/ wanted' = IF skill.there \/ skill'.install.existed THEN wanted ELSE "on"
    BY <1>1 DEF InstallSkill, UpdateReaches
  <2>2. Frame /\ dirs' = dirs BY <1>1 DEF InstallSkill, UpdateReaches, Edits
  <2>3. wanted' = wanted \/ (~skill.there /\ wanted' = "on") BY <2>1
  <2>4. /\ skill' \in SkillRecord /\ skill'.there = skill.there /\ skill'.on = skill.on
        /\ skill'.install.phase # "none" /\ ~skill'.install.existed => ~skill'.there
    BY <1>a, <1>i, <2>1
  <2>5. SkillIsWanted(skill', wanted') BY <1>a, <2>3, <2>4 DEF SkillIsWanted
  <2>6. ~skill'.there => wanted' \in {"on", "none"} BY <1>a, <2>3, <2>4
  <2> QED BY <1>0, <2>2, <2>4, <2>5, <2>6
<1>8. ASSUME UpdatesStart PROVE Good
  <2>1. skill' = [skill EXCEPT !.pass = "listed"] /\ wanted' = wanted BY <1>8 DEF UpdatesStart
  <2>2. /\ skill' \in SkillRecord /\ skill'.install = skill.install /\ skill'.there = skill.there
        /\ skill'.on = skill.on
    BY <1>0, <2>1 DEF SkillRecord
  <2>3. Sound(skill', wanted') BY <1>a, <2>1, <2>2 DEF SkillIsWanted
  <2>4. Frame /\ dirs' = dirs BY <1>8 DEF UpdatesStart, Edits
  <2> QED BY <1>0, <2>3, <2>4
<1>2. ASSUME NEW r \in Revisions, Materialized(r) PROVE Good
  <2> DEFINE i == [skill.install EXCEPT !.phase = "materialized", !.rev = r]
  <2>1. skill' = [skill EXCEPT !.install = i] /\ wanted' = wanted /\ skill.install.phase = "fetching"
    BY <1>0, <1>2 DEF Materialized, SkillRecord
  <2>2. i \in InstallRecord /\ i.existed = skill.install.existed
    BY <1>0 DEF InstallRecord, RevisionOrNone
  <2> HIDE DEF i
  <2>3. /\ skill' \in SkillRecord /\ skill'.install = i /\ skill'.there = skill.there /\ skill'.on = skill.on
    BY <1>0, <2>1, <2>2 DEF SkillRecord
  <2>4. Sound(skill', wanted') BY <1>a, <2>1, <2>2, <2>3 DEF SkillIsWanted
  <2>5. Frame /\ dirs' = [dirs EXCEPT !.kept = @ \cup {r}] BY <1>2 DEF Materialized
  <2> QED BY <1>0, <2>4, <2>5
<1> DEFINE done == [skill EXCEPT !.install = NoInstall, !.pass = PassAfter]
<1>d. /\ done \in SkillRecord /\ done.install = NoInstall /\ done.there = skill.there
      /\ done.on = skill.on
  <2>1. PassAfter \in {"none", "listed", "waiting"} BY <1>0 DEF PassAfter, SkillRecord
  <2> HIDE DEF NoInstall
  <2> QED BY <1>0, <2>1 DEF SkillRecord
<1>3. ASSUME InstallEnds PROVE Good
  <2> DEFINE ds == IF Overtaken THEN {skill.install.rev} ELSE {skill.rev}
  <2>1. /\ Frame /\ skill.install.phase = "materialized"
        /\ Removing(ds, lease, skill')
        /\ wanted' = IF ~Overtaken /\ ~skill.there /\ ~skill.install.existed /\ wanted = "none"
                     THEN "revived" ELSE wanted
    BY <1>3 DEF InstallEnds
  <2>2. ds \in SUBSET RevisionOrNone BY <1>0
  <2> HIDE DEF ds
  <2>3. dirs' \in [kept : SUBSET Revisions, removing : SUBSET Revisions] BY <1>0, <2>1, <2>2, RemovingTyped
  <2>4. CASE Overtaken
    <3>1. skill' = done /\ wanted' = wanted BY <1>3, <2>1, <2>4 DEF InstallEnds
    <3> HIDE DEF NoInstall, done
    <3>2. Sound(skill', wanted') BY <1>0, <1>a, <1>d, <3>1 DEF SkillIsWanted
    <3> QED BY <2>1, <2>3, <3>2
  <2>5. CASE ~Overtaken
    <3> DEFINE on == skill.there => skill.on
    <3>1. skill' = [done EXCEPT !.there = TRUE, !.on = on, !.rev = skill.install.rev]
      BY <1>3, <2>5 DEF InstallEnds
    <3>2. on \in BOOLEAN /\ (skill.there => on = skill.on) /\ (~skill.there => on = TRUE) BY <1>0
    <3> HIDE DEF NoInstall, on, done
    <3>3. skill' \in SkillRecord /\ skill'.install = NoInstall /\ skill'.there /\ skill'.on = on
      BY <1>0, <1>d, <3>1, <3>2 DEF SkillRecord
    <3>4. ~skill.there => ~skill.install.existed BY <2>5 DEF Overtaken
    <3>5. SkillIsWanted(skill', wanted') BY <1>a, <2>1, <2>5, <3>2, <3>3, <3>4 DEF SkillIsWanted
    <3>6. Sound(skill', wanted') BY <1>0, <3>3, <3>5
    <3> QED BY <2>1, <2>3, <3>6
  <2> QED BY <2>4, <2>5
<1>4. ASSUME InstallFails PROVE Good
  <2>1. /\ skill' = done /\ wanted' = IF skill.there THEN wanted ELSE "none"
        /\ Frame /\ dirs' = dirs
    BY <1>4 DEF InstallFails
  <2> HIDE DEF NoInstall, done
  <2>2. Sound(skill', wanted') BY <1>0, <1>a, <1>d, <2>1 DEF SkillIsWanted
  <2> QED BY <1>0, <2>1, <2>2
<1>5. ASSUME RemoveSkill PROVE Good
  <2>1. /\ skill' = [skill EXCEPT !.there = FALSE, !.on = FALSE, !.rev = NoRevision]
        /\ skill.there /\ wanted' = "none"
        /\ Removing({skill.rev}, lease, skill') /\ Frame
    BY <1>5 DEF RemoveSkill, Edits
  <2>2. skill' \in SkillRecord /\ skill'.install = skill.install /\ skill'.there = FALSE
    BY <1>0, <2>1 DEF SkillRecord
  <2>3. Sound(skill', wanted') BY <1>a, <2>1, <2>2 DEF SkillIsWanted
  <2>4. dirs' \in [kept : SUBSET Revisions, removing : SUBSET Revisions] BY <1>0, <2>1, RemovingTyped
  <2> QED BY <2>1, <2>3, <2>4
<1>6. ASSUME NEW r \in Revisions, DirectoryRemoved(r) PROVE Good
  <2>1. /\ Frame /\ UNCHANGED <<skill, wanted>>
        /\ dirs' = [kept |-> dirs.kept \ {r}, removing |-> dirs.removing \ {r}]
    BY <1>6 DEF DirectoryRemoved
  <2>2. Sound(skill', wanted') BY <1>0, <1>a, <2>1 DEF SkillIsWanted
  <2>3. dirs' \in [kept : SUBSET Revisions, removing : SUBSET Revisions] BY <1>0, <2>1
  <2> QED BY <2>1, <2>2, <2>3
<1>7. ASSUME NEW on \in BOOLEAN, EnableSkill(on) PROVE Good
  <2>1. /\ skill' = [skill EXCEPT !.on = on] /\ wanted' = IF on THEN "on" ELSE "off"
        /\ skill.there /\ Frame /\ dirs' = dirs
    BY <1>7 DEF EnableSkill, Edits
  <2>2. skill' \in SkillRecord /\ skill'.install = skill.install /\ skill'.there = skill.there /\ skill'.on = on
    BY <1>0, <2>1 DEF SkillRecord
  <2>3. Sound(skill', wanted') BY <1>a, <2>1, <2>2 DEF SkillIsWanted
  <2> QED BY <1>0, <2>1, <2>3
<1> HIDE DEF Good, Sound, Frame
<1> QED BY <1>c, <1>1, <1>2, <1>3, <1>4, <1>5, <1>6, <1>7, <1>8

\* Every step keeps the invariant of the plugins.
LEMMA PluginsInvariantNext ==
  ASSUME PluginsIInv, [PluginsNext]_pluginVars
  PROVE  PluginsIInv'
<1>1. CASE UNCHANGED pluginVars
  <2>1. UNCHANGED <<config, pool, lease, checks, grants, skill, dirs, wanted, service>> BY <1>1
    DEF pluginVars
  <2>2. dirs' \in [kept : SUBSET Revisions, removing : SUBSET Revisions] /\ skill' \in SkillRecord
    BY <2>1 DEF PluginsIInv, OthersTyped, SkillRecord, InstallRecord
  <2>3. SkillInvariant' BY <2>1, InvariantInParts, SkillStays
  <2> QED BY <2>1, <2>2, <2>3, SkillStep
<1>2. CASE PluginsNext
  <2>1. ASSUME NEW s \in Mcps, SaveMcp(s, TRUE) \/ SaveMcp(s, FALSE) \/ CheckMcp(s) PROVE PluginsIInv'
    <3>1. s \in Sources BY DEF Sources
    <3> QED BY <2>1, <3>1, SourcesStep, CheckStep
  <2>2. ASSUME NEW s \in Sources, EnableSource(s, TRUE) \/ EnableSource(s, FALSE) \/ RemoveMcp(s)
                                  \/ DisconnectAccount(s)
        PROVE PluginsIInv'
    BY <2>2, SourcesStep DEF RemoveMcp, DisconnectAccount
  <2>3. ASSUME NEW i \in Entries,
               \/ \E phase \in {"open", "unlisted", "failed"} : EntrySettles(i, phase)
               \/ ServerCloses(i) \/ CheckEnds(i)
        PROVE PluginsIInv'
    BY <2>3, EntryStep, ReleaseStep
  <2>4. ASSUME NEW l \in Leases, Acquire(l) \/ LeaseReady(l) \/ ReleaseLease(l) PROVE PluginsIInv'
    BY <2>4, AcquireStep, ReadyStep, ReleaseStep
  <2>5. ASSUME NEW p \in grants.pending,
               Callback(p) \/ Authorized(p, TRUE) \/ Authorized(p, FALSE) \/ NotAuthorized(p)
        PROVE PluginsIInv'
    BY <2>5, GrantsStep, AuthorizedStep
  <2>6. ASSUME NEW g \in grants.refreshing, RefreshEnds(g, TRUE) \/ RefreshEnds(g, FALSE) PROVE PluginsIInv'
    BY <2>6, RefreshStep
  <2>7. ASSUME (\E a \in Accounts : Authorize(a)) \/ (\E g \in GrantsInUse : Refresh(g)) \/ Shutdown
        PROVE PluginsIInv'
    BY <2>7, GrantsStep
  <2>8. ASSUME \/ InstallSkill \/ UpdatesStart \/ UpdateReaches \/ InstallEnds \/ InstallFails \/ RemoveSkill
               \/ \E r \in Revisions : Materialized(r) \/ DirectoryRemoved(r)
               \/ EnableSkill(TRUE) \/ EnableSkill(FALSE)
        PROVE PluginsIInv'
    BY <2>8, SkillsStep
  <2>9. ASSUME PoolCloses PROVE PluginsIInv' BY <2>9, ClosesStep
  <2> QED BY <1>2, <2>1, <2>2, <2>3, <2>4, <2>5, <2>6, <2>7, <2>8, <2>9 DEF PluginsNext
<1> QED BY <1>1, <1>2

\* For any sources, Turns and revisions, and however their steps interleave: no shared connection is
\* closed under a Turn or a check that holds it, none outlives what is configured once the last has let
\* go, and what ends late is recorded only where it still belongs.
THEOREM PluginsStaySound == PluginsSpec => []PluginsAreSound
<1>1. PluginsIInv => PluginsAreSound
  <2> SUFFICES ASSUME PluginsIInv PROVE PluginsAreSound OBVIOUS
  <2>1. PluginsTypeOK
    <3>1. Entries \subseteq 1..MaxEntries /\ \A i \in Entries : pool[i] \in EntryRecord
      <4>1. PICK n \in 0..MaxEntries : pool \in [1..n -> EntryRecord] BY DEF PluginsIInv, PoolTyped
      <4>2. Entries = 1..n /\ n \in Nat /\ MaxEntries \in Nat /\ n <= MaxEntries
        BY <4>1, PluginsAssumption DEF Entries
      <4> QED BY <4>1, <4>2
    <3> QED BY <3>1 DEF PluginsIInv, OthersTyped, PluginsTypeOK, EntryRecord, RevisionOrNone
  <2>2. ConnectionsAreHeld
    BY HoldersCount DEF PluginsIInv, ConnectionsAreHeld, HeldIsOpen, PoolIsSound
  <2> QED BY <2>1, <2>2 DEF PluginsAreSound, PluginsIInv
<1> QED BY <1>1, PluginsInvariantInit, PluginsInvariantNext, PTL DEF PluginsSpec

-----------------------------------------------------------------------------
(* The launcher keeps one daemon.  The argument is the lock: whoever works,   *)
(* builds or serves holds it, and nobody holds it beside another.             *)

\* The lock is held by the processes of one launch.
Exclusive == \A k, l \in Launches : Holds(k) /\ Holds(l) => k = l

\* A daemon is started by its supervisor, after the sweep.
StartedLast ==
  \A l \in Launches :
    launch[l].at \in {"none", "locking", "checking", "building", "sweeping"} => server[l] = "none"

\* The sweep keeps the app of its own launch, which is complete, and a daemon runs in that app.
RunsComplete ==
  \A l \in Launches : launch[l].at = "sweeping" \/ Serves(l) => launch[l].commit \in apps

LauncherIInv == LauncherTypeOK /\ Exclusive /\ StartedLast /\ RunsComplete

\* Nothing runs before the shell starts its first launch.
LEMMA LauncherInitHolds == LauncherInit => LauncherIInv
BY DEF LauncherInit, LauncherIInv, LauncherTypeOK, Exclusive, StartedLast, RunsComplete, Holds, Serves,
       Places

\* A launch that begins holds nothing until it has the lock, which is then free.
LEMMA ShellStartsStep ==
  ASSUME LauncherIInv, NEW l \in Launches, ShellStarts(l) PROVE LauncherIInv'
BY DEF LauncherIInv, LauncherTypeOK, Exclusive, StartedLast, RunsComplete, Holds, Serves, Places,
       ShellStarts, To

\* The lock is taken when no process of any launch holds it.
LEMMA LocksStep ==
  ASSUME LauncherIInv, NEW l \in Launches, Locks(l) PROVE LauncherIInv'
BY DEF LauncherIInv, LauncherTypeOK, Exclusive, StartedLast, RunsComplete, Holds, Serves, Places,
       Locks, To

\* A download that begins inherits the lock of its launch, and a complete app is swept for.
LEMMA ChecksStep ==
  ASSUME LauncherIInv, NEW l \in Launches, Checks(l) PROVE LauncherIInv'
BY DEF LauncherIInv, LauncherTypeOK, Exclusive, StartedLast, RunsComplete, Holds, Serves, Places,
       Checks, To

\* The app's directory appears complete, and no daemon is there to lose it.
LEMMA BuiltStep ==
  ASSUME LauncherIInv, NEW l \in Launches, Built(l) PROVE LauncherIInv'
BY DEF LauncherIInv, LauncherTypeOK, Exclusive, StartedLast, RunsComplete, Holds, Serves, Places,
       Built, To, Gone

\* The sweep runs alone, so that no other launch loses its app.
LEMMA SweepsStep ==
  ASSUME LauncherIInv, NEW l \in Launches, Sweeps(l) PROVE LauncherIInv'
BY DEF LauncherIInv, LauncherTypeOK, Exclusive, StartedLast, RunsComplete, Holds, Serves, Places,
       Sweeps, To

\* The daemon outlives the order to stop.
LEMMA SupervisorStopsStep ==
  ASSUME LauncherIInv, NEW l \in Launches, SupervisorStops(l) PROVE LauncherIInv'
BY DEF LauncherIInv, LauncherTypeOK, Exclusive, StartedLast, RunsComplete, Holds, Serves, Places,
       SupervisorStops, To

\* The supervisor ends after its daemon.
LEMMA SupervisorEndsStep ==
  ASSUME LauncherIInv, NEW l \in Launches, SupervisorEnds(l) PROVE LauncherIInv'
BY DEF LauncherIInv, LauncherTypeOK, Exclusive, StartedLast, RunsComplete, Holds, Serves, Places,
       SupervisorEnds, To

\* What a killed launch leaves behind goes on holding its lock.
LEMMA ShellKillsStep ==
  ASSUME LauncherIInv, NEW l \in Launches, ShellKills(l) PROVE LauncherIInv'
BY DEF LauncherIInv, LauncherTypeOK, Exclusive, StartedLast, RunsComplete, Holds, Serves, Places,
       ShellKills, To, Gone

\* A download whose launch is gone lets the lock go.
LEMMA BuilderEndsStep ==
  ASSUME LauncherIInv, NEW l \in Launches, BuilderEnds(l) PROVE LauncherIInv'
BY DEF LauncherIInv, LauncherTypeOK, Exclusive, StartedLast, RunsComplete, Holds, Serves, Places,
       BuilderEnds

\* A daemon that becomes ready was there before.
LEMMA DaemonReadyStep ==
  ASSUME LauncherIInv, NEW l \in Launches, DaemonReady(l) PROVE LauncherIInv'
BY DEF LauncherIInv, LauncherTypeOK, Exclusive, StartedLast, RunsComplete, Holds, Serves, Places,
       DaemonReady

\* A daemon that loses its supervisor stops, and holds the lock until then.
LEMMA LifelineEndsStep ==
  ASSUME LauncherIInv, NEW l \in Launches, LifelineEnds(l) PROVE LauncherIInv'
BY DEF LauncherIInv, LauncherTypeOK, Exclusive, StartedLast, RunsComplete, Holds, Serves, Places,
       LifelineEnds, Gone

\* A daemon that has ended lets the lock go.
LEMMA DaemonEndsStep ==
  ASSUME LauncherIInv, NEW l \in Launches, DaemonEnds(l) PROVE LauncherIInv'
BY DEF LauncherIInv, LauncherTypeOK, Exclusive, StartedLast, RunsComplete, Holds, Serves, Places,
       DaemonEnds

\* The invariant is inductive.
LEMMA LauncherNextKeeps == LauncherIInv /\ [LauncherNext]_launcherVars => LauncherIInv'
<1> SUFFICES ASSUME LauncherIInv, [LauncherNext]_launcherVars PROVE LauncherIInv' OBVIOUS
<1>1. CASE UNCHANGED launcherVars
  BY <1>1 DEF LauncherIInv, LauncherTypeOK, Exclusive, StartedLast, RunsComplete, Holds, Serves, Places,
     launcherVars
<1>2. ASSUME NEW l \in Launches,
             \/ ShellStarts(l) \/ Locks(l) \/ Checks(l) \/ Built(l) \/ Sweeps(l)
             \/ SupervisorStops(l) \/ SupervisorEnds(l) \/ ShellKills(l) \/ BuilderEnds(l)
             \/ DaemonReady(l) \/ LifelineEnds(l) \/ DaemonEnds(l)
      PROVE  LauncherIInv'
  BY <1>2, ShellStartsStep, LocksStep, ChecksStep, BuiltStep, SweepsStep, SupervisorStopsStep,
     SupervisorEndsStep, ShellKillsStep, BuilderEndsStep, DaemonReadyStep, LifelineEndsStep,
     DaemonEndsStep
<1> QED BY <1>1, <1>2 DEF LauncherNext

\* A set of which no two elements differ has at most one.
LEMMA AtMostOne ==
  ASSUME NEW S, \A x, y \in S : x = y
  PROVE  Cardinality(S) <= 1
<1>1. CASE S = {}
  BY <1>1, FS_EmptySet
<1>2. CASE S # {}
  <2>1. PICK x \in S : TRUE BY <1>2
  <2>2. S = {x} BY <2>1
  <2> QED BY <2>2, FS_Singleton
<1> QED BY <1>1, <1>2

\* The lock's holder is alone, so there is one daemon, in a complete app, with nobody beside it.
LEMMA OneDaemonFollows == LauncherIInv => OneDaemon
<1> SUFFICES ASSUME LauncherIInv PROVE OneDaemon OBVIOUS
<1>1. Cardinality({l \in Launches : Serves(l)}) <= 1 BY AtMostOne DEF LauncherIInv, Exclusive, Holds
<1>2. ASSUME NEW l \in Launches, Serves(l)
      PROVE  launch[l].commit \in apps /\ \A k \in Launches \ {l} : ~Holds(k)
  BY <1>2 DEF LauncherIInv, Exclusive, RunsComplete, Holds
<1> QED BY <1>1, <1>2 DEF OneDaemon, LauncherIInv

\* "The startup lock remains held until cleanup finishes" (README.md:51): for any number of launches
\* and revisions, in whatever order the shell kills and starts, one daemon runs in a complete app.
THEOREM OneDaemonRuns == LauncherSpec => []OneDaemon
<1>1. LauncherSpec => []LauncherIInv
  BY LauncherInitHolds, LauncherNextKeeps, PTL DEF LauncherSpec
<1> QED BY <1>1, OneDaemonFollows, PTL
=============================================================================
