----------------------------- MODULE PageProofs -----------------------------
(* What holds of the page in the browser, for any Bots, Threads, files and    *)
(* number of requests: unread attention is acknowledged honestly (Attention), *)
(* words and files stay in the conversation they were entered in (Composer),  *)
(* no change of the daemon is missed (EventReplay), and the page and the      *)
(* daemon agree on who controls a Screen (WebControl).                        *)
EXTENDS Attention, Composer, EventReplay, WebControl, FiniteSetTheorems, TLAPS

-----------------------------------------------------------------------------
(* Unread attention. *)

\* A response being written has not ended.
OpenGoesOn == \A h \in Talks : talks[h].open \notin talks[h].ended

\* What the page knows, and what it acknowledged, was so.
KnownWasSo ==
  /\ \A h \in Talks : view.known[h].rows <= talks[h].rows /\ view.known[h].ended \subseteq talks[h].ended
  /\ \A i \in DOMAIN reads : reads[i].shown \subseteq talks[reads[i].of].ended

\* The last acknowledgement is of rows of the Thread that is shown.
KeyIsShown ==
  view.key # NoRead => /\ view.key.of = view.shows
                       /\ view.key.rows > 0 /\ view.key.rows <= view.known[view.shows].rows

\* At the end of an unread Thread the last row the page knows of was acknowledged.
EndIsAsked ==
  /\ view.frame = "none" /\ view.bottom /\ view.unread.count > 0 /\ view.unread.of = view.shows
  /\ view.key # NoRead
  => view.key.rows = view.known[view.shows].rows

\* Acknowledgement i goes on, or what is unread in its Thread ended after it.
Newer(i) ==
  \/ reads[i].phase \in {"sent", "lost"}
  \/ unread.of = reads[i].of => talks[reads[i].of].ended \ reads[i].shown # {}

\* The last acknowledgement was sent.
KeyIsSent ==
  view.key # NoRead =>
    \E i \in DOMAIN reads : reads[i].of = view.key.of /\ reads[i].rows = view.key.rows /\ Newer(i)

AttentionIInv ==
  /\ AttentionTypeOK /\ OpenGoesOn /\ KnownWasSo /\ ReadWasReached
  /\ KeyIsShown /\ EndIsAsked /\ KeyIsSent

\* The acknowledgements are records, and an answer changes the phase of one.
LEMMA ReadsTyped ==
  ASSUME reads \in Seq(ReadRecord)
  PROVE  \A j \in DOMAIN reads : reads[j] \in ReadRecord /\ reads[j].of \in Talks
<1>1. \A j \in DOMAIN reads : reads[j] \in ReadRecord OBVIOUS
<1> QED BY <1>1 DEF ReadRecord

LEMMA PhaseTyped ==
  ASSUME reads \in Seq(ReadRecord), NEW i \in DOMAIN reads, NEW p \in {"cleared", "lost", "done"},
         reads' = [reads EXCEPT ![i].phase = p]
  PROVE  /\ reads' \in Seq(ReadRecord) /\ DOMAIN reads' = DOMAIN reads /\ reads'[i].phase = p
         /\ \A j \in DOMAIN reads : /\ reads'[j].of = reads[j].of /\ reads'[j].rows = reads[j].rows
                                    /\ reads'[j].shown = reads[j].shown
                                    /\ j # i => reads'[j].phase = reads[j].phase
<1> DEFINE r == [reads[i] EXCEPT !.phase = p]
<1>1. \A j \in DOMAIN reads : reads[j] \in ReadRecord BY ReadsTyped
<1>2. /\ r \in ReadRecord /\ r.of = reads[i].of /\ r.rows = reads[i].rows /\ r.shown = reads[i].shown
      /\ r.phase = p
  BY <1>1 DEF ReadRecord
<1>3. reads' = [reads EXCEPT ![i] = r] OBVIOUS
<1> HIDE DEF r
<1>4. reads' \in Seq(ReadRecord) /\ DOMAIN reads' = DOMAIN reads BY <1>2, <1>3
<1>5. \A j \in DOMAIN reads : reads'[j] = IF j = i THEN r ELSE reads[j] BY <1>3
<1> QED BY <1>2, <1>4, <1>5

\* The invariant of the attention holds at first.
LEMMA AttentionInvariantInit == AttentionInit => AttentionIInv
<1> SUFFICES ASSUME AttentionInit PROVE AttentionIInv OBVIOUS
<1> USE AttentionAssumption DEF AttentionInit
<1>1. NoRows \in RowRecord /\ NothingUnread \in UnreadRecord
      /\ NoRead \in [of : Talks \cup {"none"}, rows : Nat]
  BY DEF NoRows, RowRecord, NothingUnread, UnreadRecord, NoRead
<1>2. PICK h \in Talks :
       view = [shows |-> h, known |-> [k \in Talks |-> NoRows], unread |-> NothingUnread,
               bottom |-> TRUE, latest |-> TRUE, frame |-> "none", key |-> NoRead]
  OBVIOUS
<1>3. AttentionTypeOK
  BY <1>1, <1>2 DEF ViewRecord, AttentionTypeOK, ReadRecord, NoRows, NothingUnread
<1>4. OpenGoesOn BY DEF OpenGoesOn, NoRows
<1>5. KnownWasSo BY <1>2 DEF KnownWasSo, NoRows
<1>6. ReadWasReached /\ KeyIsShown /\ EndIsAsked /\ KeyIsSent
  BY <1>2 DEF ReadWasReached, KeyIsShown, EndIsAsked, KeyIsSent
<1> QED BY <1>3, <1>4, <1>5, <1>6 DEF AttentionIInv

\* The Threads go on and what is said of them stays true, while the page stands still.
LEMMA TalksGoOn ==
  ASSUME AttentionIInv, UNCHANGED <<view, reads>>, talks' \in [Talks -> RowRecord],
         \A h \in Talks : /\ talks'[h].open <= talks'[h].rows /\ talks'[h].ended \subseteq 1..talks'[h].rows
                          /\ talks[h].rows <= talks'[h].rows /\ talks[h].ended \subseteq talks'[h].ended
                          /\ talks'[h].open \notin talks'[h].ended,
         \/ UNCHANGED <<unread, unseen>>
         \/ \E h \in Talks : /\ unread' \in UnreadRecord /\ unread'.of = h
                             /\ talks'[h].ended = talks[h].ended \cup {talks[h].open}
                             /\ unseen' = unseen \cup {[of |-> h, row |-> talks[h].open]}
  PROVE  AttentionIInv'
<1> USE AttentionAssumption DEF AttentionIInv
<1>00. /\ AttentionTypeOK /\ talks \in [Talks -> RowRecord] /\ view \in ViewRecord /\ reads \in Seq(ReadRecord)
       /\ unseen \subseteq [of : Talks, row : Nat] /\ unread \in UnreadRecord
  BY DEF AttentionTypeOK
<1>01. \A h \in Talks : /\ talks[h].rows \in Nat /\ talks'[h].rows \in Nat /\ view.known[h].rows \in Nat
                        /\ talks[h].open \in Nat
  BY <1>00 DEF ViewRecord, RowRecord
<1>02. \A i \in DOMAIN reads : reads[i].of \in Talks BY <1>00, ReadsTyped
<1>0. /\ AttentionTypeOK /\ talks \in [Talks -> RowRecord] /\ view \in ViewRecord /\ reads \in Seq(ReadRecord)
      /\ unseen \subseteq [of : Talks, row : Nat] /\ unread \in UnreadRecord
      /\ \A h \in Talks : talks[h].rows \in Nat /\ talks'[h].rows \in Nat /\ view.known[h].rows \in Nat
                          /\ talks[h].open \in Nat
      /\ \A i \in DOMAIN reads : reads[i].of \in Talks
  BY <1>00, <1>01, <1>02
<1>1. AttentionTypeOK'
  BY <1>0 DEF AttentionTypeOK, UnreadRecord
<1>2. OpenGoesOn' BY DEF OpenGoesOn
<1>3. KnownWasSo' BY <1>0 DEF KnownWasSo
<1>4. ReadWasReached'
  <2> SUFFICES ASSUME NEW i \in DOMAIN reads, reads[i].phase = "sent",
                      NEW u \in unseen', u.of = reads[i].of, u.row \in reads[i].shown
               PROVE  FALSE
    BY DEF ReadWasReached
  <2>1. reads[i].shown \subseteq talks[reads[i].of].ended BY DEF KnownWasSo
  <2>2. CASE u \in unseen BY <2>2 DEF ReadWasReached
  <2>3. CASE u \notin unseen
    <3>1. PICK h \in Talks : u = [of |-> h, row |-> talks[h].open] BY <2>3
    <3> QED BY <2>1, <3>1 DEF OpenGoesOn
  <2> QED BY <2>2, <2>3
<1>5. KeyIsShown' /\ EndIsAsked' BY DEF KeyIsShown, EndIsAsked
<1>6. KeyIsSent'
  <2> SUFFICES ASSUME view.key # NoRead
               PROVE  \E i \in DOMAIN reads : reads[i].of = view.key.of /\ reads[i].rows = view.key.rows
                                              /\ Newer(i)'
    BY DEF KeyIsSent
  <2>1. PICK i \in DOMAIN reads : reads[i].of = view.key.of /\ reads[i].rows = view.key.rows /\ Newer(i)
    BY DEF KeyIsSent
  <2>2. reads[i].shown \subseteq talks[reads[i].of].ended /\ reads[i].of \in Talks
    BY <1>0 DEF KnownWasSo
  <2>3. Newer(i)'
    <3>1. CASE reads[i].phase \in {"sent", "lost"} BY <3>1 DEF Newer
    <3>2. CASE UNCHANGED unread BY <2>1, <2>2, <3>2 DEF Newer
    <3>3. CASE ~UNCHANGED unread
      <4>1. PICK h \in Talks : unread'.of = h /\ talks'[h].ended = talks[h].ended \cup {talks[h].open}
        BY <3>3
      <4>2. talks[h].open \notin talks[h].ended BY DEF OpenGoesOn
      <4>3. h = reads[i].of => talks'[reads[i].of].ended \ reads[i].shown # {}
        BY <2>2, <4>1, <4>2
      <4> QED BY <4>1, <4>3 DEF Newer
    <3> QED BY <3>1, <3>2, <3>3
  <2> QED BY <2>1, <2>3
<1> QED BY <1>1, <1>2, <1>3, <1>4, <1>5, <1>6

\* A row of the user or of a Turn.
LEMMA RowAppendedStep ==
  ASSUME AttentionIInv, NEW h \in Talks, RowAppended(h) PROVE AttentionIInv'
<1> DEFINE t == talks[h]
<1>1. /\ talks' = [talks EXCEPT ![h].rows = @ + 1] /\ UNCHANGED <<unread, view, reads, unseen>>
      /\ talks \in [Talks -> RowRecord]
      /\ \A k \in Talks : talks[k].open <= talks[k].rows /\ talks[k].ended \subseteq 1..talks[k].rows
      /\ \A k \in Talks : talks[k].open \notin talks[k].ended
  BY DEF RowAppended, AttentionIInv, AttentionTypeOK, OpenGoesOn
<1>2. \A k \in Talks : talks[k].rows \in Nat /\ talks[k].open \in Nat /\ talks[k].ended \in SUBSET Nat
  BY <1>1 DEF RowRecord
<1>3. talks' \in [Talks -> RowRecord] BY <1>1, <1>2 DEF RowRecord
<1>4. \A k \in Talks : /\ talks'[k].open = talks[k].open /\ talks'[k].ended = talks[k].ended
                       /\ talks'[k].rows \in {talks[k].rows, talks[k].rows + 1}
  BY <1>1 DEF RowRecord
<1>5. \A k \in Talks : talks[k].rows <= talks'[k].rows /\ talks[k].open <= talks'[k].rows
  BY <1>1, <1>2, <1>4
<1>6. \A k \in Talks : talks'[k].ended \subseteq 1..talks'[k].rows BY <1>1, <1>2, <1>4
<1> QED BY <1>1, <1>3, <1>4, <1>5, <1>6, TalksGoOn

\* A response begins.
LEMMA ResponseStartsStep ==
  ASSUME AttentionIInv, NEW h \in Talks, ResponseStarts(h) PROVE AttentionIInv'
<1>1. /\ talks' = [talks EXCEPT ![h].rows = @ + 1, ![h].open = talks[h].rows + 1]
      /\ UNCHANGED <<unread, view, reads, unseen>>
      /\ talks \in [Talks -> RowRecord]
      /\ \A k \in Talks : talks[k].open <= talks[k].rows /\ talks[k].ended \subseteq 1..talks[k].rows
      /\ \A k \in Talks : talks[k].open \notin talks[k].ended
  BY DEF ResponseStarts, AttentionIInv, AttentionTypeOK, OpenGoesOn
<1>2. \A k \in Talks : talks[k].rows \in Nat /\ talks[k].open \in Nat /\ talks[k].ended \in SUBSET Nat
  BY <1>1 DEF RowRecord
<1>3. talks' \in [Talks -> RowRecord] BY <1>1, <1>2 DEF RowRecord
<1>4. \A k \in Talks : k # h => talks'[k] = talks[k] BY <1>1
<1>5. talks'[h].ended = talks[h].ended /\ talks'[h].rows = talks[h].rows + 1
      /\ talks'[h].open = talks[h].rows + 1
  BY <1>1 DEF RowRecord
<1>6. talks[h].rows + 1 \notin talks[h].ended BY <1>1, <1>2
<1>7. \A k \in Talks : /\ talks'[k].open <= talks'[k].rows /\ talks[k].rows <= talks'[k].rows
                       /\ talks'[k].open \notin talks'[k].ended
                       /\ talks[k].ended \subseteq talks'[k].ended
  BY <1>1, <1>2, <1>4, <1>5, <1>6
<1>8. \A k \in Talks : talks'[k].ended \subseteq 1..talks'[k].rows BY <1>1, <1>2, <1>4, <1>5
<1> QED BY <1>1, <1>3, <1>7, <1>8, TalksGoOn

\* A response ends, and is counted.
LEMMA ResponseEndsStep ==
  ASSUME AttentionIInv, NEW h \in Talks, ResponseEnds(h) PROVE AttentionIInv'
<1>1. /\ talks' = [talks EXCEPT ![h].open = 0, ![h].ended = @ \cup {talks[h].open}]
      /\ talks[h].open # 0
      /\ unread' = [count |-> unread.count + 1, of |-> h]
      /\ unseen' = unseen \cup {[of |-> h, row |-> talks[h].open]}
      /\ UNCHANGED <<view, reads>>
      /\ talks \in [Talks -> RowRecord] /\ unread \in UnreadRecord
      /\ \A k \in Talks : talks[k].open <= talks[k].rows /\ talks[k].ended \subseteq 1..talks[k].rows
      /\ \A k \in Talks : talks[k].open \notin talks[k].ended
  BY DEF ResponseEnds, AttentionIInv, AttentionTypeOK, OpenGoesOn
<1>2. \A k \in Talks : talks[k].rows \in Nat /\ talks[k].open \in Nat /\ talks[k].ended \in SUBSET Nat
  BY <1>1 DEF RowRecord
<1>3. talks' \in [Talks -> RowRecord] BY <1>1, <1>2 DEF RowRecord
<1>4. \A k \in Talks : k # h => talks'[k] = talks[k] BY <1>1
<1>5. talks'[h].ended = talks[h].ended \cup {talks[h].open} /\ talks'[h].rows = talks[h].rows
      /\ talks'[h].open = 0
  BY <1>1 DEF RowRecord
<1>6. talks[h].open \in 1..talks[h].rows /\ 0 \notin talks[h].ended BY <1>1, <1>2
<1>7. \A k \in Talks : /\ talks'[k].open <= talks'[k].rows /\ talks[k].rows <= talks'[k].rows
                       /\ talks'[k].open \notin talks'[k].ended
                       /\ talks[k].ended \subseteq talks'[k].ended
                       /\ talks'[k].ended \subseteq 1..talks'[k].rows
  BY <1>1, <1>2, <1>4, <1>5, <1>6
<1>8. unread' \in UnreadRecord /\ unread'.of = h BY <1>1 DEF UnreadRecord
<1> QED BY <1>1, <1>3, <1>5, <1>7, <1>8, TalksGoOn

\* An acknowledgement reaches the daemon, or is lost.
LEMMA ReadArrivesStep ==
  ASSUME AttentionIInv, NEW i \in DOMAIN reads, ReadArrives(i) PROVE AttentionIInv'
<1> USE AttentionAssumption
<1>0. /\ AttentionTypeOK /\ view \in ViewRecord /\ reads \in Seq(ReadRecord) /\ unread \in UnreadRecord
      /\ \A j \in DOMAIN reads : reads[j] \in ReadRecord /\ reads[j].of \in Talks
      /\ UNCHANGED <<talks, view, unseen>> /\ reads[i].phase = "sent"
  BY ReadsTyped DEF AttentionIInv, AttentionTypeOK, ReadArrives
<1>1. PICK phase \in {"cleared", "lost"} :
        /\ reads' = [reads EXCEPT ![i].phase = phase]
        /\ \/ unread' = IF unread.of = reads[i].of THEN NothingUnread ELSE unread
           \/ unread' = unread /\ phase = "lost"
  BY DEF ReadArrives
<1>2. reads' \in Seq(ReadRecord) BY <1>0, <1>1, PhaseTyped
<1>3. /\ DOMAIN reads' = DOMAIN reads
      /\ \A j \in DOMAIN reads : /\ reads'[j].of = reads[j].of /\ reads'[j].rows = reads[j].rows
                                 /\ reads'[j].shown = reads[j].shown
                                 /\ j # i => reads'[j].phase = reads[j].phase
      /\ reads'[i].phase = phase
  BY <1>0, <1>1, PhaseTyped
<1>4. unread' \in UnreadRecord /\ (unread'.of = "none" => unread'.count = 0)
      /\ (unread'.of = unread.of \/ unread'.of = "none")
  BY <1>0, <1>1 DEF UnreadRecord, NothingUnread, AttentionTypeOK
<1>5. AttentionTypeOK' BY <1>0, <1>2, <1>4 DEF AttentionTypeOK, ReadRecord
<1>6. OpenGoesOn' /\ KeyIsShown' /\ EndIsAsked'
  BY <1>0 DEF AttentionIInv, OpenGoesOn, KeyIsShown, EndIsAsked
<1>7. KnownWasSo' BY <1>0, <1>3 DEF AttentionIInv, KnownWasSo
<1>8. ReadWasReached' BY <1>0, <1>1, <1>3 DEF AttentionIInv, ReadWasReached
<1>9. KeyIsSent'
  <2> SUFFICES ASSUME view.key # NoRead
               PROVE  \E j \in DOMAIN reads' : reads'[j].of = view.key.of /\ reads'[j].rows = view.key.rows
                                               /\ Newer(j)'
    BY <1>0 DEF KeyIsSent
  <2>1. PICK j \in DOMAIN reads : reads[j].of = view.key.of /\ reads[j].rows = view.key.rows /\ Newer(j)
    BY DEF AttentionIInv, KeyIsSent
  <2>2. Newer(j)'
    <3>1. CASE j # i
      BY <1>0, <1>3, <1>4, <2>1, <3>1 DEF Newer
    <3>2. CASE j = i /\ phase = "lost" BY <1>3, <3>2 DEF Newer
    <3>3. CASE j = i /\ phase = "cleared"
      <4>1. unread'.of # reads[i].of BY <1>0, <1>1, <3>3 DEF NothingUnread
      <4> QED BY <1>3, <3>3, <4>1 DEF Newer
    <3> QED BY <3>1, <3>2, <3>3
  <2> QED BY <1>3, <2>1, <2>2
<1> QED BY <1>5, <1>6, <1>7, <1>8, <1>9 DEF AttentionIInv

\* An acknowledgement is answered.
LEMMA ReadAnsweredStep ==
  ASSUME AttentionIInv, NEW i \in DOMAIN reads, ReadAnswered(i) PROVE AttentionIInv'
<1> USE AttentionAssumption
<1>0. /\ AttentionTypeOK /\ view \in ViewRecord /\ reads \in Seq(ReadRecord) /\ unread \in UnreadRecord
      /\ \A j \in DOMAIN reads : reads[j] \in ReadRecord /\ reads[j].of \in Talks
      /\ UNCHANGED <<talks, unread, unseen>> /\ reads[i].phase \in {"cleared", "lost"}
      /\ reads' = [reads EXCEPT ![i].phase = "done"]
      /\ view' = IF reads[i].phase = "lost" /\ view.key = [of |-> reads[i].of, rows |-> reads[i].rows]
                 THEN [view EXCEPT !.key = NoRead] ELSE view
  BY ReadsTyped DEF AttentionIInv, AttentionTypeOK, ReadAnswered
<1>1. NoRead \in [of : Talks \cup {"none"}, rows : Nat] BY DEF NoRead
<1>2. /\ view' \in ViewRecord /\ view'.shows = view.shows /\ view'.known = view.known
      /\ view'.unread = view.unread /\ view'.bottom = view.bottom /\ view'.frame = view.frame
      /\ view'.key \in {view.key, NoRead}
      /\ view'.key = NoRead \/ (view' = view /\ ~(reads[i].phase = "lost"
                                 /\ view.key = [of |-> reads[i].of, rows |-> reads[i].rows]))
  BY <1>0, <1>1 DEF ViewRecord
<1>3. reads' \in Seq(ReadRecord) BY <1>0, PhaseTyped
<1>4. /\ DOMAIN reads' = DOMAIN reads
      /\ \A j \in DOMAIN reads : /\ reads'[j].of = reads[j].of /\ reads'[j].rows = reads[j].rows
                                 /\ reads'[j].shown = reads[j].shown
                                 /\ j # i => reads'[j].phase = reads[j].phase
      /\ reads'[i].phase = "done"
  BY <1>0, PhaseTyped
<1>5. AttentionTypeOK' BY <1>0, <1>2, <1>3 DEF AttentionTypeOK, ReadRecord, ViewRecord
<1>6. OpenGoesOn' /\ KeyIsShown' /\ EndIsAsked'
  BY <1>0, <1>2 DEF AttentionIInv, OpenGoesOn, KeyIsShown, EndIsAsked
<1>7. KnownWasSo' BY <1>0, <1>2, <1>4 DEF AttentionIInv, KnownWasSo
<1>8. ReadWasReached' BY <1>0, <1>4 DEF AttentionIInv, ReadWasReached
<1>9. KeyIsSent'
  <2> SUFFICES ASSUME view'.key # NoRead
               PROVE  \E j \in DOMAIN reads' : reads'[j].of = view'.key.of /\ reads'[j].rows = view'.key.rows
                                               /\ Newer(j)'
    BY DEF KeyIsSent
  <2>0. view' = view /\ view.key # NoRead BY <1>2
  <2>1. PICK j \in DOMAIN reads : reads[j].of = view.key.of /\ reads[j].rows = view.key.rows /\ Newer(j)
    BY <2>0 DEF AttentionIInv, KeyIsSent
  <2>2. Newer(j)'
    <3>1. CASE j # i BY <1>0, <1>4, <2>1, <3>1 DEF Newer
    <3>2. CASE j = i
      <4>1. view.key = [of |-> reads[i].of, rows |-> reads[i].rows] BY <1>0, <2>1, <3>2 DEF ViewRecord
      <4>2. reads[i].phase = "cleared" BY <1>0, <1>2, <4>1, <2>0
      <4> QED BY <1>0, <1>4, <2>1, <3>2, <4>2 DEF Newer
    <3> QED BY <3>1, <3>2
  <2> QED BY <1>4, <2>0, <2>1, <2>2
<1> QED BY <1>5, <1>6, <1>7, <1>8, <1>9 DEF AttentionIInv

\* What the user reaches is no longer unseen.
LEMMA ReachLess ==
  ASSUME NEW v, Reach(v) PROVE unseen' \subseteq unseen
BY DEF Reach

\* The page is rendered again, with newer rows or another Thread, and looks at where it is.
LEMMA RerenderStep ==
  ASSUME AttentionIInv, UNCHANGED <<talks, reads>>, unread' = unread, NEW v \in ViewRecord, Rerender(v),
         \A h \in Talks : v.known[h] \in {view.known[h], talks[h]},
         v.key = NoRead \/ (v.key = view.key /\ v.shows = view.shows)
  PROVE  AttentionIInv'
<1>0. /\ AttentionTypeOK /\ view \in ViewRecord /\ talks \in [Talks -> RowRecord]
      /\ \A h \in Talks : talks[h].rows \in Nat /\ view.known[h].rows \in Nat
      /\ view.key.rows \in Nat /\ view.shows \in Talks
  BY DEF AttentionIInv, AttentionTypeOK, ViewRecord, RowRecord
<1>1. PICK bottom \in {FALSE, view.bottom} :
        view' = [v EXCEPT !.frame = IF v.latest THEN "follow" ELSE "look", !.bottom = bottom]
        /\ Reach(view')
  BY DEF Rerender
<1>2. /\ view' \in ViewRecord /\ view'.frame # "none" /\ view'.known = v.known /\ view'.key = v.key
      /\ view'.shows = v.shows
  BY <1>0, <1>1 DEF ViewRecord
<1>3. unseen' \subseteq unseen BY <1>1, ReachLess
<1>4. AttentionTypeOK' BY <1>0, <1>2, <1>3 DEF AttentionTypeOK, ViewRecord
<1>5. OpenGoesOn' /\ EndIsAsked' BY <1>2 DEF AttentionIInv, OpenGoesOn, EndIsAsked
<1>6. \A h \in Talks : /\ v.known[h].rows <= talks[h].rows /\ v.known[h].ended \subseteq talks[h].ended
                       /\ view.known[h].rows <= v.known[h].rows
  BY <1>0 DEF AttentionIInv, KnownWasSo
<1>7. KnownWasSo' BY <1>2, <1>6 DEF AttentionIInv, KnownWasSo
<1>8. ReadWasReached' BY <1>3 DEF AttentionIInv, ReadWasReached
<1>9. KeyIsShown'
  <2>1. CASE v.key = NoRead BY <1>2, <2>1 DEF KeyIsShown
  <2>2. CASE v.key # NoRead
    <3>1. v.key = view.key /\ v.shows = view.shows /\ view.known[view.shows].rows <= v.known[view.shows].rows
      BY <1>0, <1>6, <2>2
    <3>2. v.known[view.shows].rows \in Nat BY <1>0
    <3> QED BY <1>0, <1>2, <2>2, <3>1, <3>2 DEF AttentionIInv, KeyIsShown
  <2> QED BY <2>1, <2>2
<1>10. KeyIsSent' BY <1>2 DEF AttentionIInv, KeyIsSent, Newer
<1> QED BY <1>4, <1>5, <1>7, <1>8, <1>9, <1>10 DEF AttentionIInv

\* The page looks where it is and acknowledges what it has to.
LEMMA AcknowledgeStep ==
  ASSUME AttentionIInv, UNCHANGED <<talks, unread>>, NEW v \in ViewRecord, Acknowledge(v),
         v.known = view.known, v.key = view.key, v.shows = view.shows
  PROVE  AttentionIInv'
<1> DEFINE key == [of |-> v.shows, rows |-> v.known[v.shows].rows]
           asks == /\ v.bottom /\ v.unread.count > 0 /\ v.unread.of = v.shows
                   /\ key.rows > 0 /\ Unasked(v, key)
           sent == [of |-> key.of, rows |-> key.rows, phase |-> "sent", shown |-> v.known[key.of].ended]
<1>0. /\ AttentionTypeOK /\ view \in ViewRecord /\ talks \in [Talks -> RowRecord] /\ reads \in Seq(ReadRecord)
      /\ \A h \in Talks : v.known[h] \in RowRecord /\ v.known[h].rows \in Nat
      /\ v.shows \in Talks /\ v.key.rows \in Nat
      /\ v.key \in [of : Talks \cup {"none"}, rows : Nat]
  BY DEF AttentionIInv, AttentionTypeOK, ViewRecord, ReadRecord, RowRecord
<1>1. /\ view' = [v EXCEPT !.latest = v.bottom, !.key = IF asks THEN key ELSE @]
      /\ asks => reads' = Append(reads, sent)
      /\ ~asks => reads' = reads
      /\ Reach(v)
  BY DEF Acknowledge
<1>2. /\ view' \in ViewRecord /\ view'.key = (IF asks THEN key ELSE v.key) /\ view'.known = v.known
      /\ view'.shows = v.shows /\ view'.unread = v.unread /\ view'.bottom = v.bottom
  BY <1>0, <1>1 DEF ViewRecord
<1>3. unseen' \subseteq unseen BY <1>1, ReachLess
<1>4. sent \in ReadRecord BY <1>0 DEF ReadRecord, RowRecord
<1>5. reads' \in Seq(ReadRecord) BY <1>0, <1>1, <1>4
<1>6. /\ DOMAIN reads \subseteq DOMAIN reads' /\ \A i \in DOMAIN reads : reads'[i] = reads[i]
      /\ \A i \in DOMAIN reads' \ DOMAIN reads : asks /\ reads'[i] = sent
      /\ asks => \E i \in DOMAIN reads' : reads'[i] = sent
  <2>1. CASE asks
    <3>1. /\ DOMAIN reads' = 1..(Len(reads) + 1) /\ DOMAIN reads = 1..Len(reads) /\ Len(reads) \in Nat
          /\ \A i \in 1..Len(reads) : reads'[i] = reads[i]
          /\ reads'[Len(reads) + 1] = sent
      BY <1>0, <1>1, <1>4, <2>1
    <3> QED BY <2>1, <3>1
  <2>2. CASE ~asks BY <1>1, <2>2
  <2> QED BY <2>1, <2>2
<1>7. AttentionTypeOK' BY <1>0, <1>2, <1>3, <1>5 DEF AttentionTypeOK, ViewRecord, ReadRecord
<1>8. OpenGoesOn' BY DEF AttentionIInv, OpenGoesOn
<1>9. KnownWasSo' BY <1>0, <1>2, <1>6 DEF AttentionIInv, KnownWasSo
<1>10. ReadWasReached'
  <2> SUFFICES ASSUME NEW i \in DOMAIN reads', reads'[i].phase = "sent",
                      NEW u \in unseen', u.of = reads'[i].of, u.row \in reads'[i].shown
               PROVE  FALSE
    BY DEF ReadWasReached
  <2>1. CASE i \in DOMAIN reads BY <1>3, <1>6, <2>1 DEF AttentionIInv, ReadWasReached
  <2>2. CASE i \notin DOMAIN reads
    <3>1. asks /\ reads'[i] = sent BY <1>6, <2>2
    <3> QED BY <1>1, <3>1 DEF Reach
  <2> QED BY <2>1, <2>2
<1>11. KeyIsShown' /\ EndIsAsked'
  <2>1. CASE asks BY <1>0, <1>2, <2>1 DEF KeyIsShown, EndIsAsked
  <2>2. CASE ~asks
    <3>1. KeyIsShown' BY <1>2, <2>2 DEF AttentionIInv, KeyIsShown
    <3>2. SUFFICES ASSUME v.bottom, v.unread.count > 0, v.unread.of = v.shows, v.key # NoRead
                   PROVE  v.key.rows = v.known[v.shows].rows
      BY <1>2, <2>2, <3>1 DEF EndIsAsked
    <3>3. v.known[v.shows].rows > 0 BY <1>0, <3>2 DEF AttentionIInv, KeyIsShown
    <3> QED BY <2>2, <3>2, <3>3 DEF Unasked
  <2> QED BY <2>1, <2>2
<1>12. KeyIsSent'
  <2>1. CASE asks
    <3>1. PICK i \in DOMAIN reads' : reads'[i] = sent BY <1>6, <2>1
    <3> QED BY <1>2, <2>1, <3>1 DEF KeyIsSent, Newer
  <2>2. CASE ~asks BY <1>1, <1>2, <2>2 DEF AttentionIInv, KeyIsSent, Newer
  <2> QED BY <2>1, <2>2
<1> QED BY <1>7, <1>8, <1>9, <1>10, <1>11, <1>12 DEF AttentionIInv

\* Every step keeps the invariant of the attention.
LEMMA AttentionInvariantNext == AttentionIInv /\ [AttentionNext]_attentionVars => AttentionIInv'
<1> SUFFICES ASSUME AttentionIInv, [AttentionNext]_attentionVars PROVE AttentionIInv' OBVIOUS
<1>0. view \in ViewRecord /\ talks \in [Talks -> RowRecord] /\ unread \in UnreadRecord
  BY DEF AttentionIInv, AttentionTypeOK, ViewRecord
<1>1. CASE UNCHANGED attentionVars
  BY <1>1 DEF attentionVars, AttentionIInv, AttentionTypeOK, OpenGoesOn, KnownWasSo, ReadWasReached,
              KeyIsShown, EndIsAsked, KeyIsSent, Newer
<1>2. ASSUME NEW h \in Talks, RowAppended(h) \/ ResponseStarts(h) \/ ResponseEnds(h) PROVE AttentionIInv'
  BY <1>2, RowAppendedStep, ResponseStartsStep, ResponseEndsStep
<1>3. ASSUME NEW i \in DOMAIN reads, ReadArrives(i) \/ ReadAnswered(i) PROVE AttentionIInv'
  BY <1>3, ReadArrivesStep, ReadAnsweredStep
<1>4. ASSUME NEW h \in Talks, OpenTalk(h) PROVE AttentionIInv'
  <2> DEFINE v == [view EXCEPT !.shows = h, !.latest = TRUE, !.key = NoRead]
  <2>1. Rerender(v) /\ UNCHANGED <<talks, unread, reads>> BY <1>4 DEF OpenTalk
  <2>2. NoRead \in [of : Talks \cup {"none"}, rows : Nat] BY DEF NoRead
  <2>3. v \in ViewRecord /\ v.known = view.known /\ v.key = NoRead BY <1>0, <2>2 DEF ViewRecord
  <2> HIDE DEF v
  <2> QED BY <2>1, <2>3, RerenderStep
<1>5. CASE RowsHeard
  <2> DEFINE v == [view EXCEPT !.known[view.shows] = talks[view.shows]]
  <2>1. Rerender(v) /\ UNCHANGED <<talks, unread, reads>> BY <1>5 DEF RowsHeard
  <2>2. /\ v \in ViewRecord /\ v.key = view.key /\ v.shows = view.shows
        /\ \A k \in Talks : v.known[k] \in {view.known[k], talks[k]}
    BY <1>0 DEF ViewRecord
  <2> HIDE DEF v
  <2> QED BY <2>1, <2>2, RerenderStep
<1>6. CASE BotsHeard
  <2> DEFINE v == [view EXCEPT !.unread = unread]
  <2>1. Rerender(v) /\ UNCHANGED <<talks, unread, reads>> BY <1>6 DEF BotsHeard
  <2>2. v \in ViewRecord /\ v.key = view.key /\ v.shows = view.shows /\ v.known = view.known
    BY <1>0 DEF ViewRecord
  <2> HIDE DEF v
  <2> QED BY <2>1, <2>2, RerenderStep
<1>7. CASE Frame
  <2> DEFINE v == [view EXCEPT !.frame = "none", !.bottom = (view.frame = "follow") \/ @]
  <2>1. Acknowledge(v) /\ UNCHANGED <<talks, unread>> BY <1>7 DEF Frame
  <2>2. v \in ViewRecord /\ v.key = view.key /\ v.shows = view.shows /\ v.known = view.known
    BY <1>0 DEF ViewRecord
  <2> HIDE DEF v
  <2> QED BY <2>1, <2>2, AcknowledgeStep
<1>8. CASE Scroll
  <2> DEFINE v == [view EXCEPT !.bottom = ~@]
  <2>1. Acknowledge(v) /\ UNCHANGED <<talks, unread>> BY <1>8 DEF Scroll
  <2>2. v \in ViewRecord /\ v.key = view.key /\ v.shows = view.shows /\ v.known = view.known
    BY <1>0 DEF ViewRecord
  <2> HIDE DEF v
  <2> QED BY <2>1, <2>2, AcknowledgeStep
<1> QED BY <1>1, <1>2, <1>3, <1>4, <1>5, <1>6, <1>7, <1>8 DEF AttentionNext

\* The invariant says what is asked of the attention.
LEMMA AttentionHonest == AttentionIInv => AttentionIsHonest
<1> SUFFICES ASSUME AttentionIInv PROVE EndIsRead BY DEF AttentionIInv, AttentionIsHonest
<1> SUFFICES ASSUME AllHeard, view.bottom, unread.count > 0, unread.of = view.shows, view.key # NoRead
             PROVE  /\ view.key.rows = view.known[view.shows].rows
                    /\ \E i \in DOMAIN reads :
                         /\ reads[i].of = view.key.of /\ reads[i].rows = view.key.rows
                         /\ view.known[view.shows].ended \ reads[i].shown # {}
  BY DEF EndIsRead
<1>1. view.key.rows = view.known[view.shows].rows BY DEF AttentionIInv, EndIsAsked, AllHeard
<1>2. PICK i \in DOMAIN reads : reads[i].of = view.key.of /\ reads[i].rows = view.key.rows /\ Newer(i)
  BY DEF AttentionIInv, KeyIsSent
<1>3. view.key.of = view.shows /\ view.known[view.shows] = talks[view.shows] /\ reads[i].phase = "done"
  BY DEF AttentionIInv, KeyIsShown, AllHeard
<1> QED BY <1>1, <1>2, <1>3 DEF Newer

\* AttentionIsHonest: an acknowledgement tells only of output the user reached, and a user at the end
\* of an unread Thread has read it, however the page's two queries, its frames and the answers to its
\* acknowledgements cross.
THEOREM AttentionStaysHonest == AttentionSpec => []AttentionIsHonest
<1> QED BY AttentionInvariantInit, AttentionInvariantNext, AttentionHonest, PTL DEF AttentionSpec

-----------------------------------------------------------------------------
(* Drafts and attachments.  What the words and files are of is said of the    *)
(* homes h of words and the table u of files.                                 *)

\* The words and files are of Bot b.
InHome(h, u, b, text, files) ==
  /\ text \subseteq DOMAIN h /\ \A w \in text : h[w] = b
  /\ \A f \in files : u[f].kind # "none" /\ u[f].bot = b

DraftFits(h, u, b, d) == d \in DraftType /\ InHome(h, u, b, d.text, d.files)

RestoreRecord ==
  [files : SUBSET Files, draft : DraftType, found : SUBSET Files, missing : SUBSET Files, asked : BOOLEAN]

PageRecord ==
  [selected : Bots, draft : DraftType, drawer : SUBSET Files, restoring : RestoreRecord,
   voice : {"idle", "recording", "transcribing"}, origin : Bots \cup {NoOrigin}]

\* What the page shows and restores is of the Bot that is selected.
PageFits(h, u, p) ==
  /\ p \in PageRecord
  /\ DraftFits(h, u, p.selected, p.draft)
  /\ InHome(h, u, p.selected, {}, p.drawer)
  /\ DraftFits(h, u, p.selected, p.restoring.draft)
  /\ InHome(h, u, p.selected, {}, p.restoring.files)
  /\ p.restoring.found \subseteq p.restoring.files

StoreFits(h, u, st) == st \in [Bots -> DraftType] /\ \A b \in Bots : DraftFits(h, u, b, st[b])

CallRecord ==
  [kind : {"upload", "remove", "send", "voice", "listen", "stop", "cancel", "delete"}, bot : Bots,
   text : SUBSET (1..MaxWords), files : SUBSET Files, token : Nat, kept : DraftType,
   phase : {"sent", "done", "failed", "cleaning"}]

\* An upload whose file is not known as staged.
Pending(c) == c.kind = "upload" /\ c.phase # "done"

\* What a request carries is of its Bot, but for a file that is being uploaded.
CallFits(h, u, c) ==
  /\ c \in CallRecord
  /\ DraftFits(h, u, c.bot, c.kept)
  /\ InHome(h, u, c.bot, c.text, IF Pending(c) THEN {} ELSE c.files)
  /\ c.kind = "upload" => c.token \in 0..MaxTokens

\* A file that is being uploaded is in no other upload, and nowhere else yet.
UploadsFit(u, cs) ==
  \A c \in cs : Pending(c) =>
    /\ \A f \in c.files : u[f].kind = "none"
    /\ \A d \in cs : Pending(d) /\ d.files \cap c.files # {} => d = c

MailFits(h, u, x) ==
  /\ x \in [bot : Bots, text : SUBSET (1..MaxWords), files : SUBSET Files]
  /\ InHome(h, u, x.bot, x.text, x.files)

UploadRecord == [kind : {"none", "staged", "managed", "gone"}, bot : Bots, token : 0..MaxTokens]

HomeTyped(h) == \E n \in Nat : DOMAIN h = 1..n /\ h \in [1..n -> Bots]

WorldTyped ==
  /\ uploads \in [Files -> UploadRecord]
  /\ disk \in [Files -> {"none", "staged", "managed"}]
  /\ bots \in [Bots -> {"here", "cleaning", "failed", "gone"}]
  /\ HomeTyped(home)
  /\ moves \in [count : Nat, token : 0..MaxTokens]

ComposerIInv ==
  /\ WorldTyped
  /\ StoreFits(home, uploads, store)
  /\ PageFits(home, uploads, page)
  /\ \A c \in calls : CallFits(home, uploads, c)
  /\ UploadsFit(uploads, calls)
  /\ \A x \in mail : MailFits(home, uploads, x)
  /\ SentFilesKept

\* Drafts of nothing are of any Bot.
LEMMA EmptyFits ==
  ASSUME ComposerAssumption, NEW h, NEW u, NEW b
  PROVE  DraftFits(h, u, b, EmptyDraft) /\ EmptyDraft \in DraftType /\ NotRestoring \in RestoreRecord
         /\ InHome(h, u, b, {}, {}) /\ NotRestoring.files = {} /\ NotRestoring.found = {}
         /\ NotRestoring.draft = EmptyDraft
<1>1. EmptyDraft \in DraftType BY ComposerAssumption DEF EmptyDraft, DraftType, NoToken
<1>2. InHome(h, u, b, {}, {}) BY DEF InHome
<1> QED BY <1>1, <1>2 DEF DraftFits, EmptyDraft, NotRestoring, RestoreRecord

\* The invariant of the Composer holds at first.
LEMMA ComposerInvariantInit == ComposerInit => ComposerIInv
<1> SUFFICES ASSUME ComposerInit PROVE ComposerIInv OBVIOUS
<1> USE ComposerAssumption DEF ComposerInit
<1>1. WorldTyped
  <2>1. DOMAIN home = 1..0 /\ home \in [1..0 -> Bots] OBVIOUS
  <2>2. HomeTyped(home) BY <2>1 DEF HomeTyped
  <2> QED BY <2>2 DEF WorldTyped, UploadRecord, NoToken
<1>2. StoreFits(home, uploads, store) BY EmptyFits DEF StoreFits
<1>3. PageFits(home, uploads, page) BY EmptyFits DEF PageRecord, NoOrigin, PageFits
<1>4. UploadsFit(uploads, calls) BY DEF UploadsFit
<1>5. SentFilesKept BY DEF SentFilesKept
<1> QED BY <1>1, <1>2, <1>3, <1>4, <1>5 DEF ComposerIInv

\* Words and files keep their Bot while the words and the files that are known keep theirs.
Goes(h, u, h2, u2) ==
  /\ \A w \in DOMAIN h : w \in DOMAIN h2 /\ h2[w] = h[w]
  /\ \A f \in Files : u[f].kind # "none" => u2[f].kind # "none" /\ u2[f].bot = u[f].bot

LEMMA HomeStays ==
  ASSUME NEW h, NEW u, NEW h2, NEW u2, Goes(h, u, h2, u2), NEW b, NEW text, NEW files \in SUBSET Files,
         InHome(h, u, b, text, files)
  PROVE  InHome(h2, u2, b, text, files)
BY DEF Goes, InHome

LEMMA DraftStays ==
  ASSUME NEW h, NEW u, NEW h2, NEW u2, Goes(h, u, h2, u2), NEW b, NEW d, DraftFits(h, u, b, d)
  PROVE  DraftFits(h2, u2, b, d)
<1>1. d \in DraftType /\ d.files \in SUBSET Files /\ InHome(h, u, b, d.text, d.files)
  BY DEF DraftFits, DraftType
<1> QED BY <1>1, HomeStays DEF DraftFits

LEMMA PageStays ==
  ASSUME NEW h, NEW u, NEW h2, NEW u2, Goes(h, u, h2, u2), NEW p, PageFits(h, u, p)
  PROVE  PageFits(h2, u2, p)
<1>1. p \in PageRecord /\ p.drawer \in SUBSET Files /\ p.restoring.files \in SUBSET Files
  BY DEF PageFits, PageRecord, RestoreRecord
<1>2. InHome(h2, u2, p.selected, {}, p.drawer) /\ InHome(h2, u2, p.selected, {}, p.restoring.files)
  BY <1>1, HomeStays DEF PageFits
<1>3. DraftFits(h2, u2, p.selected, p.draft) /\ DraftFits(h2, u2, p.selected, p.restoring.draft)
  BY DraftStays DEF PageFits
<1> QED BY <1>1, <1>2, <1>3 DEF PageFits

LEMMA CallStays ==
  ASSUME NEW h, NEW u, NEW h2, NEW u2, Goes(h, u, h2, u2), NEW c, CallFits(h, u, c)
  PROVE  CallFits(h2, u2, c)
<1>1. c \in CallRecord /\ (IF Pending(c) THEN {} ELSE c.files) \in SUBSET Files BY
  DEF CallFits, CallRecord
<1>2. InHome(h2, u2, c.bot, c.text, IF Pending(c) THEN {} ELSE c.files) BY <1>1, HomeStays DEF CallFits
<1> QED BY <1>2, DraftStays DEF CallFits

LEMMA StoreStays ==
  ASSUME NEW h, NEW u, NEW h2, NEW u2, Goes(h, u, h2, u2), NEW st, StoreFits(h, u, st)
  PROVE  StoreFits(h2, u2, st)
BY DraftStays DEF StoreFits

LEMMA MailStays ==
  ASSUME NEW h, NEW u, NEW h2, NEW u2, Goes(h, u, h2, u2), NEW x, MailFits(h, u, x)
  PROVE  MailFits(h2, u2, x)
<1>1. x.files \in SUBSET Files BY DEF MailFits
<1> QED BY <1>1, HomeStays DEF MailFits

\* Nothing changes what words and files are of.
Rests == Goes(home, uploads, home', uploads')

\* A step of the window, after which its drafts, page and requests fit.
LEMMA WindowKeeps ==
  ASSUME ComposerIInv, UNCHANGED <<uploads, disk, bots, mail, home>>,
         moves' \in [count : Nat, token : 0..MaxTokens],
         StoreFits(home, uploads, store'), PageFits(home, uploads, page'),
         \A c \in calls' : CallFits(home, uploads, c), UploadsFit(uploads, calls')
  PROVE  ComposerIInv'
<1>1. WorldTyped' BY DEF ComposerIInv, WorldTyped, HomeTyped
<1>2. SentFilesKept' BY DEF ComposerIInv, SentFilesKept
<1>3. UploadsFit(uploads', calls') /\ StoreFits(home', uploads', store') /\ PageFits(home', uploads', page')
      /\ (\A c \in calls' : CallFits(home', uploads', c)) /\ (\A x \in mail' : MailFits(home', uploads', x))
  BY DEF ComposerIInv
<1> QED BY <1>1, <1>2, <1>3 DEF ComposerIInv

\* The store after the draft of one Bot was saved.
LEMMA SavedFits ==
  ASSUME StoreFits(home, uploads, store), NEW b \in Bots, NEW d, DraftFits(home, uploads, b, d), Saved(b, d)
  PROVE  StoreFits(home, uploads, store')
<1>1. d \in DraftType BY DEF DraftFits
<1> QED BY <1>1 DEF StoreFits, Saved

\* The uploads fit while no other request waits for one.
LEMMA CallsFit ==
  ASSUME NEW u, UploadsFit(u, calls), NEW cs, \A d \in cs : d \in calls \/ ~Pending(d)
  PROVE  UploadsFit(u, cs)
BY DEF UploadsFit

\* A request in another phase is of the same Bot.
LEMMA PhaseFits ==
  ASSUME \A d \in calls : CallFits(home, uploads, d), UploadsFit(uploads, calls), NEW c \in calls,
         c.phase # "done", NEW p \in {"done", "failed", "cleaning"}, Phase(c, p),
         ~Pending(c) \/ p # "done"
  PROVE  (\A d \in calls' : CallFits(home, uploads, d)) /\ UploadsFit(uploads, calls')
<1> DEFINE n == [c EXCEPT !.phase = p]
<1>1. /\ n \in CallRecord /\ n.kind = c.kind /\ n.bot = c.bot /\ n.text = c.text /\ n.files = c.files
      /\ n.token = c.token /\ n.kept = c.kept /\ n.phase = p
  BY DEF CallFits, CallRecord
<1>2. calls' = (calls \ {c}) \cup {n} BY DEF Phase
<1> HIDE DEF n
<1>3. Pending(n) <=> Pending(c) BY <1>1 DEF Pending
<1>4. CallFits(home, uploads, n) BY <1>1, <1>3 DEF CallFits
<1>5. UploadsFit(uploads, calls') BY <1>1, <1>2, <1>3 DEF UploadsFit
<1> QED BY <1>2, <1>4, <1>5

\* A new request of the window that uploads nothing.
LEMMA AskFits ==
  ASSUME \A d \in calls : CallFits(home, uploads, d), UploadsFit(uploads, calls), ComposerAssumption,
         NEW kind \in {"remove", "send", "voice", "listen", "stop", "cancel", "delete"}, NEW b \in Bots,
         NEW text \in SUBSET (1..MaxWords), NEW files \in SUBSET Files, NEW token \in Nat, NEW kept,
         InHome(home, uploads, b, text, files), DraftFits(home, uploads, b, kept),
         NEW cs, \A d \in cs : d \in calls \/ d = Call(kind, b, text, files, token, kept)
  PROVE  (\A d \in cs : CallFits(home, uploads, d)) /\ UploadsFit(uploads, cs)
<1> DEFINE n == Call(kind, b, text, files, token, kept)
<1>1. /\ n \in CallRecord /\ n.kind = kind /\ n.bot = b /\ n.text = text /\ n.files = files /\ n.kept = kept
  BY DEF Call, CallRecord, DraftFits
<1>2. \A d \in cs : d \in calls \/ d = n OBVIOUS
<1> HIDE DEF n
<1>3. ~Pending(n) BY <1>1 DEF Pending
<1>4. CallFits(home, uploads, n) BY <1>1, <1>3 DEF CallFits
<1> QED BY <1>2, <1>3, <1>4, CallsFit

\* The page shows a draft of the origin.
LEMMA ShownFits ==
  ASSUME NEW h, NEW u, NEW p, PageFits(h, u, p), NEW b \in Bots, NEW d, DraftFits(h, u, b, d)
  PROVE  PageFits(h, u, ShowAtOrigin(p, b, d)) /\ ShowAtOrigin(p, b, d).selected = p.selected
<1>1. CASE p.selected # b BY <1>1 DEF ShowAtOrigin
<1>2. CASE p.selected = b
  <2> DEFINE n == [p EXCEPT !.draft = d]
  <2>1. ShowAtOrigin(p, b, d) = n BY <1>2 DEF ShowAtOrigin
  <2>2. /\ n \in PageRecord /\ n.selected = p.selected /\ n.draft = d /\ n.drawer = p.drawer
        /\ n.restoring = p.restoring
    BY DEF PageFits, PageRecord, DraftFits
  <2> HIDE DEF n
  <2> QED BY <1>2, <2>1, <2>2 DEF PageFits
<1> QED BY <1>1, <1>2

\* Dictation changes nothing that is of a Bot.
LEMMA VoiceFits ==
  ASSUME NEW h, NEW u, NEW p, PageFits(h, u, p), NEW v \in {"idle", "recording", "transcribing"},
         NEW o \in Bots \cup {NoOrigin}
  PROVE  /\ PageFits(h, u, [p EXCEPT !.voice = v]) /\ PageFits(h, u, [p EXCEPT !.origin = o])
         /\ PageFits(h, u, [p EXCEPT !.voice = v, !.origin = o])
BY DEF PageFits, PageRecord

\* The page enters the conversation of a Bot.
LEMMA EnteredFits ==
  ASSUME ComposerAssumption, StoreFits(home, uploads, store), PageFits(home, uploads, page), NEW b \in Bots
  PROVE  PageFits(home, uploads, Entered(page, b)) /\ DraftFits(home, uploads, b, Entered(page, b).draft)
         /\ Entered(page, b).selected = b
<1> DEFINE kept == IF store[b].token = NoToken THEN [store[b] EXCEPT !.files = {}] ELSE store[b]
           asked == [NotRestoring EXCEPT !.files = kept.files, !.draft = kept, !.asked = TRUE]
           r == IF kept.files = {} THEN NotRestoring ELSE asked
           n == [page EXCEPT !.selected = b, !.draft = kept, !.drawer = {}, !.restoring = r]
<1>1. DraftFits(home, uploads, b, kept) BY DEF StoreFits, DraftType, DraftFits, InHome
<1>2. kept \in DraftType /\ kept.files \in SUBSET Files /\ InHome(home, uploads, b, {}, kept.files)
  BY <1>1 DEF DraftFits, DraftType, InHome
<1> HIDE DEF kept
<1>3. asked \in RestoreRecord /\ asked.files = kept.files /\ asked.draft = kept /\ asked.found = {}
  BY <1>2, EmptyFits DEF RestoreRecord, NotRestoring
<1> HIDE DEF asked
<1>4. /\ r \in RestoreRecord /\ DraftFits(home, uploads, b, r.draft)
      /\ InHome(home, uploads, b, {}, r.files) /\ r.found \subseteq r.files
  BY <1>1, <1>2, <1>3, EmptyFits
<1>5. Entered(page, b) = n BY DEF Entered, kept, asked
<1> HIDE DEF r
<1>6. /\ n \in PageRecord /\ n.selected = b /\ n.draft = kept /\ n.drawer = {} /\ n.restoring = r
  BY <1>2, <1>4 DEF PageFits, PageRecord
<1> HIDE DEF n
<1>7. InHome(home, uploads, b, {}, {}) BY DEF InHome
<1> QED BY <1>1, <1>4, <1>5, <1>6, <1>7 DEF PageFits

\* What the invariant says of the window.
LEMMA WindowFacts ==
  ASSUME ComposerIInv
  PROVE  /\ StoreFits(home, uploads, store) /\ PageFits(home, uploads, page)
         /\ \A b \in Bots : store[b] \in DraftType /\ DraftFits(home, uploads, b, store[b])
         /\ \A c \in calls : /\ CallFits(home, uploads, c) /\ c \in CallRecord /\ c.bot \in Bots
                             /\ c.files \in SUBSET Files /\ c.text \in SUBSET (1..MaxWords)
                             /\ c.token \in Nat /\ c.kept \in DraftType
                             /\ DraftFits(home, uploads, c.bot, c.kept)
         /\ UploadsFit(uploads, calls)
         /\ page \in PageRecord /\ page.selected \in Bots /\ page.draft \in DraftType
         /\ page.origin \in Bots \cup {NoOrigin} /\ page.restoring \in RestoreRecord
         /\ moves \in [count : Nat, token : 0..MaxTokens]
<1>1. page \in PageRecord BY DEF ComposerIInv, PageFits
<1>2. \A c \in calls : c \in CallRecord /\ DraftFits(home, uploads, c.bot, c.kept)
  BY DEF ComposerIInv, CallFits
<1> QED BY <1>1, <1>2 DEF ComposerIInv, StoreFits, PageRecord, CallRecord, WorldTyped

\* What the user does is counted.
LEMMA CountedTyped ==
  ASSUME ComposerIInv, Counted \/ UNCHANGED moves
  PROVE  moves' \in [count : Nat, token : 0..MaxTokens]
BY WindowFacts DEF Counted

\* The parts of a draft.
LEMMA DraftParts ==
  ASSUME NEW h, NEW u, NEW b, NEW d, DraftFits(h, u, b, d)
  PROVE  /\ d \in DraftType /\ d.text \in SUBSET (1..MaxWords) /\ d.files \in SUBSET Files
         /\ d.token \in 0..MaxTokens
         /\ InHome(h, u, b, d.text, d.files) /\ InHome(h, u, b, {}, d.files) /\ InHome(h, u, b, d.text, {})
BY DEF DraftFits, DraftType, InHome

\* The user selects another conversation.
LEMMA SelectStep ==
  ASSUME ComposerAssumption, ComposerIInv, NEW b \in Bots, Select(b) PROVE ComposerIInv'
<1>1. /\ page' = Entered(page, b) /\ Saved(b, Entered(page, b).draft) /\ Counted
      /\ UNCHANGED <<calls, uploads, disk, bots, mail, home>>
  BY DEF Select
<1>2. StoreFits(home, uploads, store') BY <1>1, WindowFacts, EnteredFits, SavedFits
<1>3. PageFits(home, uploads, page') BY <1>1, WindowFacts, EnteredFits
<1> QED BY <1>1, <1>2, <1>3, WindowFacts, CountedTyped, WindowKeeps

\* The page is loaded again.
LEMMA ReloadStep ==
  ASSUME ComposerAssumption, ComposerIInv, Reload PROVE ComposerIInv'
<1> DEFINE b == page.selected
<1>1. /\ page' = [Entered(page, b) EXCEPT !.voice = "idle", !.origin = NoOrigin]
      /\ Saved(b, Entered(page, b).draft) /\ Counted /\ calls' = {}
      /\ UNCHANGED <<uploads, disk, bots, mail, home>> /\ b \in Bots
  BY WindowFacts DEF Reload
<1>2. StoreFits(home, uploads, store') BY <1>1, WindowFacts, EnteredFits, SavedFits
<1>3. PageFits(home, uploads, Entered(page, b)) BY <1>1, WindowFacts, EnteredFits
<1>4. PageFits(home, uploads, page') BY <1>1, <1>3, VoiceFits
<1>5. UploadsFit(uploads, calls') BY <1>1 DEF UploadsFit
<1> QED BY <1>1, <1>2, <1>4, <1>5, WindowFacts, CountedTyped, WindowKeeps

\* The files of the draft are asked for, and the draft is shown without those that are gone.
LEMMA RestoreSteps ==
  ASSUME ComposerAssumption, ComposerIInv, RestoreAnswered \/ RestoreEnds PROVE ComposerIInv'
<1> DEFINE r == page.restoring
<1>0. /\ r \in RestoreRecord /\ r.files \in SUBSET Files /\ DraftFits(home, uploads, page.selected, r.draft)
      /\ InHome(home, uploads, page.selected, {}, r.files) /\ r.found \subseteq r.files
  BY WindowFacts DEF PageFits, RestoreRecord
<1>1. CASE RestoreAnswered
  <2>1. PICK found \in SUBSET r.files : \E missing \in SUBSET r.files :
          page' = [page EXCEPT !.restoring.asked = FALSE, !.restoring.found = found,
                               !.restoring.missing = missing]
    BY <1>1 DEF RestoreAnswered
  <2>2. PICK missing \in SUBSET r.files :
          page' = [page EXCEPT !.restoring = [r EXCEPT !.asked = FALSE, !.found = found, !.missing = missing]]
    BY <2>1, WindowFacts DEF PageRecord
  <2> DEFINE n == [r EXCEPT !.asked = FALSE, !.found = found, !.missing = missing]
  <2>3. n \in RestoreRecord /\ n.files = r.files /\ n.draft = r.draft /\ n.found \subseteq r.files
    BY <1>0 DEF RestoreRecord
  <2>4. page' = [page EXCEPT !.restoring = n] BY <2>2
  <2> HIDE DEF n
  <2>5. /\ page' \in PageRecord /\ page'.selected = page.selected /\ page'.draft = page.draft
        /\ page'.drawer = page.drawer /\ page'.restoring = n
    BY <2>3, <2>4, WindowFacts DEF PageRecord
  <2>6. PageFits(home, uploads, page') BY <1>0, <2>3, <2>5, WindowFacts DEF PageFits
  <2>7. UNCHANGED <<store, calls, uploads, disk, bots, mail, home, moves>> BY <1>1 DEF RestoreAnswered
  <2> QED BY <2>6, <2>7, WindowFacts, WindowKeeps
<1>2. CASE RestoreEnds
  <2> DEFINE left == r.files \ r.missing
             next == [r.draft EXCEPT !.files = left, !.token = IF left = {} THEN NoToken ELSE @]
  <2>1. /\ page' = [page EXCEPT !.draft = next, !.drawer = r.found, !.restoring = NotRestoring]
        /\ Saved(page.selected, next) \/ UNCHANGED store
        /\ UNCHANGED <<calls, uploads, disk, bots, mail, home, moves>>
    BY <1>2 DEF RestoreEnds
  <2>2. DraftFits(home, uploads, page.selected, next)
    <3>0. r.draft \in DraftType /\ left \in SUBSET Files /\ NoToken \in 0..MaxTokens
      BY <1>0, ComposerAssumption DEF DraftFits, NoToken
    <3>1. /\ next \in DraftType /\ next.text = r.draft.text /\ next.files \subseteq r.files
      BY <3>0 DEF DraftType
    <3> HIDE DEF next
    <3> QED BY <1>0, <3>1 DEF DraftFits, InHome
  <2>3. next \in DraftType BY <2>2 DEF DraftFits
  <2> HIDE DEF next
  <2>4. /\ page' \in PageRecord /\ page'.selected = page.selected /\ page'.draft = next
        /\ page'.drawer = r.found /\ page'.restoring = NotRestoring
    BY <1>0, <2>1, <2>3, WindowFacts, EmptyFits DEF PageRecord
  <2>5. InHome(home, uploads, page.selected, {}, r.found) BY <1>0 DEF InHome
  <2>6. PageFits(home, uploads, page') BY <2>2, <2>4, <2>5, EmptyFits DEF PageFits
  <2>7. StoreFits(home, uploads, store') BY <2>1, <2>2, WindowFacts, SavedFits
  <2> QED BY <2>1, <2>6, <2>7, WindowFacts, WindowKeeps
<1> QED BY <1>1, <1>2

\* The cursor is stored with the draft.
LEMMA RememberCursorStep ==
  ASSUME ComposerAssumption, ComposerIInv, RememberCursor PROVE ComposerIInv'
<1>1. Saved(page.selected, page.draft) /\ UNCHANGED <<page, calls, uploads, disk, bots, mail, home, moves>>
  BY DEF RememberCursor
<1>2. DraftFits(home, uploads, page.selected, page.draft) BY WindowFacts DEF PageFits
<1>3. StoreFits(home, uploads, store') BY <1>1, <1>2, WindowFacts, SavedFits
<1> QED BY <1>1, <1>3, WindowFacts, WindowKeeps

\* The page with another draft of the conversation it shows.
LEMMA EditedFits ==
  ASSUME NEW h, NEW u, PageFits(h, u, page), NEW d, DraftFits(h, u, page.selected, d)
  PROVE  PageFits(h, u, [page EXCEPT !.draft = d])
<1> DEFINE n == [page EXCEPT !.draft = d]
<1>1. /\ n \in PageRecord /\ n.selected = page.selected /\ n.draft = d /\ n.drawer = page.drawer
      /\ n.restoring = page.restoring
  BY DEF PageFits, PageRecord, DraftFits
<1>0. SUFFICES PageFits(h, u, n) OBVIOUS
<1> HIDE DEF n
<1> QED BY <1>1 DEF PageFits

\* An upload begins.
LEMMA StageStep ==
  ASSUME ComposerAssumption, ComposerIInv, NEW f \in Files, Stage(f) PROVE ComposerIInv'
<1> DEFINE b == page.selected
           token == IF store[b].token # NoToken THEN store[b].token ELSE moves.token + 1
           n == Call("upload", b, {}, {f}, token, EmptyDraft)
           d == [store[b] EXCEPT !.token = token]
           e == [page.draft EXCEPT !.token = token]
<1>1. /\ token <= MaxTokens /\ uploads[f].kind = "none" /\ \A c \in calls : f \notin c.files
      /\ Saved(b, d) /\ page' = [page EXCEPT !.draft.token = token] /\ calls' = calls \cup {n}
      /\ moves' = [count |-> moves.count + 1, token |-> IF token > moves.token THEN token ELSE moves.token]
      /\ UNCHANGED <<uploads, disk, bots, mail, home>>
  BY DEF Stage, Ask
<1>2. b \in Bots /\ store[b] \in DraftType /\ page.draft \in DraftType /\ moves.token \in 0..MaxTokens
      /\ moves.count \in Nat
  BY WindowFacts
<1>3. token \in 0..MaxTokens BY <1>1, <1>2, ComposerAssumption DEF DraftType
<1>4. moves' \in [count : Nat, token : 0..MaxTokens] BY <1>1, <1>2, <1>3
<1>5. /\ n \in CallRecord /\ n.kind = "upload" /\ n.bot = b /\ n.text = {} /\ n.files = {f} /\ n.token = token
      /\ n.kept = EmptyDraft /\ Pending(n)
  BY <1>2, <1>3, EmptyFits DEF Call, CallRecord, Pending
<1>6. /\ d \in DraftType /\ d.text = store[b].text /\ d.files = store[b].files
      /\ e \in DraftType /\ e.text = page.draft.text /\ e.files = page.draft.files
  BY <1>2, <1>3 DEF DraftType
<1>7. page' = [page EXCEPT !.draft = e] BY <1>1, WindowFacts DEF PageRecord
<1> HIDE DEF token, n, d, e
<1>8. DraftFits(home, uploads, b, d) /\ DraftFits(home, uploads, b, e)
  BY <1>6, WindowFacts DEF DraftFits, PageFits
<1>9. StoreFits(home, uploads, store') BY <1>1, <1>2, <1>8, WindowFacts, SavedFits
<1>10. PageFits(home, uploads, page') BY <1>7, <1>8, WindowFacts, EditedFits
<1>11. CallFits(home, uploads, n) BY <1>3, <1>5, EmptyFits DEF CallFits
<1>12. UploadsFit(uploads, calls')
  BY <1>1, <1>5, WindowFacts DEF UploadsFit
<1> QED BY <1>1, <1>4, <1>9, <1>10, <1>11, <1>12, WindowFacts, WindowKeeps

\* An upload ends in its conversation.
LEMMA StageEndsStep ==
  ASSUME ComposerAssumption, ComposerIInv, NEW c \in calls, StageEnds(c) PROVE ComposerIInv'
<1> DEFINE next == [store[c.bot] EXCEPT !.files = @ \cup c.files, !.token = c.token]
           shown == ShowAtOrigin(page, c.bot, next)
<1>1. /\ c.kind = "upload" /\ c.phase = "done" /\ Saved(c.bot, next) /\ calls' = calls \ {c}
      /\ page' = IF page.selected # c.bot THEN page
                 ELSE [shown EXCEPT !.drawer = @ \cup c.files, !.restoring = NotRestoring]
      /\ UNCHANGED <<uploads, disk, bots, mail, home, moves>>
  BY DEF StageEnds, Heard
<1>2. c.bot \in Bots /\ c.files \in SUBSET Files /\ c.token \in 0..MaxTokens
      /\ InHome(home, uploads, c.bot, c.text, c.files)
  BY <1>1, WindowFacts DEF CallFits, Pending
<1>3. DraftFits(home, uploads, c.bot, next)
  <2>1. DraftFits(home, uploads, c.bot, store[c.bot]) BY <1>2, WindowFacts
  <2>2. /\ next \in DraftType /\ next.text = store[c.bot].text
        /\ next.files = store[c.bot].files \cup c.files
    BY <1>2, <2>1 DEF DraftFits, DraftType
  <2> HIDE DEF next
  <2> QED BY <1>2, <2>1, <2>2 DEF DraftFits, InHome
<1> HIDE DEF next
<1>4. StoreFits(home, uploads, store') BY <1>1, <1>2, <1>3, WindowFacts, SavedFits
<1>5. PageFits(home, uploads, shown) /\ shown.selected = page.selected
  BY <1>2, <1>3, WindowFacts, ShownFits
<1> HIDE DEF shown
<1>6. PageFits(home, uploads, page')
  <2>1. CASE page.selected # c.bot BY <1>1, <2>1, WindowFacts
  <2>2. CASE page.selected = c.bot
    <3>1. page' = [shown EXCEPT !.drawer = @ \cup c.files, !.restoring = NotRestoring] BY <1>1, <2>2
    <3>2. /\ page' \in PageRecord /\ page'.selected = c.bot /\ page'.draft = shown.draft
          /\ page'.drawer = shown.drawer \cup c.files /\ page'.restoring = NotRestoring
      BY <1>2, <1>5, <2>2, <3>1, EmptyFits DEF PageFits, PageRecord
    <3>3. InHome(home, uploads, c.bot, {}, page'.drawer) BY <1>2, <1>5, <2>2, <3>2 DEF PageFits, InHome
    <3> QED BY <1>5, <2>2, <3>2, <3>3, EmptyFits DEF PageFits
  <2> QED BY <2>1, <2>2
<1>7. UploadsFit(uploads, calls') BY <1>1, WindowFacts, CallsFit
<1> QED BY <1>1, <1>4, <1>6, <1>7, WindowFacts, WindowKeeps

\* A request is forgotten.
LEMMA StageFailsStep ==
  ASSUME ComposerIInv, NEW c \in calls, StageFails(c) PROVE ComposerIInv'
<1>1. calls' = calls \ {c} /\ UNCHANGED <<page, store, uploads, disk, bots, mail, home, moves>>
  BY DEF StageFails, Heard
<1>2. UploadsFit(uploads, calls') BY <1>1, WindowFacts, CallsFit
<1> QED BY <1>1, <1>2, WindowFacts, WindowKeeps

\* A staged file is removed from the draft.
LEMMA RemoveUploadStep ==
  ASSUME ComposerAssumption, ComposerIInv, NEW f \in Files, RemoveUpload(f) PROVE ComposerIInv'
<1> DEFINE b == page.selected
           stored == store[b]
           next == [stored EXCEPT !.files = @ \ {f}]
           n == Call("remove", b, {}, {f}, stored.token, stored)
<1>1. /\ Counted /\ f \in page.drawer /\ Saved(b, next)
      /\ page' = [page EXCEPT !.draft = next, !.drawer = @ \ {f}]
      /\ calls' = calls \/ calls' = calls \cup {n}
      /\ UNCHANGED <<uploads, disk, bots, mail, home>> /\ b \in Bots
  BY WindowFacts DEF RemoveUpload, Ask
<1>2. DraftFits(home, uploads, b, stored) /\ stored \in DraftType BY <1>1, WindowFacts
<1>3. DraftFits(home, uploads, b, next) BY <1>2 DEF DraftType, DraftFits, InHome
<1>4. stored.token \in Nat /\ InHome(home, uploads, b, {}, {f})
  BY <1>2, WindowFacts, <1>1, ComposerAssumption DEF DraftType, PageFits, InHome
<1>5. (\A c \in calls' : CallFits(home, uploads, c)) /\ UploadsFit(uploads, calls')
  BY <1>1, <1>2, <1>4, WindowFacts, AskFits
<1> HIDE DEF next, stored
<1>6. PageFits(home, uploads, page')
  BY <1>1, <1>3, WindowFacts DEF PageRecord, DraftFits, PageFits, InHome
<1>7. StoreFits(home, uploads, store') BY <1>1, <1>3, WindowFacts, SavedFits
<1> QED BY <1>1, <1>5, <1>6, <1>7, CountedTyped, WindowKeeps

\* A removal that failed puts the draft back.
LEMMA RemoveEndsStep ==
  ASSUME ComposerAssumption, ComposerIInv, NEW c \in calls, RemoveEnds(c) PROVE ComposerIInv'
<1> DEFINE shown == ShowAtOrigin(page, c.bot, c.kept)
<1>1. /\ c.kind = "remove" /\ calls' = calls \ {c} /\ UNCHANGED <<uploads, disk, bots, mail, home, moves>>
      /\ \/ UNCHANGED <<page, store>>
         \/ /\ Saved(c.bot, c.kept)
            /\ page' = IF page.selected # c.bot THEN page ELSE [shown EXCEPT !.drawer = @ \cup c.files]
  BY DEF RemoveEnds, Heard
<1>2. c.bot \in Bots /\ c.files \in SUBSET Files /\ DraftFits(home, uploads, c.bot, c.kept)
      /\ InHome(home, uploads, c.bot, c.text, c.files)
  BY <1>1, WindowFacts DEF CallFits, Pending
<1>3. UploadsFit(uploads, calls') BY <1>1, WindowFacts, CallsFit
<1>4. CASE UNCHANGED <<page, store>> BY <1>1, <1>3, <1>4, WindowFacts, WindowKeeps
<1>5. CASE ~UNCHANGED <<page, store>>
  <2>1. PageFits(home, uploads, shown) /\ shown.selected = page.selected BY <1>2, WindowFacts, ShownFits
  <2>2. Saved(c.bot, c.kept) BY <1>1, <1>5
  <2>3. page' = IF page.selected # c.bot THEN page ELSE [shown EXCEPT !.drawer = @ \cup c.files] BY <1>1, <1>5
  <2> HIDE DEF shown
  <2>4. PageFits(home, uploads, page')
    <3>1. CASE page.selected # c.bot BY <2>3, <3>1, WindowFacts
    <3>2. CASE page.selected = c.bot
      <4>1. /\ page' \in PageRecord /\ page'.selected = c.bot /\ page'.draft = shown.draft
            /\ page'.drawer = shown.drawer \cup c.files /\ page'.restoring = shown.restoring
        BY <1>2, <2>1, <2>3, <3>2 DEF PageFits, PageRecord
      <4> QED BY <1>2, <2>1, <3>2, <4>1 DEF PageFits, InHome
    <3> QED BY <3>1, <3>2
  <2>5. StoreFits(home, uploads, store') BY <1>2, <2>2, WindowFacts, SavedFits
  <2> QED BY <1>1, <1>3, <2>4, <2>5, WindowFacts, WindowKeeps
<1> QED BY <1>4, <1>5

\* A message is sent, and its answer comes.
LEMMA SendMessageStep ==
  ASSUME ComposerAssumption, ComposerIInv, SendMessage PROVE ComposerIInv'
<1> DEFINE b == page.selected
           d == page.draft
           e == [d EXCEPT !.text = {}]
           n == Call("send", b, d.text, d.files, d.token, d)
<1>1. /\ Counted /\ calls' = calls \cup {n} /\ page' = [page EXCEPT !.draft = e] /\ Saved(b, e)
      /\ UNCHANGED <<uploads, disk, bots, mail, home>> /\ b \in Bots
  BY WindowFacts DEF SendMessage, Ask, Edited
<1>2. DraftFits(home, uploads, b, d) BY WindowFacts DEF PageFits
<1>3. DraftFits(home, uploads, b, e) BY <1>2 DEF DraftFits, DraftType, InHome
<1>4. (\A c \in calls' : CallFits(home, uploads, c)) /\ UploadsFit(uploads, calls')
  <2>1. \A c \in calls' : c \in calls \/ c = n BY <1>1
  <2>2. d.token \in Nat /\ d.text \in SUBSET (1..MaxWords) /\ d.files \in SUBSET Files
        /\ InHome(home, uploads, b, d.text, d.files)
    BY <1>2, DraftParts, ComposerAssumption
  <2> QED BY <1>1, <1>2, <2>1, <2>2, WindowFacts, AskFits
<1> HIDE DEF e
<1>5. PageFits(home, uploads, page') BY <1>1, <1>3, WindowFacts, EditedFits
<1>6. StoreFits(home, uploads, store') BY <1>1, <1>3, WindowFacts, SavedFits
<1> QED BY <1>1, <1>4, <1>5, <1>6, CountedTyped, WindowKeeps

LEMMA SendEndsStep ==
  ASSUME ComposerAssumption, ComposerIInv, NEW c \in calls, SendEnds(c) PROVE ComposerIInv'
<1>1. /\ calls' = calls \ {c} /\ UNCHANGED <<uploads, disk, bots, mail, home, moves>>
      /\ \/ /\ Saved(c.bot, EmptyDraft)
            /\ page' = IF page.selected # c.bot THEN page
                       ELSE [ShowAtOrigin(page, c.bot, EmptyDraft) EXCEPT !.drawer = {}]
         \/ /\ Saved(c.bot, c.kept)
            /\ page' = ShowAtOrigin(page, c.bot, c.kept)
  BY DEF SendEnds, Heard
<1>2. /\ c.bot \in Bots /\ DraftFits(home, uploads, c.bot, c.kept)
      /\ DraftFits(home, uploads, c.bot, EmptyDraft)
  BY WindowFacts, EmptyFits
<1>3. StoreFits(home, uploads, store') BY <1>1, <1>2, WindowFacts, SavedFits
<1>4. PageFits(home, uploads, page')
  <2>1. CASE page' = ShowAtOrigin(page, c.bot, c.kept) BY <1>2, <2>1, WindowFacts, ShownFits
  <2>2. CASE page' = page BY <2>2, WindowFacts
  <2>3. CASE page' = [ShowAtOrigin(page, c.bot, EmptyDraft) EXCEPT !.drawer = {}]
    <3> DEFINE shown == ShowAtOrigin(page, c.bot, EmptyDraft)
    <3>1. PageFits(home, uploads, shown) BY <1>2, WindowFacts, ShownFits
    <3>2. page' = [shown EXCEPT !.drawer = {}] BY <2>3
    <3> HIDE DEF shown
    <3> QED BY <3>1, <3>2 DEF PageFits, PageRecord, InHome
  <2> QED BY <1>1, <2>1, <2>2, <2>3
<1>5. UploadsFit(uploads, calls') BY <1>1, WindowFacts, CallsFit
<1> QED BY <1>1, <1>3, <1>4, <1>5, WindowFacts, WindowKeeps

\* A recording is started, stopped or cancelled, and what the daemon answers.
LEMMA StartDictationStep ==
  ASSUME ComposerAssumption, ComposerIInv, StartDictation PROVE ComposerIInv'
<1> DEFINE b == page.selected
<1>1. /\ Counted /\ Saved(b, page.draft) /\ page' = [page EXCEPT !.origin = b]
      /\ calls' = calls \cup {Call("listen", b, {}, {}, moves.count, EmptyDraft)}
      /\ UNCHANGED <<uploads, disk, bots, mail, home>> /\ b \in Bots /\ page.voice = "idle"
      /\ moves.count \in Nat /\ b \in Bots \cup {NoOrigin}
  BY WindowFacts DEF StartDictation, Ask
<1>2. DraftFits(home, uploads, b, page.draft) BY WindowFacts DEF PageFits
<1>3. StoreFits(home, uploads, store') BY <1>1, <1>2, WindowFacts, SavedFits
<1>4. PageFits(home, uploads, page') BY <1>1, WindowFacts, VoiceFits
<1>5. (\A c \in calls' : CallFits(home, uploads, c)) /\ UploadsFit(uploads, calls')
  BY <1>1, EmptyFits, WindowFacts, AskFits
<1> QED BY <1>1, <1>3, <1>4, <1>5, CountedTyped, WindowKeeps

LEMMA DictationEndSteps ==
  ASSUME ComposerAssumption, ComposerIInv, StopDictation \/ CancelDictation PROVE ComposerIInv'
<1> DEFINE b == page.origin
<1>1. PICK kind \in {"stop", "cancel"} :
        calls' = calls \cup {Call(kind, b, {}, {}, NoToken, EmptyDraft)}
  BY DEF StopDictation, CancelDictation, Ask
<1>2. Counted /\ UNCHANGED <<store, uploads, disk, bots, mail, home>> /\ b \in Bots
  BY WindowFacts DEF StopDictation, CancelDictation
<1>3. PageFits(home, uploads, page')
  <2>1. CASE StopDictation
    <3>1. page' = [page EXCEPT !.voice = "transcribing"] BY <2>1 DEF StopDictation
    <3> QED BY <3>1, <1>2, WindowFacts, VoiceFits
  <2>2. CASE CancelDictation
    <3>1. page' = [ShowAtOrigin(page, b, store[b]) EXCEPT !.origin = NoOrigin]
      BY <2>2 DEF CancelDictation, AnchorCleared
    <3>2. PageFits(home, uploads, ShowAtOrigin(page, b, store[b])) BY <1>2, WindowFacts, ShownFits
    <3>3. NoOrigin \in Bots \cup {NoOrigin} /\ "idle" \in {"idle", "recording", "transcribing"} OBVIOUS
    <3> QED BY <3>1, <3>2, <3>3, VoiceFits
  <2> QED BY <2>1, <2>2
<1>4. (\A c \in calls' : CallFits(home, uploads, c)) /\ UploadsFit(uploads, calls')
  BY <1>1, EmptyFits, <1>2, WindowFacts, AskFits DEF NoToken
<1> QED BY <1>2, <1>3, <1>4, WindowFacts, CountedTyped, WindowKeeps

LEMMA DictationAnswerSteps ==
  ASSUME ComposerAssumption, ComposerIInv, NEW c \in calls,
         ListenEnds(c) \/ NotTranscribed(c) \/ CancelAnswered(c)
  PROVE  ComposerIInv'
<1>1. calls' = calls \ {c} /\ UNCHANGED <<store, uploads, disk, bots, mail, home, moves>> /\ c.bot \in Bots
  BY WindowFacts DEF ListenEnds, NotTranscribed, CancelAnswered, Heard
<1>2. UploadsFit(uploads, calls') BY <1>1, WindowFacts, CallsFit
<1> DEFINE shown == ShowAtOrigin(page, c.bot, store[c.bot])
<1>3. \/ page' = [page EXCEPT !.voice = "recording"] \/ page' = [page EXCEPT !.voice = "idle"]
      \/ page' = [shown EXCEPT !.origin = NoOrigin]
      \/ page' = [shown EXCEPT !.voice = "idle", !.origin = NoOrigin]
  BY DEF ListenEnds, NotTranscribed, CancelAnswered, AnchorCleared
<1>4. PageFits(home, uploads, shown) BY <1>1, WindowFacts, ShownFits
<1> HIDE DEF shown
<1>5. PageFits(home, uploads, page) /\ NoOrigin \in Bots \cup {NoOrigin}
      /\ "idle" \in {"idle", "recording", "transcribing"} /\ "recording" \in {"idle", "recording", "transcribing"}
  BY WindowFacts
<1>6. PageFits(home, uploads, page')
  <2>1. CASE page' = [page EXCEPT !.voice = "recording"] BY <1>5, <2>1, VoiceFits
  <2>2. CASE page' = [page EXCEPT !.voice = "idle"] BY <1>5, <2>2, VoiceFits
  <2>3. CASE page' = [shown EXCEPT !.origin = NoOrigin] BY <1>4, <1>5, <2>3, VoiceFits
  <2>4. CASE page' = [shown EXCEPT !.voice = "idle", !.origin = NoOrigin] BY <1>4, <1>5, <2>4, VoiceFits
  <2> QED BY <1>3, <2>1, <2>2, <2>3, <2>4
<1> QED BY <1>1, <1>2, <1>6, WindowFacts, WindowKeeps

LEMMA VoiceEndsStep ==
  ASSUME ComposerAssumption, ComposerIInv, NEW c \in calls, VoiceEnds(c) PROVE ComposerIInv'
<1> DEFINE left == [c.kept EXCEPT !.text = {}]
           shown == ShowAtOrigin(page, c.bot, left)
<1>1. /\ calls' = calls \ {c} /\ UNCHANGED <<uploads, disk, bots, mail, home, moves>> /\ c.bot \in Bots
      /\ \/ Saved(c.bot, left) /\ page' = [shown EXCEPT !.origin = NoOrigin]
         \/ page' = [page EXCEPT !.origin = NoOrigin] /\ store' = store
  BY WindowFacts DEF VoiceEnds, Heard
<1>2. UploadsFit(uploads, calls') BY <1>1, WindowFacts, CallsFit
<1>3. DraftFits(home, uploads, c.bot, left) BY WindowFacts DEF DraftType, DraftFits, InHome
<1> HIDE DEF left
<1>4. PageFits(home, uploads, shown) BY <1>1, <1>3, WindowFacts, ShownFits
<1> HIDE DEF shown
<1>5. PageFits(home, uploads, page')
  <2>1. "idle" \in {"idle", "recording", "transcribing"} /\ NoOrigin \in Bots \cup {NoOrigin}
        /\ PageFits(home, uploads, page)
    BY WindowFacts
  <2>2. CASE page' = [shown EXCEPT !.origin = NoOrigin] BY <1>4, <2>1, <2>2, VoiceFits
  <2>3. CASE page' = [page EXCEPT !.origin = NoOrigin] BY <2>1, <2>3, VoiceFits
  <2> QED BY <1>1, <2>2, <2>3
<1>6. StoreFits(home, uploads, store') BY <1>1, <1>3, WindowFacts, SavedFits
<1> QED BY <1>1, <1>2, <1>5, <1>6, WindowFacts, WindowKeeps

\* A Bot is being deleted, and its deletion is answered.
LEMMA BotDeletedStep ==
  ASSUME ComposerAssumption, ComposerIInv, NEW b \in Bots, BotDeleted(b) PROVE ComposerIInv'
<1>1. /\ Counted /\ calls' = calls \cup {Call("delete", b, {}, {}, NoToken, store[b])}
      /\ Saved(b, EmptyDraft) /\ UNCHANGED <<page, uploads, disk, bots, mail, home>>
  BY DEF BotDeleted, Ask
<1>2. DraftFits(home, uploads, b, EmptyDraft) /\ InHome(home, uploads, b, {}, {}) BY EmptyFits
<1>3. StoreFits(home, uploads, store') BY <1>1, <1>2, WindowFacts, SavedFits
<1>4. (\A c \in calls' : CallFits(home, uploads, c)) /\ UploadsFit(uploads, calls')
  BY <1>1, WindowFacts, <1>2, AskFits DEF NoToken
<1> QED BY <1>1, <1>3, <1>4, WindowFacts, CountedTyped, WindowKeeps

LEMMA DeletionEndsStep ==
  ASSUME ComposerAssumption, ComposerIInv, NEW c \in calls, DeletionEnds(c) PROVE ComposerIInv'
<1> DEFINE entered == Entered(page, Fallback)
<1>1. /\ calls' = calls \ {c} /\ UNCHANGED <<uploads, disk, bots, mail, home, moves>> /\ c.bot \in Bots
      /\ page' = page \/ page' = entered
      /\ \/ store' = store
         \/ store' = [store EXCEPT ![c.bot] = EmptyDraft, ![Fallback] = entered.draft]
         \/ Saved(c.bot, c.kept)
  BY WindowFacts DEF DeletionEnds, Heard
<1>2. UploadsFit(uploads, calls') BY <1>1, WindowFacts, CallsFit
<1>3. PageFits(home, uploads, entered) /\ DraftFits(home, uploads, Fallback, entered.draft)
      /\ Fallback \in Bots
  BY WindowFacts, EnteredFits, ComposerAssumption
<1> HIDE DEF entered
<1>4. PageFits(home, uploads, page') BY <1>1, <1>3, WindowFacts
<1>5. StoreFits(home, uploads, store')
  <2>1. CASE store' = store \/ Saved(c.bot, c.kept) BY <1>1, <2>1, WindowFacts, SavedFits
  <2>2. CASE store' = [store EXCEPT ![c.bot] = EmptyDraft, ![Fallback] = entered.draft]
    <3>1. store' \in [Bots -> DraftType] BY <1>3, <2>2, EmptyFits, WindowFacts DEF DraftFits, StoreFits
    <3>2. \A b \in Bots : \/ store'[b] = store[b]
                          \/ store'[b] = EmptyDraft
                          \/ b = Fallback /\ store'[b] = entered.draft
      BY <2>2, WindowFacts DEF StoreFits
    <3>3. \A b \in Bots : DraftFits(home, uploads, b, store'[b]) BY <1>3, <3>2, EmptyFits, WindowFacts
    <3> QED BY <3>1, <3>3 DEF StoreFits
  <2> QED BY <1>1, <2>1, <2>2
<1> QED BY <1>1, <1>2, <1>4, <1>5, WindowFacts, WindowKeeps

\* The daemon answers without doing anything that is told apart.
LEMMA OtherAnswersStep ==
  ASSUME ComposerIInv, NEW c \in calls, OtherAnswers(c) PROVE ComposerIInv'
<1>1. UNCHANGED <<page, store, uploads, disk, bots, mail, home, moves>> /\ c.phase = "sent" BY
  DEF OtherAnswers
<1>2. \/ c.kind \in {"stop", "cancel", "listen"} /\ Phase(c, "done")
      \/ Phase(c, "failed")
  BY DEF OtherAnswers
<1>3. (\A d \in calls' : CallFits(home, uploads, d)) /\ UploadsFit(uploads, calls')
  <2>1. CASE Phase(c, "failed") BY <1>1, <2>1, WindowFacts, PhaseFits
  <2>2. CASE c.kind \in {"stop", "cancel", "listen"} /\ Phase(c, "done")
    <3>1. ~Pending(c) BY <2>2 DEF Pending
    <3> QED BY <1>1, <2>2, <3>1, WindowFacts, PhaseFits
  <2> QED BY <1>2, <2>1, <2>2
<1> QED BY <1>1, <1>3, WindowFacts, WindowKeeps

\* A word is entered in a conversation.
LEMMA WordEntered ==
  ASSUME ComposerIInv, NEW b \in Bots, Enters(NextWord, b), NextWord <= MaxWords, UNCHANGED uploads,
         ComposerAssumption
  PROVE  /\ Rests /\ HomeTyped(home') /\ NextWord \in 1..MaxWords
         /\ NextWord \in DOMAIN home' /\ home'[NextWord] = b
<1>1. PICK n \in Nat : DOMAIN home = 1..n /\ home \in [1..n -> Bots]
  BY DEF ComposerIInv, WorldTyped, HomeTyped
<1>2. NextWord = n + 1
  <2>1. Cardinality(1..n) = n BY FS_Interval
  <2> QED BY <1>1, <2>1 DEF NextWord
<1>3. home' = [v \in 1..(n + 1) |-> IF v = n + 1 THEN b ELSE home[v]] BY <1>1, <1>2 DEF Enters
<1>4. home' \in [1..(n + 1) -> Bots] /\ DOMAIN home' = 1..(n + 1) /\ n + 1 \in Nat
  BY <1>1, <1>3
<1>5. HomeTyped(home') BY <1>4 DEF HomeTyped
<1>6. Rests BY <1>1, <1>3 DEF Rests, Goes
<1>7. NextWord \in 1..MaxWords BY <1>2, ComposerAssumption
<1>8. NextWord \in DOMAIN home' /\ home'[NextWord] = b BY <1>2, <1>3
<1> QED BY <1>5, <1>6, <1>7, <1>8

\* A draft with a new word.
LEMMA WordFits ==
  ASSUME ComposerIInv, NEW b \in Bots, Enters(NextWord, b), NextWord <= MaxWords, UNCHANGED uploads,
         ComposerAssumption, NEW d, DraftFits(home, uploads, b, d)
  PROVE  DraftFits(home', uploads', b, [d EXCEPT !.text = @ \cup {NextWord}])
<1> DEFINE n == [d EXCEPT !.text = @ \cup {NextWord}]
<1>1. DraftFits(home', uploads', b, d) BY WordEntered, DraftStays DEF Rests
<1>2. NextWord \in 1..MaxWords /\ NextWord \in DOMAIN home' /\ home'[NextWord] = b BY WordEntered
<1> DEFINE w == NextWord
<1>3. n = [d EXCEPT !.text = @ \cup {w}] /\ w \in 1..MaxWords /\ w \in DOMAIN home' /\ home'[w] = b BY <1>2
<1> HIDE DEF w
<1>4. n \in DraftType /\ n.text = d.text \cup {w} /\ n.files = d.files
  BY <1>1, <1>3 DEF DraftFits, DraftType
<1>5. SUFFICES DraftFits(home', uploads', b, n) OBVIOUS
<1> HIDE DEF n
<1> QED BY <1>1, <1>3, <1>4 DEF DraftFits, InHome

\* A step of the world, in which words and files keep their Bots.
LEMMA WorldKeeps ==
  ASSUME ComposerIInv, Rests, WorldTyped', SentFilesKept', UploadsFit(uploads', calls'),
         StoreFits(home', uploads', store'), PageFits(home', uploads', page'),
         \A c \in calls' : c \in calls \/ CallFits(home', uploads', c),
         \A x \in mail' : x \in mail \/ MailFits(home', uploads', x)
  PROVE  ComposerIInv'
<1>1. \A c \in calls' : CallFits(home', uploads', c)
  BY CallStays DEF Rests, ComposerIInv
<1>2. \A x \in mail' : MailFits(home', uploads', x)
  BY MailStays DEF Rests, ComposerIInv
<1> QED BY <1>1, <1>2 DEF ComposerIInv

\* A word is typed.
LEMMA TypeStep ==
  ASSUME ComposerAssumption, ComposerIInv, Type PROVE ComposerIInv'
<1> DEFINE b == page.selected
           d == [page.draft EXCEPT !.text = @ \cup {NextWord}]
<1>1. /\ NextWord <= MaxWords /\ page' = [page EXCEPT !.draft = d] /\ Saved(b, d) /\ Enters(NextWord, b)
      /\ UNCHANGED <<calls, uploads, disk, bots, mail, moves>> /\ b \in Bots
  BY WindowFacts DEF Type, Edited
<1>2. DraftFits(home, uploads, b, page.draft) BY WindowFacts DEF PageFits
<1>3. DraftFits(home', uploads', b, d) BY <1>1, <1>2, WordFits
<1> HIDE DEF d
<1>4. Rests /\ HomeTyped(home') BY <1>1, WordEntered
<1>5. WorldTyped' BY <1>1, <1>4 DEF ComposerIInv, WorldTyped
<1>6. SentFilesKept' BY <1>1 DEF ComposerIInv, SentFilesKept
<1>7. StoreFits(home', uploads', store')
  BY <1>4, WindowFacts, StoreStays, <1>3, <1>1 DEF Rests, DraftFits, StoreFits, Saved
<1>8. PageFits(home', uploads', page')
  BY <1>4, WindowFacts, PageStays, <1>1, <1>3, EditedFits DEF Rests
<1>9. UploadsFit(uploads', calls') BY <1>1, WindowFacts
<1> QED BY <1>1, <1>4, <1>5, <1>6, <1>7, <1>8, <1>9, WorldKeeps

\* A transcript arrives.
LEMMA TranscribedStep ==
  ASSUME ComposerAssumption, ComposerIInv, NEW c \in calls, NEW autoSend \in BOOLEAN, Transcribed(c, autoSend)
  PROVE  ComposerIInv'
<1> DEFINE b == c.bot
           latest == [store[b] EXCEPT !.text = @ \cup {NextWord}]
           shown == ShowAtOrigin(page, b, latest)
           n == Call("voice", b, latest.text, latest.files, latest.token, latest)
<1>1. /\ NextWord <= MaxWords /\ Saved(b, latest) /\ Enters(NextWord, b)
      /\ page' = [shown EXCEPT !.voice = "idle", !.origin = IF autoSend THEN @ ELSE NoOrigin]
      /\ calls' = (calls \ {c}) \cup (IF autoSend THEN {n} ELSE {})
      /\ UNCHANGED <<uploads, disk, bots, mail, moves>> /\ b \in Bots
  BY WindowFacts DEF Transcribed
<1>2. DraftFits(home, uploads, b, store[b]) BY <1>1, WindowFacts
<1>3. DraftFits(home', uploads', b, latest) BY <1>1, <1>2, WordFits
<1> HIDE DEF latest
<1>4. Rests /\ HomeTyped(home') BY <1>1, WordEntered
<1>5. WorldTyped' BY <1>1, <1>4 DEF ComposerIInv, WorldTyped
<1>6. SentFilesKept' BY <1>1 DEF ComposerIInv, SentFilesKept
<1>7. StoreFits(home', uploads', store')
  BY <1>4, WindowFacts, StoreStays, <1>3, <1>1 DEF Rests, DraftFits, StoreFits, Saved
<1>8. PageFits(home', uploads', page')
  <2>1. PageFits(home', uploads', page) BY <1>4, WindowFacts, PageStays DEF Rests
  <2>2. PageFits(home', uploads', shown) BY <1>1, <1>3, <2>1, ShownFits
  <2> HIDE DEF shown
  <2>3. shown.origin \in Bots \cup {NoOrigin} /\ shown \in PageRecord BY <2>2 DEF PageFits, PageRecord
  <2>4. "idle" \in {"idle", "recording", "transcribing"} OBVIOUS
  <2> DEFINE o == IF autoSend THEN shown.origin ELSE NoOrigin
  <2>5. page' = [shown EXCEPT !.voice = "idle", !.origin = o] /\ o \in Bots \cup {NoOrigin} BY <1>1, <2>3
  <2> HIDE DEF o
  <2> QED BY <2>2, <2>4, <2>5, VoiceFits
<1>9. /\ CallFits(home', uploads', n) /\ ~Pending(n)
  <2>1. /\ latest.text \in SUBSET (1..MaxWords) /\ latest.files \in SUBSET Files /\ latest.token \in Nat
        /\ latest \in DraftType /\ InHome(home', uploads', b, latest.text, latest.files)
    BY <1>3, DraftParts, ComposerAssumption
  <2>2. /\ n \in CallRecord /\ n.kind = "voice" /\ n.bot = b /\ n.text = latest.text
        /\ n.files = latest.files /\ n.kept = latest
    BY <1>1, <2>1 DEF Call, CallRecord
  <2> HIDE DEF n
  <2> QED BY <1>3, <2>1, <2>2 DEF CallFits, Pending
<1> HIDE DEF n
<1>10. \A d \in calls' : d \in calls \/ d = n BY <1>1
<1>11. UploadsFit(uploads', calls') BY <1>1, <1>9, <1>10, WindowFacts, CallsFit
<1> QED BY <1>1, <1>4, <1>5, <1>6, <1>7, <1>8, <1>9, <1>10, <1>11, WorldKeeps

\* The page, the drafts and the requests stay as they are while the daemon acts.
LEMMA DaemonKeeps ==
  ASSUME ComposerIInv, Rests, WorldTyped', SentFilesKept', UploadsFit(uploads', calls'),
         UNCHANGED <<page, store>>,
         \A c \in calls' : c \in calls \/ CallFits(home', uploads', c),
         \A x \in mail' : x \in mail \/ MailFits(home', uploads', x)
  PROVE  ComposerIInv'
<1>1. StoreFits(home', uploads', store') BY WindowFacts, StoreStays DEF Rests
<1>2. PageFits(home', uploads', page') BY WindowFacts, PageStays DEF Rests
<1> QED BY <1>1, <1>2, WorldKeeps

\* What a request with another phase is, once the files are what they will be.
LEMMA AnsweredFits ==
  ASSUME ComposerIInv, Rests, NEW c \in calls, c.phase # "done", NEW p \in {"done", "failed", "cleaning"},
         Phase(c, p), p # "done" \/ ~Pending(c) \/ InHome(home', uploads', c.bot, c.text, c.files)
  PROVE  /\ \A d \in calls' : d \in calls \/ CallFits(home', uploads', d)
         /\ \A d \in calls' : Pending(d) => (d \in calls /\ d # c) \/ (Pending(c) /\ d.files = c.files /\ p # "done"
                                                                  /\ d = [c EXCEPT !.phase = p])
<1> DEFINE n == [c EXCEPT !.phase = p]
<1>1. /\ n \in CallRecord /\ n.kind = c.kind /\ n.bot = c.bot /\ n.text = c.text /\ n.files = c.files
      /\ n.token = c.token /\ n.kept = c.kept /\ n.phase = p
  BY WindowFacts DEF CallRecord
<1>2. \A d \in calls' : (d \in calls /\ d # c) \/ d = n BY DEF Phase
<1>3. SUFFICES CallFits(home', uploads', n)
               /\ (Pending(n) => Pending(c) /\ n.files = c.files /\ p # "done")
  BY <1>2
<1> HIDE DEF n
<1>4. Pending(n) => Pending(c) /\ n.files = c.files /\ p # "done" BY <1>1 DEF Pending
<1>5. CallFits(home', uploads', c) BY WindowFacts, CallStays DEF Rests
<1>6. InHome(home', uploads', c.bot, c.text, IF Pending(n) THEN {} ELSE c.files)
  <2>1. Pending(c) /\ p # "done" => Pending(n) BY <1>1 DEF Pending
  <2>2. CASE Pending(c) /\ p # "done" BY <1>5, <2>1, <2>2 DEF CallFits
  <2>3. CASE ~Pending(c) BY <1>4, <1>5, <2>3 DEF CallFits
  <2>4. CASE Pending(c) /\ p = "done" BY <1>4, <2>4
  <2> QED BY <2>2, <2>3, <2>4
<1>7. CallFits(home', uploads', n) BY <1>1, <1>5, <1>6 DEF CallFits
<1> QED BY <1>4, <1>7

\* A file is staged.
LEMMA StagedStep ==
  ASSUME ComposerAssumption, ComposerIInv, NEW c \in calls, Staged(c) PROVE ComposerIInv'
<1>1. /\ c.kind = "upload" /\ c.phase = "sent" /\ Phase(c, "done") /\ Pending(c)
      /\ uploads' = [f \in Files |-> IF f \in c.files THEN [kind |-> "staged", bot |-> c.bot, token |-> c.token]
                                     ELSE uploads[f]]
      /\ disk' = [f \in Files |-> IF f \in c.files THEN "staged" ELSE disk[f]]
      /\ UNCHANGED <<page, store, bots, mail, home, moves>>
  BY DEF Staged, Pending
<1>2. /\ c.bot \in Bots /\ c.token \in 0..MaxTokens /\ c.files \in SUBSET Files
      /\ InHome(home, uploads, c.bot, c.text, {})
      /\ \A f \in c.files : uploads[f].kind = "none"
      /\ \A d \in calls : Pending(d) /\ d.files \cap c.files # {} => d = c
      /\ WorldTyped
  BY <1>1, WindowFacts DEF CallFits, UploadsFit, ComposerIInv
<1>3. \A f \in Files : /\ f \in c.files => uploads'[f].kind = "staged" /\ uploads'[f].bot = c.bot
                       /\ f \notin c.files => uploads'[f] = uploads[f] /\ disk'[f] = disk[f]
  BY <1>1
<1>4. Rests BY <1>1, <1>2, <1>3 DEF Rests, Goes
<1>5. WorldTyped' BY <1>1, <1>2 DEF WorldTyped, UploadRecord
<1>6. SentFilesKept' BY <1>2, <1>1, <1>3 DEF ComposerIInv, MailFits, SentFilesKept
<1>7. InHome(home', uploads', c.bot, c.text, c.files) BY <1>1, <1>2, <1>3 DEF InHome
<1>8. \A d \in calls' : d \in calls \/ CallFits(home', uploads', d) BY <1>1, <1>4, <1>7, AnsweredFits
<1>9. \A d \in calls' : Pending(d) => d \in calls /\ d # c BY <1>1, <1>4, <1>7, AnsweredFits
<1>10. UploadsFit(uploads', calls')
  <2> SUFFICES ASSUME NEW d \in calls', Pending(d)
               PROVE  /\ \A f \in d.files : uploads'[f].kind = "none"
                      /\ \A e \in calls' : Pending(e) /\ e.files \cap d.files # {} => e = d
    BY DEF UploadsFit
  <2>1. d \in calls /\ d # c /\ d.files \in SUBSET Files BY <1>9, WindowFacts
  <2>2. d.files \cap c.files = {} BY <1>2, <2>1
  <2>3. \A f \in d.files : uploads[f].kind = "none" BY <2>1, WindowFacts DEF UploadsFit
  <2>4. \A f \in d.files : uploads'[f].kind = "none" BY <1>3, <2>1, <2>2, <2>3
  <2>5. \A e \in calls' : Pending(e) /\ e.files \cap d.files # {} => e = d
    BY <1>9, <2>1, WindowFacts DEF UploadsFit
  <2> QED BY <2>4, <2>5
<1> QED BY <1>1, <1>4, <1>5, <1>6, <1>8, <1>10, DaemonKeeps

\* Files that are pending stay unknown while only known files change.
LEMMA PendingStay ==
  ASSUME ComposerIInv, \A f \in Files : uploads[f].kind = "none" => uploads'[f] = uploads[f],
         \A d \in calls' : ~Pending(d) \/ d \in calls
  PROVE  UploadsFit(uploads', calls')
<1>1. \A d \in calls : d.files \in SUBSET Files BY WindowFacts
<1> QED BY <1>1, WindowFacts DEF UploadsFit

\* A request that is no upload goes on.
LEMMA NotUploadFits ==
  ASSUME ComposerIInv, Rests, NEW c \in calls, c.phase # "done", c.kind # "upload",
         \E p \in {"done", "failed", "cleaning"} : Phase(c, p)
  PROVE  /\ \A d \in calls' : d \in calls \/ CallFits(home', uploads', d)
         /\ \A d \in calls' : ~Pending(d) \/ d \in calls
<1>1. PICK p \in {"done", "failed", "cleaning"} : Phase(c, p) OBVIOUS
<1>2. ~Pending(c) BY DEF Pending
<1>3. /\ \A d \in calls' : d \in calls \/ CallFits(home', uploads', d)
      /\ \A d \in calls' : Pending(d) => (d \in calls /\ d # c) \/ Pending(c)
  BY <1>1, <1>2, AnsweredFits
<1> QED BY <1>2, <1>3

\* Files that are no longer needed are given up.
LEMMA DropFits ==
  ASSUME ComposerIInv, NEW fs \in SUBSET {f \in Files : uploads[f].kind = "staged"}, Dropped(fs),
         UNCHANGED <<bots, mail, home>>, moves' \in [count : Nat, token : 0..MaxTokens]
  PROVE  /\ Rests /\ WorldTyped' /\ SentFilesKept'
         /\ \A f \in Files : uploads[f].kind = "none" => uploads'[f] = uploads[f]
<1>1. \A f \in Files : uploads[f] \in UploadRecord BY DEF ComposerIInv, WorldTyped
<1>2. /\ uploads' = [f \in Files |-> IF f \in fs THEN [uploads[f] EXCEPT !.kind = "gone"] ELSE uploads[f]]
      /\ disk' = [f \in Files |-> IF f \in fs THEN "none" ELSE disk[f]]
  BY DEF Dropped
<1>3. \A f \in Files : /\ f \in fs => uploads'[f].kind = "gone" /\ uploads'[f].bot = uploads[f].bot
                                      /\ uploads'[f] \in UploadRecord /\ uploads[f].kind = "staged"
                       /\ f \notin fs => uploads'[f] = uploads[f] /\ disk'[f] = disk[f]
  BY <1>1, <1>2 DEF UploadRecord
<1>4. uploads' \in [Files -> UploadRecord] BY <1>1, <1>2, <1>3
<1>5. WorldTyped' BY <1>2, <1>4 DEF ComposerIInv, WorldTyped
<1>6. Rests BY <1>3 DEF Rests, Goes
<1>7. SentFilesKept' BY <1>3 DEF ComposerIInv, MailFits, SentFilesKept
<1>8. \A f \in Files : uploads[f].kind = "none" => uploads'[f] = uploads[f] BY <1>3
<1> QED BY <1>5, <1>6, <1>7, <1>8

\* A staged file is removed, or collected when the daemon starts.
LEMMA UnstagedStep ==
  ASSUME ComposerAssumption, ComposerIInv, NEW c \in calls, Unstaged(c) PROVE ComposerIInv'
<1>1. /\ c.kind = "remove" /\ c.phase = "sent" /\ UNCHANGED <<page, store, bots, mail, home, moves>>
      /\ c.files \in SUBSET Files
  BY WindowFacts DEF Unstaged
<1>2. Dropped({f \in c.files : Unstages(f, c.token)}) /\ \E p \in {"done", "failed", "cleaning"} : Phase(c, p)
  BY DEF Unstaged, Reply
<1>3. {f \in c.files : Unstages(f, c.token)} \in SUBSET {f \in Files : uploads[f].kind = "staged"}
  BY <1>1 DEF Unstages
<1>4. /\ Rests /\ WorldTyped' /\ SentFilesKept'
      /\ \A f \in Files : uploads[f].kind = "none" => uploads'[f] = uploads[f]
  BY <1>1, <1>2, <1>3, WindowFacts, DropFits
<1>5. /\ \A d \in calls' : d \in calls \/ CallFits(home', uploads', d)
      /\ \A d \in calls' : ~Pending(d) \/ d \in calls
  BY <1>1, <1>2, <1>4, NotUploadFits
<1>6. UploadsFit(uploads', calls') BY <1>4, <1>5, PendingStay
<1> QED BY <1>1, <1>4, <1>5, <1>6, DaemonKeeps

LEMMA CollectedStep ==
  ASSUME ComposerAssumption, ComposerIInv, Collected PROVE ComposerIInv'
<1>1. PICK fs \in SUBSET {f \in Files : uploads[f].kind = "staged"} : Dropped(fs) BY DEF Collected
<1>2. UNCHANGED <<page, store, calls, bots, mail, home>> /\ Counted BY DEF Collected
<1>3. /\ Rests /\ WorldTyped' /\ SentFilesKept'
      /\ \A f \in Files : uploads[f].kind = "none" => uploads'[f] = uploads[f]
  BY <1>1, <1>2, CountedTyped, DropFits
<1>4. UploadsFit(uploads', calls') BY <1>2, <1>3, PendingStay
<1> QED BY <1>2, <1>3, <1>4, DaemonKeeps

\* A message is accepted, with its files.
LEMMA AcceptedStep ==
  ASSUME ComposerAssumption, ComposerIInv, NEW c \in calls, Accepted(c) PROVE ComposerIInv'
<1> DEFINE sent == IF c.kind = "send" THEN c.files ELSE {}
           x0 == [bot |-> c.bot, text |-> c.text, files |-> sent]
<1>1. /\ c.kind \in {"send", "voice"} /\ c.phase = "sent" /\ UNCHANGED <<page, store, bots, home, moves>>
      /\ \A f \in sent : uploads[f].kind = "staged"
      /\ uploads' = [f \in Files |-> IF f \in sent THEN [uploads[f] EXCEPT !.kind = "managed", !.token = NoToken]
                                     ELSE uploads[f]]
      /\ disk' = [f \in Files |-> IF f \in sent THEN "managed" ELSE disk[f]]
      /\ mail' = mail \cup {x0}
      /\ \E p \in {"done", "failed", "cleaning"} : Phase(c, p)
  BY DEF Accepted, Reply
<1>2. /\ sent \in SUBSET Files /\ c.bot \in Bots /\ c.text \in SUBSET (1..MaxWords)
      /\ InHome(home, uploads, c.bot, c.text, sent)
  BY <1>1, WindowFacts DEF CallFits, Pending, InHome
<1>3. x0.bot = c.bot /\ x0.text = c.text /\ x0.files = sent
      /\ x0 \in [bot : Bots, text : SUBSET (1..MaxWords), files : SUBSET Files]
  BY <1>2
<1> HIDE DEF sent, x0
<1>4. \A f \in Files : uploads[f] \in UploadRecord BY DEF ComposerIInv, WorldTyped
<1>5. \A f \in Files : /\ f \in sent => uploads'[f].kind = "managed" /\ uploads'[f].bot = uploads[f].bot
                                        /\ uploads'[f] \in UploadRecord /\ disk'[f] = "managed"
                       /\ f \notin sent => uploads'[f] = uploads[f] /\ disk'[f] = disk[f]
  <2> SUFFICES ASSUME NEW f \in Files
               PROVE  /\ f \in sent => uploads'[f].kind = "managed" /\ uploads'[f].bot = uploads[f].bot
                                        /\ uploads'[f] \in UploadRecord /\ disk'[f] = "managed"
                      /\ f \notin sent => uploads'[f] = uploads[f] /\ disk'[f] = disk[f]
    OBVIOUS
  <2>1. uploads'[f] = IF f \in sent THEN [uploads[f] EXCEPT !.kind = "managed", !.token = NoToken]
                      ELSE uploads[f]
    BY <1>1
  <2>2. disk'[f] = IF f \in sent THEN "managed" ELSE disk[f] BY <1>1
  <2>3. NoToken \in 0..MaxTokens BY ComposerAssumption DEF NoToken
  <2> QED BY <1>4, <2>1, <2>2, <2>3 DEF UploadRecord
<1>6. uploads' \in [Files -> UploadRecord] BY <1>1, <1>4, <1>5
<1>7. WorldTyped' BY <1>1, <1>6 DEF ComposerIInv, WorldTyped
<1>8. Rests BY <1>1, <1>5 DEF Rests, Goes
<1>9. SentFilesKept'
  <2>1. \A x \in mail : x.files \in SUBSET Files BY DEF ComposerIInv, MailFits
  <2>2. \A x \in mail : bots[x.bot] = "here" =>
           \A f \in x.files : uploads'[f].kind = "managed" /\ disk'[f] = "managed"
    BY <1>5, <2>1 DEF ComposerIInv, SentFilesKept
  <2>3. \A f \in x0.files : uploads'[f].kind = "managed" /\ disk'[f] = "managed" BY <1>2, <1>3, <1>5
  <2> QED BY <1>1, <2>2, <2>3 DEF SentFilesKept
<1>10. MailFits(home', uploads', x0) BY <1>2, <1>8, HomeStays, <1>3 DEF Rests, MailFits
<1>11. /\ \A d \in calls' : d \in calls \/ CallFits(home', uploads', d)
       /\ \A d \in calls' : ~Pending(d) \/ d \in calls
  BY <1>1, <1>8, NotUploadFits
<1>12. UploadsFit(uploads', calls') BY <1>1, <1>5, <1>11, PendingStay
<1> QED BY <1>1, <1>7, <1>8, <1>9, <1>10, <1>11, <1>12, DaemonKeeps

\* A deletion cleans up, commits or fails.
LEMMA DeletionSteps ==
  ASSUME ComposerAssumption, ComposerIInv, NEW c \in calls,
         DeletionRemovesFiles(c) \/ DeletionCommits(c) \/ DeletionFails(c)
  PROVE  ComposerIInv'
<1> DEFINE owned == Owned(c.bot)
<1>1. /\ c.kind = "delete" /\ c.phase # "done" /\ UNCHANGED <<page, store, home, moves>>
      /\ \E p \in {"done", "failed", "cleaning"} : Phase(c, p)
  BY DEF DeletionRemovesFiles, DeletionCommits, DeletionFails
<1>2. PICK state \in {"cleaning", "gone", "failed"} : bots' = [bots EXCEPT ![c.bot] = state]
  BY DEF DeletionRemovesFiles, DeletionCommits, DeletionFails
<1>3. /\ mail' \subseteq mail
      /\ uploads' = [f \in Files |-> IF f \in owned THEN [uploads[f] EXCEPT !.kind = "gone"] ELSE uploads[f]]
         \/ uploads' = uploads
      /\ disk' = [f \in Files |-> IF f \in owned THEN "none" ELSE disk[f]] \/ disk' = disk
  BY DEF DeletionRemovesFiles, DeletionCommits, DeletionFails
<1>4. \A f \in owned : uploads[f].bot = c.bot /\ uploads[f].kind # "none" BY DEF Owned
<1> HIDE DEF owned
<1>5. /\ c.bot \in Bots /\ WorldTyped /\ uploads \in [Files -> UploadRecord]
      /\ disk \in [Files -> {"none", "staged", "managed"}]
      /\ bots \in [Bots -> {"here", "cleaning", "failed", "gone"}]
  BY WindowFacts DEF ComposerIInv, WorldTyped
<1>6. \A f \in Files : /\ uploads'[f] \in UploadRecord /\ uploads'[f].bot = uploads[f].bot
                       /\ uploads[f].kind # "none" => uploads'[f].kind # "none"
                       /\ f \notin owned => uploads'[f] = uploads[f] /\ disk'[f] = disk[f]
  BY <1>3, <1>5 DEF UploadRecord
<1>7. WorldTyped' BY <1>3, <1>5, <1>6, <1>2, <1>1 DEF WorldTyped
<1>8. Rests BY <1>1, <1>6 DEF Rests, Goes
<1>9. SentFilesKept'
  <2> SUFFICES ASSUME NEW x \in mail', bots'[x.bot] = "here", NEW f \in x.files
               PROVE  uploads'[f].kind = "managed" /\ disk'[f] = "managed"
    BY DEF SentFilesKept
  <2>1. x \in mail /\ x.bot \in Bots /\ f \in Files /\ uploads[f].bot = x.bot
    BY <1>3 DEF ComposerIInv, MailFits, InHome
  <2>2. x.bot # c.bot /\ bots[x.bot] = "here" BY <1>2, <1>5, <2>1
  <2>3. f \notin owned BY <1>4, <2>1, <2>2
  <2>4. uploads[f].kind = "managed" /\ disk[f] = "managed" BY <2>1, <2>2 DEF ComposerIInv, SentFilesKept
  <2> QED BY <1>6, <2>1, <2>3, <2>4
<1>10. /\ \A d \in calls' : d \in calls \/ CallFits(home', uploads', d)
       /\ \A d \in calls' : ~Pending(d) \/ d \in calls
  BY <1>1, <1>8, NotUploadFits
<1>11. UploadsFit(uploads', calls') BY <1>4, <1>6, <1>10, PendingStay
<1> QED BY <1>1, <1>3, <1>7, <1>8, <1>9, <1>10, <1>11, DaemonKeeps

\* Every step keeps the invariant of the Composer.
LEMMA ComposerInvariantNext == ComposerIInv /\ [ComposerNext]_composerVars => ComposerIInv'
<1> SUFFICES ASSUME ComposerIInv, [ComposerNext]_composerVars PROVE ComposerIInv' OBVIOUS
<1> USE ComposerAssumption
<1>1. CASE UNCHANGED composerVars
  BY <1>1, WindowFacts, WindowKeeps DEF composerVars
<1>2. ASSUME NEW b \in Bots, Select(b) \/ BotDeleted(b) PROVE ComposerIInv'
  BY <1>2, SelectStep, BotDeletedStep
<1>3. CASE RestoreAnswered \/ RestoreEnds BY <1>3, RestoreSteps
<1>4. CASE Type \/ RememberCursor \/ SendMessage \/ Reload \/ Collected
  BY <1>4, TypeStep, RememberCursorStep, SendMessageStep, ReloadStep, CollectedStep
<1>5. ASSUME NEW f \in Files, Stage(f) \/ RemoveUpload(f) PROVE ComposerIInv'
  BY <1>5, StageStep, RemoveUploadStep
<1>6. CASE StartDictation \/ StopDictation \/ CancelDictation
  BY <1>6, StartDictationStep, DictationEndSteps
<1>7. ASSUME NEW c \in calls, Staged(c) \/ StageEnds(c) \/ StageFails(c) \/ Unstaged(c) \/ RemoveEnds(c)
      PROVE  ComposerIInv'
  BY <1>7, StagedStep, StageEndsStep, StageFailsStep, UnstagedStep, RemoveEndsStep
<1>8. ASSUME NEW c \in calls, Accepted(c) \/ SendEnds(c) \/ OtherAnswers(c) PROVE ComposerIInv'
  BY <1>8, AcceptedStep, SendEndsStep, OtherAnswersStep
<1>9. ASSUME NEW c \in calls, ListenEnds(c) \/ NotTranscribed(c) \/ VoiceEnds(c) \/ CancelAnswered(c)
      PROVE  ComposerIInv'
  BY <1>9, DictationAnswerSteps, VoiceEndsStep
<1>10. ASSUME NEW c \in calls, Transcribed(c, TRUE) \/ Transcribed(c, FALSE) PROVE ComposerIInv'
  <2>1. TRUE \in BOOLEAN /\ FALSE \in BOOLEAN OBVIOUS
  <2> QED BY <1>10, <2>1, TranscribedStep
<1>11. ASSUME NEW c \in calls, DeletionRemovesFiles(c) \/ DeletionCommits(c) \/ DeletionFails(c)
       PROVE  ComposerIInv'
  BY <1>11, DeletionSteps
<1>12. ASSUME NEW c \in calls, DeletionEnds(c) PROVE ComposerIInv' BY <1>12, DeletionEndsStep
<1> QED BY <1>1, <1>2, <1>3, <1>4, <1>5, <1>6, <1>7, <1>8, <1>9, <1>10, <1>11, <1>12 DEF ComposerNext

\* The invariant says what is asked of the drafts.
LEMMA DraftsKept == ASSUME ComposerIInv PROVE DraftsAreKept
<1>1. ComposerTypeOK
  BY WindowFacts DEF ComposerIInv, WorldTyped, ComposerTypeOK, StoreFits, PageRecord
<1>2. \A b \in Bots : OfBot(b, store[b].text, store[b].files)
  BY WindowFacts DEF DraftFits, InHome, OfBot
<1>3. OfBot(page.selected, page.draft.text, page.draft.files) /\ OfBot(page.selected, {}, page.drawer)
  BY WindowFacts DEF PageFits, DraftFits, InHome, OfBot
<1>4. \A x \in mail : OfBot(x.bot, x.text, x.files)
  BY DEF ComposerIInv, MailFits, InHome, OfBot
<1> QED BY <1>1, <1>2, <1>3, <1>4 DEF ComposerIInv, DraftsAreKept, StaysHome

\* DraftsAreKept: whatever order uploads, removals, sends, recordings, restores, deletions and reloads
\* end in, words and files stay in the conversation they were entered in, and the files of a message
\* are kept while its Bot is there.
THEOREM DraftsStayKept == ComposerSpec => []DraftsAreKept
<1>1. ComposerIInv => DraftsAreKept BY DraftsKept
<1> QED BY <1>1, ComposerInvariantInit, ComposerInvariantNext, PTL DEF ComposerSpec

-----------------------------------------------------------------------------
(* The event log and its replay. *)

LogRow == [cursor : Nat, bot : Topics \cup {NoTopic}, completed : BOOLEAN, routed : BOOLEAN]
Messages == [type : {"event"}, event : LogRow] \cup [type : {"hello", "snapshot_required"}]

ReplayTyped ==
  /\ log \in [events : SUBSET LogRow, last : Nat, shown : Nat] /\ IsFiniteSet(log.events)
  /\ pump \in [cursor : Nat, notifies : BOOLEAN, retries : 0..MaxRetries,
               socket : {"closed", "connecting", "subscribed"}]
  /\ channel \in Seq(Messages)
  /\ cache \in [version : Nat, stale : BOOLEAN,
                fetch : [state : {"idle", "asked", "answered"}, version : Nat]]
  /\ told \in [early : BOOLEAN, opened : Nat, drops : Nat]

\* Every row has a cursor of its own, and that of the last routed event is in the table: the event
\* of a deletion survives what it deletes.
LogIsNumbered ==
  /\ \A e \in log.events : e.cursor \in 1..log.last
  /\ \A e, g \in log.events : e.cursor = g.cursor => e = g
  /\ log.shown <= log.last
  /\ log.shown > 0 => \E e \in log.events : e.cursor = log.shown /\ e.routed = TRUE

\* Nobody is ahead of the log.
Behind ==
  /\ pump.cursor <= log.last /\ told.opened <= log.last
  /\ cache.version <= log.last /\ cache.fetch.version <= log.last

\* The socket carries events in order, all of them after the cursor of the page.
InOrder ==
  /\ pump.socket # "subscribed" => channel = <<>>
  /\ \A i \in DOMAIN channel :
       /\ channel[i].type = "event" =>
            /\ pump.cursor < channel[i].event.cursor /\ channel[i].event.cursor <= log.last
            /\ channel[i].event.cursor = log.shown => channel[i].event.routed = TRUE
       /\ channel[i].type = "snapshot_required" => i = 1 /\ (pump.cursor < log.shown \/ log.shown = 0)
  /\ \A i, j \in DOMAIN channel :
       i < j /\ channel[i].type = "event" /\ channel[j].type = "event"
       => channel[i].event.cursor < channel[j].event.cursor

\* Message m tells the page of the latest change that is routed, or to start over.
Tells(m, last) ==
  \/ m.type = "snapshot_required"
  \/ m.type = "event" /\ m.event.cursor = last

\* What a page that shows this version lacks is on its way.
OnItsWay(version) ==
  \/ version >= log.shown
  \/ pump.socket = "subscribed" /\ \E i \in DOMAIN channel : Tells(channel[i], log.shown)
  \/ pump.socket # "subscribed" /\ pump.cursor < log.shown

AnswersKnown ==
  /\ cache.stale = FALSE => OnItsWay(cache.version)
  /\ cache.fetch.state = "answered" => OnItsWay(cache.fetch.version)

\* As long as nothing was lost: the page notifies only what came after it was opened.
FirstReplayIsSilent ==
  told.drops = 0 =>
    /\ told.early = FALSE
    /\ pump.socket # "subscribed" => pump.cursor = NoCursor /\ pump.notifies = FALSE
    /\ \A j \in DOMAIN channel :
         /\ channel[j].type = "event"
         /\ pump.notifies \/ \E i \in DOMAIN channel : i < j /\ channel[i].type = "hello"
         => channel[j].event.cursor > told.opened

ReplayIInv ==
  /\ ReplayTyped /\ LogIsNumbered /\ Behind /\ InOrder /\ AnswersKnown /\ FirstReplayIsSilent

\* The rows of a table with a cursor of their own, listed in ascending order, each of them.
LEMMA AscendingList ==
  ASSUME NEW es, IsFiniteSet(es), \A e \in es : e.cursor \in Nat,
         \A e, g \in es : e.cursor = g.cursor => e = g,
         NEW list, list = Ascending(es)
  PROVE  /\ list \in Seq(es)
         /\ \A i, j \in DOMAIN list : i < j => list[i].cursor < list[j].cursor
         /\ \A e \in es : \E i \in DOMAIN list : list[i] = e
<1> DEFINE n == Cardinality(es)
           rank == [e \in es |-> Cardinality(Upto(es, e))]
<1>1. n \in Nat BY FS_CardinalityType
<1>2. \A e \in es : Upto(es, e) \in SUBSET es /\ e \in Upto(es, e) BY DEF Upto
<1>3. \A e \in es : /\ IsFiniteSet(Upto(es, e)) /\ Cardinality(Upto(es, e)) \in Nat
                    /\ Cardinality(Upto(es, e)) <= n
  BY <1>2, FS_Subset, FS_CardinalityType
<1>4. \A e \in es : Cardinality(Upto(es, e)) # 0 BY <1>2, <1>3, FS_EmptySet
<1>5. \A e, g \in es : e.cursor < g.cursor => Cardinality(Upto(es, e)) < Cardinality(Upto(es, g))
  <2> SUFFICES ASSUME NEW e \in es, NEW g \in es, e.cursor < g.cursor
               PROVE  Cardinality(Upto(es, e)) < Cardinality(Upto(es, g))
    OBVIOUS
  <2>1. g \in Upto(es, g) /\ g \notin Upto(es, e) BY DEF Upto
  <2>2. Upto(es, e) \in SUBSET Upto(es, g) BY DEF Upto
  <2>3. Upto(es, e) # Upto(es, g) BY <2>1
  <2>4. /\ Cardinality(Upto(es, e)) <= Cardinality(Upto(es, g))
        /\ Cardinality(Upto(es, g)) = Cardinality(Upto(es, e)) => Upto(es, g) = Upto(es, e)
    BY <1>3, <2>2, FS_Subset
  <2> QED BY <1>3, <2>3, <2>4
<1>6. rank \in [es -> 1..n] BY <1>1, <1>3, <1>4
<1>7. \A e, g \in es : rank[e] = rank[g] => e = g
  <2> SUFFICES ASSUME NEW e \in es, NEW g \in es, e # g PROVE rank[e] # rank[g] OBVIOUS
  <2>1. e.cursor < g.cursor \/ g.cursor < e.cursor OBVIOUS
  <2> QED BY <1>3, <1>5, <2>1
<1>8. rank \in Injection(es, 1..n) BY <1>6, <1>7 DEF Injection, IsInjective
<1>9. IsFiniteSet(1..n) /\ Cardinality(1..n) = n BY <1>1, FS_Interval
<1>10. rank \in Surjection(es, 1..n) BY <1>8, <1>9, FS_Injection
<1>11. \A i \in 1..n : \E e \in es : Cardinality(Upto(es, e)) = i BY <1>10 DEF Surjection
<1>12. list = [i \in 1..n |-> CHOOSE e \in es : Cardinality(Upto(es, e)) = i] BY DEF Ascending
<1>13. \A i \in 1..n : list[i] \in es /\ Cardinality(Upto(es, list[i])) = i BY <1>11, <1>12
<1>14. DOMAIN list = 1..n BY <1>12
<1>15. list \in Seq(es)
  <2>1. list \in [1..n -> es] BY <1>12, <1>13
  <2> HIDE DEF n
  <2> QED BY <1>1, <2>1
<1>16. \A i, j \in DOMAIN list : i < j => list[i].cursor < list[j].cursor
  <2> SUFFICES ASSUME NEW i \in 1..n, NEW j \in 1..n, ~(list[i].cursor < list[j].cursor)
               PROVE  ~(i < j)
    BY <1>14
  <2>1. list[i] \in es /\ list[j] \in es BY <1>13
  <2>2. i = Cardinality(Upto(es, list[i])) /\ j = Cardinality(Upto(es, list[j])) BY <1>13
  <2>3. list[j].cursor < list[i].cursor \/ list[i].cursor = list[j].cursor BY <2>1
  <2>4. CASE list[j].cursor < list[i].cursor BY <1>1, <1>5, <2>1, <2>2, <2>4
  <2>5. CASE list[i].cursor = list[j].cursor
    <3>1. list[i] = list[j] BY <2>1, <2>5
    <3>2. i = j BY <2>2, <3>1
    <3> QED BY <1>1, <3>2
  <2> QED BY <2>3, <2>4, <2>5
<1>17. ASSUME NEW e \in es PROVE \E i \in DOMAIN list : list[i] = e
  <2>1. rank[e] \in 1..n BY <1>6
  <2>2. list[rank[e]] \in es /\ Cardinality(Upto(es, list[rank[e]])) = rank[e] BY <1>13, <2>1
  <2>3. rank[list[rank[e]]] = rank[e] BY <2>2
  <2>4. list[rank[e]] = e BY <1>7, <2>2, <2>3
  <2> QED BY <1>14, <2>1, <2>4
<1> QED BY <1>15, <1>16, <1>17

\* The number of retries is a number.
LEMMA RetriesBound ==
  ASSUME ReplayAssumption PROVE MaxRetries \in Nat /\ 0 \in 0..MaxRetries
<1>1. MaxRetries \in {MaxChanges, MaxRetries, MaxDrops} OBVIOUS
<1>2. MaxRetries \in Nat BY <1>1 DEF ReplayAssumption
<1> QED BY <1>2

\* The initial log is numbered, and the page knows nothing.
LEMMA ReplayStarts ==
  ASSUME ReplayAssumption, ReplayInit
  PROVE  ReplayIInv
<1>1. PICK n \in 0..2, b \in Topics :
        /\ log = [events |-> {[cursor |-> i, bot |-> b, completed |-> TRUE, routed |-> TRUE] : i \in 1..n},
                   last |-> n, shown |-> n]
        /\ pump = [cursor |-> NoCursor, notifies |-> FALSE, retries |-> 0, socket |-> "closed"]
        /\ channel = <<>>
        /\ cache = [version |-> 0, stale |-> TRUE, fetch |-> NoFetch]
        /\ told = [early |-> FALSE, opened |-> n, drops |-> 0]
  BY DEF ReplayInit
<1>2. IsFiniteSet(log.events)
  <2>1. IsFiniteSet(1..n) BY FS_Interval
  <2> DEFINE r(i) == [cursor |-> i, bot |-> b, completed |-> TRUE, routed |-> TRUE]
             f == [i \in 1..n |-> r(i)]
  <2>2. log.events = {f[i] : i \in 1..n} BY <1>1
  <2>3. f \in Surjection(1..n, log.events) BY <2>2 DEF Surjection
  <2> QED BY <2>1, <2>3, FS_Surjection
<1>3. /\ log.last = n /\ log.shown = n /\ n \in Nat
      /\ \A e : e \in log.events <=>
           \E i \in 1..n : e = [cursor |-> i, bot |-> b, completed |-> TRUE, routed |-> TRUE]
  BY <1>1
<1>4. log.events \subseteq LogRow
  <2>1. \A i \in 1..n : [cursor |-> i, bot |-> b, completed |-> TRUE, routed |-> TRUE] \in LogRow BY
    DEF LogRow
  <2> QED BY <1>3, <2>1
<1>5. ReplayTyped
  <2>1. log \in [events : SUBSET LogRow, last : Nat, shown : Nat] BY <1>1, <1>3, <1>4
  <2>2. pump \in [cursor : Nat, notifies : BOOLEAN, retries : 0..MaxRetries,
                  socket : {"closed", "connecting", "subscribed"}]
    BY <1>1, RetriesBound DEF NoCursor
  <2>3. channel \in Seq(Messages) BY <1>1
  <2>4. cache \in [version : Nat, stale : BOOLEAN,
                   fetch : [state : {"idle", "asked", "answered"}, version : Nat]]
    BY <1>1 DEF NoFetch
  <2>5. told \in [early : BOOLEAN, opened : Nat, drops : Nat] BY <1>1, <1>3
  <2> QED BY <1>2, <2>1, <2>2, <2>3, <2>4, <2>5 DEF ReplayTyped
<1>6. LogIsNumbered
  <2>1. \A e \in log.events : e.cursor \in 1..log.last BY <1>3
  <2>2. ASSUME NEW e \in log.events, NEW g \in log.events, e.cursor = g.cursor PROVE e = g
    <3>1. PICK i \in 1..n : e = [cursor |-> i, bot |-> b, completed |-> TRUE, routed |-> TRUE] BY <1>3
    <3>2. PICK j \in 1..n : g = [cursor |-> j, bot |-> b, completed |-> TRUE, routed |-> TRUE] BY <1>3
    <3> QED BY <2>2, <3>1, <3>2
  <2>3. log.shown > 0 => \E e \in log.events : e.cursor = log.shown /\ e.routed = TRUE
    <3> SUFFICES ASSUME n > 0 PROVE \E e \in log.events : e.cursor = n /\ e.routed = TRUE BY <1>3
    <3>1. n \in 1..n OBVIOUS
    <3>2. [cursor |-> n, bot |-> b, completed |-> TRUE, routed |-> TRUE] \in log.events BY <1>3, <3>1
    <3> QED BY <3>2
  <2> QED BY <1>3, <2>1, <2>2, <2>3 DEF LogIsNumbered
<1>7. Behind BY <1>1, <1>3 DEF Behind, NoFetch, NoCursor
<1>8. InOrder BY <1>1 DEF InOrder
<1>9. AnswersKnown BY <1>1 DEF AnswersKnown, NoFetch
<1>10. FirstReplayIsSilent BY <1>1 DEF FirstReplayIsSilent
<1> QED BY <1>5, <1>6, <1>7, <1>8, <1>9, <1>10 DEF ReplayIInv

\* What a message is.
LEMMA MessageKinds ==
  ASSUME ReplayTyped
  PROVE  \A i \in DOMAIN channel :
           /\ channel[i] \in Messages
           /\ channel[i].type = "event" =>
                channel[i].event \in LogRow /\ channel[i].event.cursor \in Nat
<1>1. channel \in Seq(Messages) BY DEF ReplayTyped
<1>2. \A i \in DOMAIN channel : channel[i] \in Messages
  <2> HIDE DEF Messages
  <2> QED BY <1>1
<1> QED BY <1>2 DEF Messages, LogRow

\* An event is appended to what a deletion left of the log, and a subscribed page is told.
LEMMA AppendKeeps ==
  ASSUME ReplayAssumption, ReplayIInv, NEW b \in Topics \cup {NoTopic}, NEW completed \in BOOLEAN,
         NEW routed \in BOOLEAN, NEW kept \in SUBSET log.events, routed = TRUE \/ kept = log.events,
         AppendEvent(b, completed, routed, kept)
  PROVE  ReplayIInv'
<1>0. /\ ReplayTyped /\ LogIsNumbered /\ Behind /\ InOrder /\ AnswersKnown /\ FirstReplayIsSilent
  BY DEF ReplayIInv
<1> DEFINE e == [cursor |-> log.last + 1, bot |-> b, completed |-> completed, routed |-> routed]
           m == [type |-> "event", event |-> e]
<1>1. /\ log' = [events |-> kept \cup {e}, last |-> log.last + 1,
                shown |-> IF routed THEN log.last + 1 ELSE log.shown]
      /\ channel' = IF pump.socket = "subscribed" THEN Append(channel, m) ELSE channel
      /\ pump' = pump /\ cache' = cache /\ told' = told
  BY DEF AppendEvent, Written, EventMessage
<1>2. /\ log.last \in Nat /\ log.shown \in Nat /\ log.events \subseteq LogRow
      /\ IsFiniteSet(log.events)
  BY <1>0 DEF ReplayTyped
<1>3. e \in LogRow /\ e.cursor = log.last + 1 /\ e.routed = routed
      /\ m \in Messages /\ m.type = "event" /\ m.event = e
  BY <1>2 DEF LogRow, Messages
<1> HIDE DEF e, m
<1>4. /\ log'.events = kept \cup {e} /\ log'.last = log.last + 1
      /\ log'.shown = IF routed THEN log.last + 1 ELSE log.shown
  BY <1>1
<1>5. channel \in Seq(Messages) BY <1>0 DEF ReplayTyped
<1>6. /\ channel' \in Seq(Messages) /\ DOMAIN channel \subseteq DOMAIN channel'
      /\ \A i \in DOMAIN channel : channel'[i] = channel[i]
      /\ \A i \in DOMAIN channel' : /\ i \in Nat \ {0}
                                    /\ i \in DOMAIN channel
                                       \/ /\ pump.socket = "subscribed" /\ channel'[i] = m
                                          /\ i = Len(channel) + 1
      /\ pump.socket = "subscribed" => \E i \in DOMAIN channel' : channel'[i] = m
      /\ pump.socket # "subscribed" => channel' = channel
  <2> HIDE DEF Messages
  <2>1. CASE pump.socket = "subscribed"
    <3>1. channel' = Append(channel, m) BY <1>1, <2>1
    <3>2. channel' \in Seq(Messages) /\ Len(channel') = Len(channel) + 1 BY <1>3, <1>5, <3>1
    <3>3. DOMAIN channel = 1..Len(channel) /\ DOMAIN channel' = 1..(Len(channel) + 1)
      BY <1>5, <3>2
    <3>4. Len(channel) \in Nat BY <1>5
    <3>5. \A i \in 1..Len(channel) : channel'[i] = channel[i] BY <1>3, <1>5, <3>1
    <3>6. channel'[Len(channel) + 1] = m BY <1>3, <1>5, <3>1
    <3>7. Len(channel) + 1 \in DOMAIN channel' BY <3>3, <3>4
    <3> QED BY <2>1, <3>2, <3>3, <3>4, <3>5, <3>6, <3>7
  <2>2. CASE pump.socket # "subscribed"
    <3>1. channel' = channel BY <1>1, <2>2
    <3> QED BY <1>5, <2>2, <3>1
  <2> QED BY <2>1, <2>2
<1>7. ReplayTyped'
  <2>1. IsFiniteSet(kept \cup {e}) BY <1>2, FS_Subset, FS_AddElement
  <2>2. kept \cup {e} \in SUBSET LogRow BY <1>2, <1>3
  <2>3. log' \in [events : SUBSET LogRow, last : Nat, shown : Nat] BY <1>1, <1>2, <2>2
  <2> QED BY <1>0, <1>1, <1>4, <1>6, <2>1, <2>3 DEF ReplayTyped
<1>8. LogIsNumbered'
  <2>1. \A g \in kept : g.cursor \in 1..log.last BY <1>0 DEF LogIsNumbered
  <2>2. \A g \in log'.events : g.cursor \in 1..log'.last BY <1>2, <1>3, <1>4, <2>1
  <2>3. \A g, h \in log'.events : g.cursor = h.cursor => g = h
    BY <1>0, <1>2, <1>3, <1>4, <2>1 DEF LogIsNumbered
  <2>4. log'.shown <= log'.last BY <1>0, <1>2, <1>4 DEF LogIsNumbered
  <2>5. log'.shown > 0 => \E g \in log'.events : g.cursor = log'.shown /\ g.routed = TRUE
    <3>1. CASE routed = TRUE
      <4>1. e \in log'.events /\ e.cursor = log'.shown /\ e.routed = TRUE BY <1>3, <1>4, <3>1
      <4> QED BY <4>1
    <3>2. CASE routed = FALSE
      <4>1. kept = log.events /\ log'.shown = log.shown BY <1>4, <3>2
      <4> QED BY <1>0, <1>4, <4>1 DEF LogIsNumbered
    <3> QED BY <3>1, <3>2
  <2> QED BY <2>2, <2>3, <2>4, <2>5 DEF LogIsNumbered
<1>9. Behind' BY <1>0, <1>1, <1>2, <1>4 DEF Behind, ReplayTyped
<1>10. pump.cursor \in Nat /\ told.opened \in Nat BY <1>0 DEF ReplayTyped
<1>11. \A i \in DOMAIN channel : channel[i].type = "event" => channel[i].event.cursor \in Nat
  BY <1>0, MessageKinds
<1>12. InOrder'
  <2>1. pump'.socket # "subscribed" => channel' = <<>> BY <1>0, <1>1, <1>6 DEF InOrder
  <2>2. ASSUME NEW i \in DOMAIN channel'
        PROVE  /\ channel'[i].type = "event" =>
                    /\ pump'.cursor < channel'[i].event.cursor /\ channel'[i].event.cursor <= log'.last
                    /\ channel'[i].event.cursor = log'.shown => channel'[i].event.routed = TRUE
               /\ channel'[i].type = "snapshot_required" =>
                    i = 1 /\ (pump'.cursor < log'.shown \/ log'.shown = 0)
    <3>0. log.shown <= log.last /\ pump.cursor <= log.last BY <1>0 DEF LogIsNumbered, Behind
    <3>1. CASE i \in DOMAIN channel
      <4>1. /\ channel'[i] = channel[i] /\ pump' = pump /\ routed \in BOOLEAN
            /\ channel[i].type = "event" => channel[i].event.cursor \in Nat
        BY <1>1, <1>6, <1>11, <3>1
      <4>2. /\ channel[i].type = "event" =>
                 /\ pump.cursor < channel[i].event.cursor /\ channel[i].event.cursor <= log.last
                 /\ channel[i].event.cursor = log.shown => channel[i].event.routed = TRUE
            /\ channel[i].type = "snapshot_required" =>
                 i = 1 /\ (pump.cursor < log.shown \/ log.shown = 0)
        BY <1>0, <3>1 DEF InOrder
      <4>3. \/ routed = TRUE /\ log'.shown = log.last + 1
            \/ log'.shown = log.shown
        BY <1>4
      <4> QED BY ONLY <1>2, <1>4, <1>10, <3>0, <4>1, <4>2, <4>3
    <3>2. CASE channel'[i] = m
      <4>1. routed = TRUE \/ (routed = FALSE /\ log'.shown = log.shown) BY <1>4
      <4>2. log'.last = log.last + 1 BY <1>4
      <4>3. pump' = pump /\ channel'[i].event = e /\ channel'[i].type = "event" BY <1>1, <1>3, <3>2
      <4>4. e.cursor = log.last + 1 /\ e.routed = routed BY <1>3
      <4> QED BY <1>2, <1>10, <3>0, <4>1, <4>2, <4>3, <4>4
    <3> QED BY <1>6, <3>1, <3>2
  <2>3. ASSUME NEW i \in DOMAIN channel', NEW j \in DOMAIN channel', i < j,
               channel'[i].type = "event", channel'[j].type = "event"
        PROVE  channel'[i].event.cursor < channel'[j].event.cursor
    <3>1. Len(channel) \in Nat /\ DOMAIN channel = 1..Len(channel) BY <1>5
    <3>2. i \in DOMAIN channel BY <1>6, <2>3, <3>1
    <3>3. CASE j \in DOMAIN channel BY <1>0, <1>6, <2>3, <3>2, <3>3 DEF InOrder
    <3>4. CASE channel'[j] = m
      <4>1. channel[i].event.cursor <= log.last BY <1>0, <1>6, <2>3, <3>2 DEF InOrder
      <4> QED BY <1>2, <1>3, <1>6, <1>11, <2>3, <3>2, <3>4, <4>1
    <3> QED BY <1>6, <3>3, <3>4
  <2> QED BY <2>1, <2>2, <2>3 DEF InOrder
<1>13. AnswersKnown'
  <2>1. CASE routed = TRUE
    <3>1. pump.socket = "subscribed" => \E i \in DOMAIN channel' : Tells(channel'[i], log'.shown)
      BY <1>3, <1>4, <1>6, <2>1 DEF Tells
    <3>2. pump.cursor < log'.shown BY <1>0, <1>2, <1>4, <1>10, <2>1 DEF Behind
    <3>3. \A v : OnItsWay(v)' BY <1>1, <3>1, <3>2 DEF OnItsWay
    <3> QED BY <1>1, <3>3 DEF AnswersKnown
  <2>2. CASE routed = FALSE
    <3>1. log'.shown = log.shown BY <1>4, <2>2
    <3>2. ASSUME NEW i \in DOMAIN channel, Tells(channel[i], log.shown)
          PROVE  \E j \in DOMAIN channel' : Tells(channel'[j], log'.shown)
      <4>1. i \in DOMAIN channel' /\ channel'[i] = channel[i] BY <1>6
      <4> QED BY <3>1, <3>2, <4>1
    <3>3. \A v : OnItsWay(v) => OnItsWay(v)' BY <1>1, <3>1, <3>2 DEF OnItsWay
    <3> QED BY <1>0, <1>1, <3>3 DEF AnswersKnown
  <2> QED BY <2>1, <2>2
<1>14. FirstReplayIsSilent'
  <2> SUFFICES ASSUME told.drops = 0 PROVE FirstReplayIsSilent' BY <1>1 DEF FirstReplayIsSilent
  <2>1. ASSUME NEW j \in DOMAIN channel', channel'[j].type = "event",
               pump.notifies \/ \E i \in DOMAIN channel' : i < j /\ channel'[i].type = "hello"
        PROVE  channel'[j].event.cursor > told.opened
    <3>1. CASE channel'[j] = m BY <1>0, <1>2, <1>3, <1>10, <3>1 DEF Behind
    <3>2. CASE j \in DOMAIN channel
      <4>1. Len(channel) \in Nat /\ DOMAIN channel = 1..Len(channel) BY <1>5
      <4>2. pump.notifies \/ \E i \in DOMAIN channel : i < j /\ channel[i].type = "hello"
        BY <1>6, <2>1, <3>2, <4>1
      <4> QED BY <1>0, <1>6, <2>1, <3>2, <4>2 DEF FirstReplayIsSilent
    <3> QED BY <1>6, <3>1, <3>2
  <2>2. /\ told.early = FALSE
        /\ pump.socket # "subscribed" => pump.cursor = NoCursor /\ pump.notifies = FALSE
    BY <1>0 DEF FirstReplayIsSilent
  <2> QED BY <1>1, <2>1, <2>2 DEF FirstReplayIsSilent
<1> QED BY <1>7, <1>8, <1>9, <1>12, <1>13, <1>14 DEF ReplayIInv

LEMMA ConnectKeeps ==
  ASSUME ReplayAssumption, ReplayIInv, Connect
  PROVE  ReplayIInv'
<1>0. /\ ReplayTyped /\ LogIsNumbered /\ Behind /\ InOrder /\ AnswersKnown /\ FirstReplayIsSilent
  BY DEF ReplayIInv
<1>1. /\ pump.socket = "closed" /\ log' = log /\ channel' = channel /\ cache' = cache /\ told' = told
      /\ pump' = [pump EXCEPT !.socket = "connecting", !.notifies = pump.cursor # NoCursor]
  BY DEF Connect
<1>2. pump \in [cursor : Nat, notifies : BOOLEAN, retries : 0..MaxRetries,
                socket : {"closed", "connecting", "subscribed"}]
  BY <1>0 DEF ReplayTyped
<1>3. /\ pump'.cursor = pump.cursor /\ pump'.socket = "connecting"
      /\ pump' \in [cursor : Nat, notifies : BOOLEAN, retries : 0..MaxRetries,
                    socket : {"closed", "connecting", "subscribed"}]
      /\ pump'.notifies = (pump.cursor # NoCursor)
  BY <1>1, <1>2
<1>4. channel = <<>> /\ DOMAIN channel' = {} BY <1>0, <1>1 DEF InOrder
<1>5. ReplayTyped' BY <1>0, <1>1, <1>3 DEF ReplayTyped
<1>6. LogIsNumbered' BY <1>0, <1>1 DEF LogIsNumbered
<1>7. Behind' BY <1>0, <1>1, <1>3 DEF Behind
<1>8. InOrder' BY <1>1, <1>4 DEF InOrder
<1>9. AnswersKnown' BY <1>1, <1>3, <1>0 DEF OnItsWay, AnswersKnown
<1>10. FirstReplayIsSilent' BY <1>0, <1>1, <1>3, <1>4 DEF FirstReplayIsSilent
<1> QED BY <1>5, <1>6, <1>7, <1>8, <1>9, <1>10 DEF ReplayIInv

\* The daemon replays what came after the page's cursor, or has it start over, and is caught up.
LEMMA HelloKeeps ==
  ASSUME ReplayAssumption, ReplayIInv, Hello
  PROVE  ReplayIInv'
<1>0. /\ ReplayTyped /\ LogIsNumbered /\ Behind /\ InOrder /\ AnswersKnown /\ FirstReplayIsSilent
  BY DEF ReplayIInv
<1> DEFINE es == After(pump.cursor)
           hello == [type |-> "hello"]
           snapshot == [type |-> "snapshot_required"]
<1>1. pump.socket = "connecting" /\ log' = log /\ cache' = cache /\ told' = told
  BY DEF Hello
<1>2. PICK list : list = Replay(pump.cursor) OBVIOUS
<1>3. PICK q : q = IF BehindRetention(pump.cursor) THEN <<snapshot>>
                   ELSE [i \in DOMAIN list |-> EventMessage(list[i])]
  OBVIOUS
<1>4. channel' = q \o <<hello>> BY <1>2, <1>3 DEF Hello
<1>5. pump \in [cursor : Nat, notifies : BOOLEAN, retries : 0..MaxRetries,
                socket : {"closed", "connecting", "subscribed"}]
  BY <1>0 DEF ReplayTyped
<1>6. /\ pump'.cursor = pump.cursor /\ pump'.socket = "subscribed" /\ pump'.notifies = pump.notifies
      /\ pump' \in [cursor : Nat, notifies : BOOLEAN, retries : 0..MaxRetries,
                    socket : {"closed", "connecting", "subscribed"}]
  BY <1>5, RetriesBound DEF Hello, Subscribed
<1>7. /\ log.last \in Nat /\ log.shown \in Nat /\ log.events \subseteq LogRow
      /\ IsFiniteSet(log.events) /\ pump.cursor \in Nat
  BY <1>0, <1>5 DEF ReplayTyped
<1>8. \A e \in LogRow : e.cursor \in Nat BY DEF LogRow
<1>9. /\ list \in Seq(es)
      /\ \A i, j \in DOMAIN list : i < j => list[i].cursor < list[j].cursor
      /\ \A e \in es : \E i \in DOMAIN list : list[i] = e
  <2>1. es \subseteq log.events BY DEF After
  <2>2. IsFiniteSet(es) BY <1>7, <2>1, FS_Subset
  <2>3. \A e \in es : e.cursor \in Nat BY <1>7, <1>8, <2>1
  <2>4. \A e, g \in es : e.cursor = g.cursor => e = g BY <1>0, <2>1 DEF LogIsNumbered
  <2>5. list = Ascending(es) BY <1>2 DEF Replay
  <2> HIDE DEF es
  <2> QED BY <2>2, <2>3, <2>4, <2>5, AscendingList
<1>10. \A i \in DOMAIN list :
         /\ list[i] \in log.events /\ list[i] \in LogRow /\ list[i].cursor \in Nat
         /\ pump.cursor < list[i].cursor /\ list[i].cursor <= log.last
         /\ list[i].cursor = log.shown => list[i].routed = TRUE
  <2>1. \A i \in DOMAIN list : list[i] \in es
    <3> HIDE DEF es
    <3> QED BY <1>9
  <2>2. \A e \in es : e \in log.events /\ pump.cursor < e.cursor BY <1>7, <1>8 DEF After
  <2>3. \A e \in es : e.cursor <= log.last /\ e.cursor > 0 BY <1>0, <2>2 DEF LogIsNumbered
  <2>4. \A e \in es : e.cursor = log.shown => e.routed = TRUE
    BY <1>0, <1>7, <2>2, <2>3 DEF LogIsNumbered
  <2> QED BY <1>7, <1>8, <2>1, <2>2, <2>3, <2>4
<1>11. BehindRetention(pump.cursor) => pump.cursor < log.shown \/ log.shown = 0
  <2> SUFFICES ASSUME BehindRetention(pump.cursor), log.shown > 0 PROVE pump.cursor < log.shown
    BY <1>7
  <2>1. PICK e \in log.events : e.cursor = log.shown BY <1>0 DEF LogIsNumbered
  <2>2. pump.cursor + 1 < e.cursor BY DEF BehindRetention
  <2> QED BY <1>7, <2>1, <2>2
<1>12. hello \in Messages /\ snapshot \in Messages BY DEF Messages
<1>13. \A i \in DOMAIN list : EventMessage(list[i]) \in Messages BY <1>10 DEF Messages, EventMessage
\* What is sent before the greeting.
<1>14. /\ q \in Seq(Messages)
       /\ \/ BehindRetention(pump.cursor) /\ q = <<snapshot>>
          \/ /\ ~BehindRetention(pump.cursor)
             /\ DOMAIN q = DOMAIN list
             /\ \A i \in DOMAIN q : q[i].type = "event" /\ q[i].event = list[i]
  <2>1. CASE BehindRetention(pump.cursor)
    <3> HIDE DEF Messages, snapshot
    <3> QED BY <1>3, <1>12, <2>1
  <2>2. CASE ~BehindRetention(pump.cursor)
    <3>1. q = [i \in DOMAIN list |-> EventMessage(list[i])] BY <1>3, <2>2
    <3>2. \A i \in DOMAIN q : q[i].type = "event" /\ q[i].event = list[i]
      BY <3>1 DEF EventMessage
    <3>3. DOMAIN list = 1..Len(list) /\ Len(list) \in Nat
      <4> HIDE DEF es
      <4> QED BY <1>9
    <3>4. q \in [1..Len(list) -> Messages]
      <4> HIDE DEF Messages
      <4> QED BY <1>13, <3>1, <3>3
    <3>5. q \in Seq(Messages)
      <4> HIDE DEF Messages
      <4> QED BY <3>3, <3>4
    <3> QED BY <2>2, <3>1, <3>2, <3>5
  <2> QED BY <2>1, <2>2
<1>15. /\ channel' \in Seq(Messages)
       /\ \A i \in DOMAIN q : i \in DOMAIN channel' /\ channel'[i] = q[i]
       /\ \A i \in DOMAIN channel' : \/ i \in DOMAIN q /\ channel'[i] = q[i]
                                     \/ channel'[i] = hello /\ i = Len(q) + 1
       /\ DOMAIN q = 1..Len(q) /\ Len(q) \in Nat
  <2> HIDE DEF Messages, hello
  <2>1. q \in Seq(Messages) /\ hello \in Messages BY <1>12, <1>14
  <2>2. channel' \in Seq(Messages) /\ Len(channel') = Len(q) + 1 BY <1>4, <2>1
  <2>3. DOMAIN q = 1..Len(q) /\ Len(q) \in Nat /\ DOMAIN channel' = 1..(Len(q) + 1) BY <2>1, <2>2
  <2>4. \A i \in 1..Len(q) : channel'[i] = q[i] BY <1>4, <2>1
  <2>5. channel'[Len(q) + 1] = hello BY <1>4, <2>1
  <2> QED BY <2>2, <2>3, <2>4, <2>5
<1>16. ReplayTyped' BY <1>0, <1>1, <1>6, <1>15 DEF ReplayTyped
<1>17. LogIsNumbered' BY <1>0, <1>1 DEF LogIsNumbered
<1>18. Behind' BY <1>0, <1>1, <1>6 DEF Behind
<1>19. \A i \in DOMAIN channel' :
         channel'[i].type = "event" => /\ i \in DOMAIN list /\ channel'[i].event = list[i]
  BY <1>14, <1>15
<1>20. InOrder'
  <2>1. ASSUME NEW i \in DOMAIN channel', channel'[i].type = "event"
        PROVE  /\ pump'.cursor < channel'[i].event.cursor /\ channel'[i].event.cursor <= log'.last
               /\ channel'[i].event.cursor = log'.shown => channel'[i].event.routed = TRUE
    BY <1>1, <1>6, <1>10, <1>19, <2>1
  <2>2. ASSUME NEW i \in DOMAIN channel', channel'[i].type = "snapshot_required"
        PROVE  i = 1 /\ (pump'.cursor < log'.shown \/ log'.shown = 0)
    <3>1. i \in DOMAIN q /\ channel'[i] = q[i] BY <1>15, <2>2
    <3>2. BehindRetention(pump.cursor) /\ q = <<snapshot>> BY <1>14, <2>2, <3>1
    <3> QED BY <1>1, <1>6, <1>11, <3>1, <3>2
  <2>3. ASSUME NEW i \in DOMAIN channel', NEW j \in DOMAIN channel', i < j,
               channel'[i].type = "event", channel'[j].type = "event"
        PROVE  channel'[i].event.cursor < channel'[j].event.cursor
    BY <1>9, <1>19, <2>3
  <2> QED BY <1>6, <2>1, <2>2, <2>3 DEF InOrder
<1>21. AnswersKnown'
  <2>1. ASSUME pump.cursor < log.shown PROVE \E i \in DOMAIN channel' : Tells(channel'[i], log.shown)
    <3>1. CASE BehindRetention(pump.cursor)
      <4>1. q = <<snapshot>> /\ 1 \in DOMAIN q /\ q[1] = snapshot BY <1>14, <3>1
      <4>2. 1 \in DOMAIN channel' /\ channel'[1] = snapshot BY <1>15, <4>1
      <4> QED BY <4>2 DEF Tells
    <3>2. CASE ~BehindRetention(pump.cursor)
      <4>1. PICK e \in log.events : e.cursor = log.shown BY <1>0, <1>7, <2>1 DEF LogIsNumbered
      <4>2. e \in es BY <1>7, <2>1, <4>1 DEF After
      <4>3. PICK i \in DOMAIN list : list[i] = e
        <5> HIDE DEF es
        <5> QED BY <1>9, <4>2
      <4>4. /\ i \in DOMAIN channel' /\ channel'[i].type = "event"
            /\ channel'[i].event.cursor = log.shown
        BY <1>14, <1>15, <3>2, <4>1, <4>3
      <4> QED BY <4>4 DEF Tells
    <3> QED BY <3>1, <3>2
  <2>2. \A v : OnItsWay(v) => OnItsWay(v)' BY <1>1, <1>6, <2>1 DEF OnItsWay
  <2> QED BY <1>0, <1>1, <2>2 DEF AnswersKnown
<1>22. FirstReplayIsSilent'
  <2> SUFFICES ASSUME told.drops = 0 PROVE FirstReplayIsSilent' BY <1>1 DEF FirstReplayIsSilent
  <2>1. pump.notifies = FALSE /\ told.early = FALSE
    BY <1>0, <1>1 DEF FirstReplayIsSilent
  <2>2. ASSUME NEW j \in DOMAIN channel', channel'[j].type = "event",
               NEW i \in DOMAIN channel', i < j
        PROVE  channel'[i].type # "hello"
    <3>1. j \in DOMAIN q BY <1>15, <2>2
    <3>2. i \in DOMAIN q
      <4>1. i \in Nat /\ i > 0
        <5> HIDE DEF Messages
        <5> QED BY <1>15
      <4> QED BY <1>15, <2>2, <3>1, <4>1
    <3>3. q[i].type # "hello" BY <1>14, <3>2
    <3> QED BY <1>15, <3>2, <3>3
  <2> QED BY <1>1, <1>6, <2>1, <2>2 DEF FirstReplayIsSilent
<1> QED BY <1>16, <1>17, <1>18, <1>20, <1>21, <1>22 DEF ReplayIInv

\* The page handles the first message: an event moves its cursor, a snapshot resets it, and the
\* greeting lets it notify.
LEMMA ReceiveKeeps ==
  ASSUME ReplayAssumption, ReplayIInv, ReceiveMessage
  PROVE  ReplayIInv'
<1>0. /\ ReplayTyped /\ LogIsNumbered /\ Behind /\ InOrder /\ AnswersKnown /\ FirstReplayIsSilent
  BY DEF ReplayIInv
<1>1. /\ channel # <<>> /\ channel' = Tail(channel) /\ log' = log
  BY DEF ReceiveMessage
<1>2. PICK m : m = channel[1] OBVIOUS
<1>3. /\ channel \in Seq(Messages) /\ channel' \in Seq(Messages) /\ 1 \in DOMAIN channel
      /\ \A i \in DOMAIN channel' : /\ i \in Nat /\ i + 1 \in DOMAIN channel
                                    /\ channel'[i] = channel[i + 1] /\ 1 < i + 1 /\ i + 1 # 1
      /\ \A i \in DOMAIN channel : i # 1 => i - 1 \in DOMAIN channel' /\ channel'[i - 1] = channel[i]
  <2> HIDE DEF Messages
  <2>1. channel \in Seq(Messages) BY <1>0 DEF ReplayTyped
  <2>2. Len(channel) \in Nat /\ Len(channel) # 0 /\ DOMAIN channel = 1..Len(channel) BY <1>1, <2>1
  <2>3. channel' \in Seq(Messages) /\ Len(channel') = Len(channel) - 1 BY <1>1, <2>1, <2>2
  <2>4. DOMAIN channel' = 1..(Len(channel) - 1) BY <2>3
  <2>5. \A i \in 1..(Len(channel) - 1) : channel'[i] = channel[i + 1] BY <1>1, <2>1, <2>2
  <2> QED BY <2>1, <2>2, <2>3, <2>4, <2>5
<1>4. pump.socket = "subscribed" BY <1>0, <1>1 DEF InOrder
<1>5. /\ pump \in [cursor : Nat, notifies : BOOLEAN, retries : 0..MaxRetries,
                   socket : {"closed", "connecting", "subscribed"}]
      /\ cache \in [version : Nat, stale : BOOLEAN,
                    fetch : [state : {"idle", "asked", "answered"}, version : Nat]]
      /\ told \in [early : BOOLEAN, opened : Nat, drops : Nat]
      /\ log.last \in Nat /\ log.shown \in Nat
  BY <1>0 DEF ReplayTyped
<1>6. LogIsNumbered' BY <1>0, <1>1 DEF LogIsNumbered
<1>7. \A i \in DOMAIN channel : channel[i].type = "event" =>
        channel[i].event \in LogRow /\ channel[i].event.cursor \in Nat
  BY <1>0, MessageKinds
<1>8. m = Head(channel) BY <1>1, <1>2
\* The messages that are left are in order.
<1>9. \A i, j \in DOMAIN channel' :
        i < j /\ channel'[i].type = "event" /\ channel'[j].type = "event"
        => channel'[i].event.cursor < channel'[j].event.cursor
  <2> SUFFICES ASSUME NEW i \in DOMAIN channel', NEW j \in DOMAIN channel', i < j,
                      channel'[i].type = "event", channel'[j].type = "event"
               PROVE  channel'[i].event.cursor < channel'[j].event.cursor
    OBVIOUS
  <2>1. i + 1 \in DOMAIN channel /\ j + 1 \in DOMAIN channel /\ i + 1 < j + 1 BY <1>3
  <2>2. channel'[i] = channel[i + 1] /\ channel'[j] = channel[j + 1] BY <1>3
  <2> QED BY <1>0, <2>1, <2>2 DEF InOrder
<1>10. \A i \in DOMAIN channel' : channel'[i].type # "snapshot_required" BY <1>0, <1>3 DEF InOrder
<1>11. CASE m.type = "event" /\ OnEvent(m.event)
  <2>1. m.event \in LogRow /\ m.event.cursor \in Nat BY <1>2, <1>3, <1>7, <1>11
  <2>2. /\ pump' = [pump EXCEPT !.cursor = m.event.cursor]
        /\ cache' = IF m.event.routed THEN [cache EXCEPT !.stale = TRUE, !.fetch = NoFetch] ELSE cache
        /\ told' = [told EXCEPT !.early = @ \/ (Notifies(m.event) /\ m.event.cursor <= told.opened)]
        /\ m.event.routed \in BOOLEAN
    BY <1>11, <2>1 DEF OnEvent, Routed, Invalidated, LogRow
  <2>3. /\ pump'.cursor = m.event.cursor /\ pump'.notifies = pump.notifies
        /\ pump'.socket = pump.socket
        /\ pump' \in [cursor : Nat, notifies : BOOLEAN, retries : 0..MaxRetries,
                      socket : {"closed", "connecting", "subscribed"}]
    BY <1>5, <2>1, <2>2
  <2>4. /\ \/ m.event.routed = TRUE /\ cache'.stale = TRUE /\ cache'.fetch = NoFetch
           \/ m.event.routed = FALSE /\ cache' = cache
        /\ cache'.version = cache.version
        /\ cache' \in [version : Nat, stale : BOOLEAN,
                       fetch : [state : {"idle", "asked", "answered"}, version : Nat]]
    BY <1>5, <2>2 DEF NoFetch
  <2>5. /\ told'.opened = told.opened /\ told'.drops = told.drops
        /\ told' \in [early : BOOLEAN, opened : Nat, drops : Nat]
        /\ told'.early = TRUE => \/ told.early = TRUE
                                 \/ Notifies(m.event) /\ m.event.cursor <= told.opened
    BY <1>5, <2>1, <2>2
  <2>6. m.event.cursor <= log.last BY <1>0, <1>2, <1>3, <1>11 DEF InOrder
  <2>7. ReplayTyped' BY <1>0, <1>1, <1>3, <2>3, <2>4, <2>5 DEF ReplayTyped
  <2>8. Behind' BY <1>0, <1>1, <1>5, <2>3, <2>4, <2>5, <2>6 DEF Behind, NoFetch
  <2>9. InOrder'
    <3>1. ASSUME NEW i \in DOMAIN channel', channel'[i].type = "event"
          PROVE  /\ pump'.cursor < channel'[i].event.cursor /\ channel'[i].event.cursor <= log'.last
                 /\ channel'[i].event.cursor = log'.shown => channel'[i].event.routed = TRUE
      <4>1. /\ i + 1 \in DOMAIN channel /\ 1 < i + 1
            /\ channel[i + 1].type = "event" /\ channel[1].type = "event"
        BY <1>2, <1>3, <1>11, <3>1
      <4>2. channel[1].event.cursor < channel[i + 1].event.cursor
        BY <1>0, <1>3, <4>1 DEF InOrder
      <4>3. /\ channel[i + 1].event.cursor <= log.last
            /\ channel[i + 1].event.cursor = log.shown => channel[i + 1].event.routed = TRUE
        BY <1>0, <4>1 DEF InOrder
      <4> QED BY <1>1, <1>2, <1>3, <2>3, <4>2, <4>3
    <3> QED BY <1>4, <1>9, <1>10, <2>3, <3>1 DEF InOrder
  <2>10. AnswersKnown'
    <3>1. CASE m.event.routed = TRUE BY <2>4, <3>1 DEF AnswersKnown, NoFetch
    <3>2. CASE m.event.routed = FALSE
      <4>1. m.event.cursor # log.shown BY <1>0, <1>2, <1>3, <1>11, <3>2 DEF InOrder
      <4>2. ASSUME NEW i \in DOMAIN channel, Tells(channel[i], log.shown)
            PROVE  \E j \in DOMAIN channel' : Tells(channel'[j], log.shown)
        <5>1. i # 1 BY <1>2, <1>11, <4>1, <4>2 DEF Tells
        <5>2. i - 1 \in DOMAIN channel' /\ channel'[i - 1] = channel[i] BY <1>3, <5>1
        <5> QED BY <4>2, <5>2
      <4>3. \A v : OnItsWay(v) => OnItsWay(v)' BY <1>1, <1>4, <2>3, <4>2 DEF OnItsWay
      <4> QED BY <1>0, <2>4, <3>2, <4>3 DEF AnswersKnown
    <3> QED BY <2>4, <3>1, <3>2
  <2>11. FirstReplayIsSilent'
    <3> SUFFICES ASSUME told.drops = 0 PROVE FirstReplayIsSilent'
      BY <2>5 DEF FirstReplayIsSilent
    <3>1. told'.early = FALSE
      BY <1>0, <1>2, <1>3, <1>11, <2>5, <1>5, <2>1 DEF FirstReplayIsSilent, Notifies
    <3>2. ASSUME NEW j \in DOMAIN channel', channel'[j].type = "event",
                 pump'.notifies \/ \E i \in DOMAIN channel' : i < j /\ channel'[i].type = "hello"
          PROVE  channel'[j].event.cursor > told'.opened
      <4>1. j + 1 \in DOMAIN channel /\ channel[j + 1] = channel'[j] BY <1>3
      <4>2. ASSUME NEW i \in DOMAIN channel', i < j, channel'[i].type = "hello"
            PROVE  \E k \in DOMAIN channel : k < j + 1 /\ channel[k].type = "hello"
        <5>1. i \in Nat /\ j \in Nat BY <1>3
        <5>2. i + 1 < j + 1 BY <4>2, <5>1
        <5>3. i + 1 \in DOMAIN channel /\ channel[i + 1].type = "hello" BY <1>3, <4>2
        <5> QED BY <5>2, <5>3
      <4>3. pump.notifies \/ \E k \in DOMAIN channel : k < j + 1 /\ channel[k].type = "hello"
        BY <2>3, <3>2, <4>2
      <4> QED BY <1>0, <2>5, <3>2, <4>1, <4>3 DEF FirstReplayIsSilent
    <3> QED BY <1>4, <2>3, <3>1, <3>2 DEF FirstReplayIsSilent
  <2> QED BY <1>6, <2>7, <2>8, <2>9, <2>10, <2>11 DEF ReplayIInv
<1>12. CASE m.type = "snapshot_required" /\ OnSnapshotRequired
  <2>2. /\ pump' = [pump EXCEPT !.cursor = NoCursor, !.notifies = FALSE]
        /\ cache' = [cache EXCEPT !.stale = TRUE, !.fetch = NoFetch]
        /\ told' = told
    BY <1>12 DEF OnSnapshotRequired, Invalidated
  <2>3. /\ pump'.cursor = 0 /\ pump'.notifies = FALSE /\ pump'.socket = pump.socket
        /\ pump' \in [cursor : Nat, notifies : BOOLEAN, retries : 0..MaxRetries,
                      socket : {"closed", "connecting", "subscribed"}]
    BY <1>5, <2>2 DEF NoCursor
  <2>4. /\ cache'.stale = TRUE /\ cache'.version = cache.version /\ cache'.fetch = NoFetch
        /\ cache' \in [version : Nat, stale : BOOLEAN,
                       fetch : [state : {"idle", "asked", "answered"}, version : Nat]]
    BY <1>5, <2>2 DEF NoFetch
  <2>7. ReplayTyped' BY <1>0, <1>1, <1>3, <2>2, <2>3, <2>4 DEF ReplayTyped
  <2>8. Behind' BY <1>0, <1>1, <1>5, <2>2, <2>3, <2>4 DEF Behind, NoFetch
  <2>9. InOrder'
    <3>1. ASSUME NEW i \in DOMAIN channel', channel'[i].type = "event"
          PROVE  /\ pump'.cursor < channel'[i].event.cursor /\ channel'[i].event.cursor <= log'.last
                 /\ channel'[i].event.cursor = log'.shown => channel'[i].event.routed = TRUE
      <4>1. i + 1 \in DOMAIN channel /\ channel[i + 1].type = "event" BY <1>3, <3>1
      <4>2. /\ pump.cursor < channel[i + 1].event.cursor /\ channel[i + 1].event.cursor <= log.last
            /\ channel[i + 1].event.cursor = log.shown => channel[i + 1].event.routed = TRUE
        BY <1>0, <4>1 DEF InOrder
      <4> QED BY ONLY <1>1, <1>3, <1>5, <1>7, <2>3, <4>1, <4>2
    <3> QED BY <1>4, <1>9, <1>10, <2>3, <3>1 DEF InOrder
  <2>10. AnswersKnown' BY <2>4 DEF AnswersKnown, NoFetch
  <2>11. FirstReplayIsSilent'
    <3> SUFFICES ASSUME told.drops = 0 PROVE FirstReplayIsSilent'
      BY <2>2 DEF FirstReplayIsSilent
    <3>1. ASSUME NEW j \in DOMAIN channel', channel'[j].type = "event",
                 NEW i \in DOMAIN channel', i < j, channel'[i].type = "hello"
          PROVE  channel'[j].event.cursor > told'.opened
      <4>1. i \in Nat /\ j \in Nat BY <1>3
      <4>2. i + 1 < j + 1 BY <3>1, <4>1
      <4>3. /\ j + 1 \in DOMAIN channel /\ channel[j + 1] = channel'[j]
            /\ i + 1 \in DOMAIN channel /\ channel[i + 1].type = "hello"
        BY <1>3, <3>1
      <4> QED BY <1>0, <2>2, <3>1, <4>2, <4>3 DEF FirstReplayIsSilent
    <3> QED BY <1>0, <1>4, <2>2, <2>3, <3>1 DEF FirstReplayIsSilent
  <2> QED BY <1>6, <2>7, <2>8, <2>9, <2>10, <2>11 DEF ReplayIInv
<1>13. CASE m.type = "hello" /\ OnCaughtUp
  <2>2. pump' = [pump EXCEPT !.notifies = TRUE] /\ cache' = cache /\ told' = told
    BY <1>13 DEF OnCaughtUp
  <2>3. /\ pump'.cursor = pump.cursor /\ pump'.notifies = TRUE /\ pump'.socket = pump.socket
        /\ pump' \in [cursor : Nat, notifies : BOOLEAN, retries : 0..MaxRetries,
                      socket : {"closed", "connecting", "subscribed"}]
    BY <1>5, <2>2
  <2>7. ReplayTyped' BY <1>0, <1>1, <1>3, <2>2, <2>3 DEF ReplayTyped
  <2>8. Behind' BY <1>0, <1>1, <1>5, <2>2, <2>3 DEF Behind
  <2>9. InOrder'
    <3>1. ASSUME NEW i \in DOMAIN channel', channel'[i].type = "event"
          PROVE  /\ pump'.cursor < channel'[i].event.cursor /\ channel'[i].event.cursor <= log'.last
                 /\ channel'[i].event.cursor = log'.shown => channel'[i].event.routed = TRUE
      <4>1. i + 1 \in DOMAIN channel /\ channel[i + 1].type = "event" BY <1>3, <3>1
      <4> QED BY <1>0, <1>1, <1>3, <2>3, <4>1 DEF InOrder
    <3> QED BY <1>4, <1>9, <1>10, <2>3, <3>1 DEF InOrder
  <2>10. AnswersKnown'
    <3>1. ASSUME NEW i \in DOMAIN channel, Tells(channel[i], log.shown)
          PROVE  \E j \in DOMAIN channel' : Tells(channel'[j], log.shown)
      <4>1. i # 1 BY <1>2, <1>13, <3>1 DEF Tells
      <4>2. i - 1 \in DOMAIN channel' /\ channel'[i - 1] = channel[i] BY <1>3, <4>1
      <4> QED BY <3>1, <4>2
    <3>2. \A v : OnItsWay(v) => OnItsWay(v)' BY <1>1, <1>4, <2>3, <3>1 DEF OnItsWay
    <3> QED BY <1>0, <2>2, <3>2 DEF AnswersKnown
  <2>11. FirstReplayIsSilent'
    <3> SUFFICES ASSUME told.drops = 0 PROVE FirstReplayIsSilent'
      BY <2>2 DEF FirstReplayIsSilent
    <3>1. ASSUME NEW j \in DOMAIN channel', channel'[j].type = "event"
          PROVE  channel'[j].event.cursor > told'.opened
      <4>1. /\ j + 1 \in DOMAIN channel /\ channel[j + 1] = channel'[j]
            /\ 1 < j + 1 /\ channel[1].type = "hello"
        BY <1>2, <1>3, <1>13
      <4> QED BY <1>0, <1>3, <2>2, <3>1, <4>1 DEF FirstReplayIsSilent
    <3> QED BY <1>0, <1>4, <2>2, <2>3, <3>1 DEF FirstReplayIsSilent
  <2> QED BY <1>6, <2>7, <2>8, <2>9, <2>10, <2>11 DEF ReplayIInv
<1> QED BY <1>8, <1>11, <1>12, <1>13 DEF ReceiveMessage

\* A lost socket loses what it carried, and the next one replays it, or all is stale.
LEMMA ClosesKeeps ==
  ASSUME ReplayAssumption, ReplayIInv, SocketCloses
  PROVE  ReplayIInv'
<1>0. /\ ReplayTyped /\ LogIsNumbered /\ Behind /\ InOrder /\ AnswersKnown /\ FirstReplayIsSilent
  BY DEF ReplayIInv
<1> DEFINE again == pump.retries + 1
<1>1. /\ log' = log /\ channel' = <<>>
      /\ pump' = [pump EXCEPT !.socket = "closed",
                              !.retries = IF again > MaxRetries THEN @ ELSE again,
                              !.cursor = IF again > MaxRetries THEN NoCursor ELSE @]
      /\ cache' = IF again > MaxRetries THEN Invalidated ELSE cache
      /\ told' = [told EXCEPT !.drops = @ + 1]
  BY DEF SocketCloses
<1>2. /\ pump \in [cursor : Nat, notifies : BOOLEAN, retries : 0..MaxRetries,
                   socket : {"closed", "connecting", "subscribed"}]
      /\ cache \in [version : Nat, stale : BOOLEAN,
                    fetch : [state : {"idle", "asked", "answered"}, version : Nat]]
      /\ told \in [early : BOOLEAN, opened : Nat, drops : Nat]
      /\ log.last \in Nat
  BY <1>0 DEF ReplayTyped
<1>3. MaxRetries \in Nat /\ pump.retries \in Nat BY <1>2, RetriesBound
<1>4. /\ pump'.socket = "closed"
      /\ pump'.cursor = (IF again > MaxRetries THEN 0 ELSE pump.cursor)
      /\ pump'.retries = (IF again > MaxRetries THEN pump.retries ELSE again)
      /\ pump'.notifies = pump.notifies
      /\ pump' \in [cursor : Nat, notifies : BOOLEAN, retries : 0..MaxRetries,
                    socket : {"closed", "connecting", "subscribed"}]
  <2>1. \E c \in Nat, t \in 0..MaxRetries :
          /\ pump' = [pump EXCEPT !.socket = "closed", !.retries = t, !.cursor = c]
          /\ c = (IF again > MaxRetries THEN 0 ELSE pump.cursor)
          /\ t = (IF again > MaxRetries THEN pump.retries ELSE again)
    <3>1. pump.cursor \in Nat /\ again \in Nat BY <1>2, <1>3
    <3>2. CASE again > MaxRetries BY <1>1, <1>2, <3>1, <3>2 DEF NoCursor
    <3>3. CASE ~(again > MaxRetries)
      <4>1. again \in 0..MaxRetries BY <1>3, <3>1, <3>3
      <4> HIDE DEF again
      <4> QED BY <1>1, <1>2, <3>1, <3>3, <4>1
    <3> QED BY <3>2, <3>3
  <2> HIDE DEF again
  <2> QED BY <1>2, <2>1
<1>5. /\ told'.drops = told.drops + 1 /\ told'.drops # 0 /\ told'.opened = told.opened
      /\ told' \in [early : BOOLEAN, opened : Nat, drops : Nat]
  BY <1>1, <1>2
<1>6. /\ cache' \in [version : Nat, stale : BOOLEAN,
                     fetch : [state : {"idle", "asked", "answered"}, version : Nat]]
      /\ cache'.version = cache.version
      /\ again > MaxRetries => cache'.stale = TRUE /\ cache'.fetch = NoFetch
      /\ ~(again > MaxRetries) => cache' = cache
  BY <1>1, <1>2 DEF Invalidated, NoFetch
<1>7. ReplayTyped'
  <2>1. channel' \in Seq(Messages) BY <1>1
  <2> QED BY <1>0, <1>1, <1>4, <1>5, <1>6, <2>1 DEF ReplayTyped
<1>8. LogIsNumbered' BY <1>0, <1>1 DEF LogIsNumbered
<1>9. Behind' BY <1>0, <1>1, <1>2, <1>4, <1>5, <1>6 DEF Behind, NoFetch
<1>10. InOrder' BY <1>1 DEF InOrder
<1>11. AnswersKnown'
  <2>1. CASE again > MaxRetries BY <1>6, <2>1 DEF AnswersKnown, NoFetch
  <2>2. CASE ~(again > MaxRetries)
    <3>1. ASSUME NEW i \in DOMAIN channel, Tells(channel[i], log.shown)
          PROVE  pump.cursor < log.shown \/ log.shown = 0
      BY <1>0, <3>1 DEF InOrder, Tells
    <3>2. \A v \in Nat : OnItsWay(v) => OnItsWay(v)'
      BY <1>1, <1>4, <2>2, <3>1 DEF OnItsWay
    <3> QED BY <1>0, <1>2, <1>6, <2>2, <3>2 DEF AnswersKnown
  <2> QED BY <2>1, <2>2
<1>12. FirstReplayIsSilent' BY <1>5 DEF FirstReplayIsSilent
<1> QED BY <1>7, <1>8, <1>9, <1>10, <1>11, <1>12 DEF ReplayIInv

\* A query is fetched, is answered with the state of that moment, or fails.
LEMMA FetchKeeps ==
  ASSUME ReplayAssumption, ReplayIInv, Fetch \/ FetchReads \/ FetchAnswers \/ FetchFails
  PROVE  ReplayIInv'
<1>0. /\ ReplayTyped /\ LogIsNumbered /\ Behind /\ InOrder /\ AnswersKnown /\ FirstReplayIsSilent
  BY DEF ReplayIInv
<1>1. log' = log /\ pump' = pump /\ channel' = channel
  BY DEF Fetch, FetchReads, FetchAnswers, FetchFails
<1>2. /\ cache \in [version : Nat, stale : BOOLEAN,
                    fetch : [state : {"idle", "asked", "answered"}, version : Nat]]
      /\ told \in [early : BOOLEAN, opened : Nat, drops : Nat]
      /\ log.last \in Nat /\ log.shown \in Nat /\ log.shown <= log.last
  BY <1>0 DEF ReplayTyped, LogIsNumbered
<1>3. \A v : OnItsWay(v) => OnItsWay(v)' BY <1>1 DEF OnItsWay
<1>4. /\ cache' \in [version : Nat, stale : BOOLEAN,
                     fetch : [state : {"idle", "asked", "answered"}, version : Nat]]
      /\ cache'.version <= log.last /\ cache'.fetch.version <= log.last
      /\ AnswersKnown'
  <2>1. CASE Fetch
    <3>1. cache' = [cache EXCEPT !.fetch.state = "asked"] BY <2>1 DEF Fetch
    <3>2. /\ cache'.version = cache.version /\ cache'.fetch.version = cache.fetch.version
          /\ cache'.stale = cache.stale /\ cache'.fetch.state = "asked"
      BY <1>2, <3>1
    <3> QED BY <1>0, <1>2, <1>3, <3>1, <3>2 DEF AnswersKnown, Behind
  <2>2. CASE FetchReads
    <3>1. cache' = [cache EXCEPT !.fetch = [state |-> "answered", version |-> log.last]]
      BY <2>2 DEF FetchReads
    <3>2. /\ cache'.version = cache.version /\ cache'.fetch.version = log.last
          /\ cache'.stale = cache.stale /\ cache'.fetch.state = "answered"
      BY <1>2, <3>1
    <3>3. \A v : v = log.last => OnItsWay(v)' BY <1>1, <1>2 DEF OnItsWay
    <3> QED BY <1>0, <1>2, <1>3, <3>1, <3>2, <3>3 DEF AnswersKnown, Behind
  <2>3. CASE FetchAnswers
    <3>1. /\ cache' = [version |-> cache.fetch.version, stale |-> FALSE, fetch |-> NoFetch]
          /\ cache.fetch.state = "answered"
      BY <2>3 DEF FetchAnswers
    <3> QED BY <1>0, <1>2, <1>3, <3>1 DEF AnswersKnown, Behind, NoFetch
  <2>4. CASE FetchFails
    <3>1. cache' = [cache EXCEPT !.fetch = NoFetch] BY <2>4 DEF FetchFails
    <3>2. /\ cache'.version = cache.version /\ cache'.fetch = NoFetch
          /\ cache'.stale = cache.stale
      BY <1>2, <3>1
    <3> QED BY <1>0, <1>2, <1>3, <3>1, <3>2 DEF AnswersKnown, Behind, NoFetch
  <2> QED BY <2>1, <2>2, <2>3, <2>4
<1>5. /\ told' \in [early : BOOLEAN, opened : Nat, drops : Nat]
      /\ told'.early = told.early /\ told'.opened = told.opened
      /\ told'.drops = 0 => told.drops = 0 BY <1>2 DEF Fetch, FetchReads, FetchAnswers, FetchFails
<1>6. ReplayTyped' BY <1>0, <1>1, <1>4, <1>5 DEF ReplayTyped
<1>7. LogIsNumbered' /\ InOrder' BY <1>0, <1>1 DEF LogIsNumbered, InOrder
<1>8. Behind' BY <1>0, <1>1, <1>4, <1>5 DEF Behind
<1>9. FirstReplayIsSilent' BY <1>0, <1>1, <1>5 DEF FirstReplayIsSilent
<1> QED BY <1>4, <1>6, <1>7, <1>8, <1>9 DEF ReplayIInv

\* NothingMissed is inductive with the numbering of the log and the order of what is replayed.
LEMMA ReplayInvariant == ReplaySpec => []ReplayIInv
<1>1. ReplayInit => ReplayIInv BY ReplayStarts, ReplayAssumption
<1>2. ReplayIInv /\ [ReplayNext]_replayVars => ReplayIInv'
  <2> SUFFICES ASSUME ReplayIInv, [ReplayNext]_replayVars PROVE ReplayIInv' OBVIOUS
  <2> USE ReplayAssumption
  <2>1. CASE \E b \in Topics : BotIsDeleted(b)
    <3>1. PICK b \in Topics : BotIsDeleted(b) BY <2>1
    <3>2. {e \in log.events : e.bot # b} \in SUBSET log.events OBVIOUS
    <3>3. AppendEvent(NoTopic, FALSE, TRUE, {e \in log.events : e.bot # b}) BY <3>1 DEF BotIsDeleted
    <3>4. NoTopic \in Topics \cup {NoTopic} /\ FALSE \in BOOLEAN /\ TRUE \in BOOLEAN OBVIOUS
    <3> QED BY <3>2, <3>3, <3>4, AppendKeeps
  <2>2. CASE \E b \in Topics : \E completed, routed \in BOOLEAN : Change(b, completed, routed)
    <3>1. PICK b \in Topics, completed \in BOOLEAN, routed \in BOOLEAN : Change(b, completed, routed)
      BY <2>2
    <3>2. AppendEvent(b, completed, routed, log.events) BY <3>1 DEF Change
    <3>3. b \in Topics \cup {NoTopic} /\ log.events \in SUBSET log.events OBVIOUS
    <3> QED BY <3>2, <3>3, AppendKeeps
  <2>3. CASE Connect BY <2>3, ConnectKeeps
  <2>4. CASE Hello BY <2>4, HelloKeeps
  <2>5. CASE ReceiveMessage BY <2>5, ReceiveKeeps
  <2>6. CASE SocketCloses BY <2>6, ClosesKeeps
  <2>7. CASE Fetch \/ FetchReads \/ FetchAnswers \/ FetchFails BY <2>7, FetchKeeps
  <2>8. CASE UNCHANGED replayVars
    <3>1. log' = log /\ pump' = pump /\ channel' = channel /\ cache' = cache /\ told' = told
      BY <2>8 DEF replayVars
    <3>2. ReplayTyped' /\ LogIsNumbered' /\ Behind' /\ InOrder' /\ FirstReplayIsSilent'
      BY <3>1 DEF ReplayIInv, ReplayTyped, LogIsNumbered, Behind, InOrder, FirstReplayIsSilent
    <3>3. \A v : OnItsWay(v) => OnItsWay(v)' BY <3>1 DEF OnItsWay
    <3>4. AnswersKnown' BY <3>1, <3>3 DEF ReplayIInv, AnswersKnown
    <3> QED BY <3>2, <3>4 DEF ReplayIInv
  <2> QED BY <2>1, <2>2, <2>3, <2>4, <2>5, <2>6, <2>7, <2>8 DEF ReplayNext
<1> QED BY <1>1, <1>2, PTL DEF ReplaySpec

\* For any number of changes, deletions, lost sockets and failed fetches: a change whose event is
\* routed and that the page does not show reaches it without a poll, and the first replay of a page
\* notifies nothing of what happened before it was opened.
THEOREM NothingIsMissed == ReplaySpec => []NothingMissed
<1>1. ReplayIInv => NothingMissed
  <2> SUFFICES ASSUME ReplayIInv PROVE NothingMissed OBVIOUS
  <2>0. /\ ReplayTyped /\ LogIsNumbered /\ Behind /\ InOrder /\ AnswersKnown /\ FirstReplayIsSilent
    BY DEF ReplayIInv
  <2>1. /\ pump \in [cursor : Nat, notifies : BOOLEAN, retries : 0..MaxRetries,
                     socket : {"closed", "connecting", "subscribed"}]
        /\ cache \in [version : Nat, stale : BOOLEAN,
                      fetch : [state : {"idle", "asked", "answered"}, version : Nat]]
        /\ log.last \in Nat /\ log.shown \in Nat /\ log.events \subseteq LogRow
    BY <2>0 DEF ReplayTyped
  <2>2. ReplayTypeOK BY <2>0, <2>1 DEF ReplayTypeOK, Behind
  <2>3. HistoryIsSilent BY <2>0 DEF HistoryIsSilent, FirstReplayIsSilent
  <2>4. pump.cursor < log.shown =>
          \E e \in After(pump.cursor) : e.cursor = log.shown /\ e.routed
    <3> SUFFICES ASSUME pump.cursor < log.shown
                 PROVE  \E e \in After(pump.cursor) : e.cursor = log.shown /\ e.routed
      OBVIOUS
    <3>1. PICK e \in log.events : e.cursor = log.shown /\ e.routed = TRUE
      BY <2>0, <2>1 DEF LogIsNumbered
    <3>2. e \in After(pump.cursor) BY <2>1, <3>1 DEF After
    <3> QED BY <3>1, <3>2
  <2>5. cache.stale = TRUE \/ OnItsWay(cache.version) BY <2>0, <2>1 DEF AnswersKnown
  <2> QED BY <2>1, <2>2, <2>3, <2>4, <2>5 DEF NothingMissed, OnItsWay, Tells
<1> QED BY <1>1, ReplayInvariant, PTL

-----------------------------------------------------------------------------
(* Web Control of a Screen: a connection c of the page, the daemon's session t, what is under  *)
(* way from the page u, and what is under way to it d.                                          *)

Whats == {"motion", "press", "release", "keydown", "keyup", "release-control"}
UpMessages == [type : {"view"}, mode : ViewModes]
                \cup [type : {"input"}, epoch : Nat, seq : Nat, what : Whats, fits : {TRUE}]
DownMessages == [type : {"view-state"}, mode : ViewModes]
                  \cup [type : {"authority"}, active : BOOLEAN, epoch : Nat]
                  \cup [type : {"failure", "closed"}]
Panels == [expanded : BOOLEAN, window : {"focused", "blurred", "hidden"}, attempt : Nat, bound : Nat,
           retries : Nat, key : BOOLEAN, moves : Nat]
Connections ==
  [phase : {"fetching", "opening", "open", "failed"}, desired : ViewModes, ack : ViewModes,
   rfb : {"none", "connecting", "connected"}, ready : BOOLEAN, authority : Nat, offered : Nat,
   seq : Nat, releasing : Nat, resume : BOOLEAN, held : BOOLEAN, first : BOOLEAN, framed : BOOLEAN,
   shown : {"connecting", "preview", "expanded", "snapshot"}]
Sessions == [open : BOOLEAN, mode : ViewModes, epoch : Nat, active : BOOLEAN, next : Nat,
             held : SUBSET Buttons, last : Nat]

LinkTyped(c, t, u, d) ==
  c \in Connections /\ t \in Sessions /\ u \in Seq(UpMessages) /\ d \in Seq(DownMessages)

\* The component and its connection want the same mode.
PanelFits(p, c) == p.bound <= p.attempt /\ (p.expanded = TRUE <=> c.desired = "expanded")

\* The two ends of the socket.
LinkFits(c, t, u, d) ==
  /\ c.desired # "idle"
  /\ c.phase # "open" => /\ u = <<>> /\ d = <<>> /\ t.open = FALSE
                         /\ c.authority = 0 /\ c.offered = 0 /\ c.releasing = 0
  /\ c.phase = "open" /\ t.open = FALSE => \E i \in DOMAIN d : d[i].type = "closed"
  /\ c.phase = "failed" => c.shown # "connecting"
  /\ c.authority # 0 => c.desired = "expanded"
  /\ c.resume = TRUE => c.releasing # 0

\* The daemon's session: control is of an expanded session that is open.
SessionFits(t) ==
  /\ t.epoch \in {0, t.last}
  /\ t.epoch # 0 => t.open = TRUE /\ t.mode = "expanded"
  /\ t.active = TRUE => t.epoch # 0
  /\ t.epoch # 0 /\ t.active = FALSE => t.next = 1
  /\ t.held # {} => t.active = TRUE

Input(u, i, e) == u[i].type = "input" /\ u[i].epoch = e
Says(u, i, e, what) == Input(u, i, e) /\ u[i].what = what
Grants(d, i, e) == d[i].type = "authority" /\ d[i].epoch = e /\ d[i].active = TRUE
Withdraws(d, i, e) == d[i].type = "authority" /\ d[i].epoch = e /\ d[i].active = FALSE
IsOver(d) == \E i \in DOMAIN d : d[i].type \in {"failure", "closed"}
GivesUp(u, e) == \E i \in DOMAIN u : Says(u, i, e, "release-control")
Leaves(u) == \E i \in DOMAIN u : u[i].type = "view" /\ u[i].mode # "expanded"

\* Controls are granted and ended in the order of their epochs, after those the page knows.
EpochsInOrder(c, t, u, d) ==
  /\ c.authority <= c.offered /\ c.offered <= t.last /\ c.releasing <= t.last
  /\ \A i \in DOMAIN u : u[i].type = "input" => u[i].epoch > 0 /\ u[i].epoch <= t.last
  /\ \A i \in DOMAIN d : d[i].type = "authority" =>
       /\ d[i].epoch > 0 /\ d[i].epoch <= t.last
       /\ \A k \in {c.authority, c.offered, c.releasing} :
            k <= d[i].epoch /\ (d[i].active = TRUE => k < d[i].epoch)
  /\ \A i, j \in DOMAIN d : i < j /\ d[i].type = "authority" /\ d[j].type = "authority" =>
       /\ d[i].epoch <= d[j].epoch
       /\ d[i].epoch = d[j].epoch => d[i].active = TRUE /\ d[j].active = FALSE

\* Of control e the page is told, or will be told, that it ends, or the daemon grants it still.
Backed(t, d, e) ==
  \/ t.active = TRUE /\ t.epoch = e
  \/ \E i \in DOMAIN d : Withdraws(d, i, e)
  \/ IsOver(d)

KnownAreBacked(c, t, u, d) ==
  /\ c.authority # 0 => Backed(t, d, c.authority)
  /\ c.offered # 0 => Backed(t, d, c.offered)
  /\ \A i \in DOMAIN d : d[i].type = "authority" /\ d[i].active = TRUE => Backed(t, d, d[i].epoch)
  /\ c.releasing # 0 => GivesUp(u, c.releasing) \/ IsOver(d) \/ \E i \in DOMAIN d : Withdraws(d, i, c.releasing)

\* Of a control that the daemon has not ended nobody says so; of one it has not granted yet nobody
\* knows; one that the page has not taken up was not used.
Unknown(c, u, e) ==
  /\ c.authority # e /\ c.offered # e /\ c.releasing # e
  /\ \A i \in DOMAIN u : ~Input(u, i, e)
GrantsAreNews(c, t, u, d) ==
  t.epoch # 0 =>
    /\ \A i \in DOMAIN d : ~Withdraws(d, i, t.epoch)
    /\ t.active = FALSE => Unknown(c, u, t.epoch) /\ \A i \in DOMAIN d : ~Grants(d, i, t.epoch)

\* The inputs under epoch e that are ahead of message i.
Ahead(u, i, e) == {j \in 1..(i - 1) : Input(u, j, e)}

SequenceFits(c, t, u, d) ==
  t.active = TRUE =>
    /\ \A i \in DOMAIN u : Input(u, i, t.epoch) =>
         \/ \E j \in 1..(i - 1) : Says(u, j, t.epoch, "release-control")
         \/ u[i].seq = t.next + Cardinality(Ahead(u, i, t.epoch))
    /\ \/ GivesUp(u, t.epoch)
       \/ /\ c.authority = t.epoch =>
               c.seq + 1 = t.next + Cardinality(Ahead(u, Len(u) + 1, t.epoch))
          /\ \/ c.offered = t.epoch /\ c.authority # t.epoch
             \/ \E i \in DOMAIN d : Grants(d, i, t.epoch)
             => t.next = 1 /\ \A i \in DOMAIN u : ~Input(u, i, t.epoch)

\* What lets go of a button that the daemon holds, or is about to hold with message i.
LetsGo(c, t, u, d, i) ==
  \/ c.authority = t.epoch /\ c.held = TRUE
  \/ GivesUp(u, t.epoch) \/ Leaves(u) \/ IsOver(d)
  \/ \E j \in DOMAIN u : i < j /\ Says(u, j, t.epoch, "release")
ButtonsFit(c, t, u, d) ==
  t.active = TRUE =>
    /\ "button" \in t.held => LetsGo(c, t, u, d, 0)
    /\ \A i \in DOMAIN u : Says(u, i, t.epoch, "press") => LetsGo(c, t, u, d, i)

\* The mode that the page wants is asked for or answered.
IsAsked(c, u, d) ==
  \/ \E i \in DOMAIN u : u[i].type = "view" /\ u[i].mode = c.desired
  \/ \E i \in DOMAIN d : d[i].type = "view-state" /\ d[i].mode = c.desired
  \/ IsOver(d)
Suspended(p) == p.window = "hidden" /\ p.expanded = TRUE /\ p.bound = p.attempt
WaitEnds(p, c, u, d) ==
  c.shown = "connecting" /\ c.phase = "open" =>
    \/ IsAsked(c, u, d)
    \/ c.ready = FALSE /\ (Suspended(p) \/ c.resume = TRUE \/ (c.first = TRUE /\ c.desired = "expanded"))

\* What is settled between the two ends, whatever the component shows.
LinkIInv(c, t, u, d) ==
  /\ LinkTyped(c, t, u, d) /\ LinkFits(c, t, u, d) /\ SessionFits(t)
  /\ EpochsInOrder(c, t, u, d) /\ KnownAreBacked(c, t, u, d) /\ GrantsAreNews(c, t, u, d)
  /\ SequenceFits(c, t, u, d) /\ ButtonsFit(c, t, u, d)

WebIInv ==
  /\ panel \in Panels /\ PanelFits(panel, conn)
  /\ LinkIInv(conn, session, up, down) /\ WaitEnds(panel, conn, up, down)

\* Message m is sent after what is under way.
Sent(u, v, m) == v = Append(u, m)

\* A list with one more member.
LEMMA OneMore ==
  ASSUME NEW S, NEW q \in Seq(S), NEW m \in S, NEW v, Sent(q, v, m)
  PROVE  /\ v \in Seq(S) /\ Len(q) \in Nat /\ Len(v) = Len(q) + 1
         /\ DOMAIN q = 1..Len(q) /\ DOMAIN v = 1..(Len(q) + 1)
         /\ \A i \in DOMAIN q : i \in DOMAIN v /\ v[i] = q[i] /\ i <= Len(q) /\ i \in Nat /\ i > 0
         /\ \A i \in DOMAIN v : i \in DOMAIN q \/ i = Len(q) + 1
         /\ Len(q) + 1 \in DOMAIN v /\ v[Len(q) + 1] = m
<1>0. v = Append(q, m) BY DEF Sent
<1>1. v \in Seq(S) /\ Len(v) = Len(q) + 1 BY <1>0
<1>2. Len(q) \in Nat /\ DOMAIN q = 1..Len(q) OBVIOUS
<1>3. DOMAIN v = 1..(Len(q) + 1) BY <1>1
<1>4. \A i \in 1..Len(q) : v[i] = q[i] BY <1>0
<1>5. v[Len(q) + 1] = m BY <1>0
<1> QED BY <1>1, <1>2, <1>3, <1>4, <1>5

\* A list without its first member.
LEMMA OneLess ==
  ASSUME NEW S, NEW q \in Seq(S), q # <<>>, NEW v, v = Tail(q)
  PROVE  /\ v \in Seq(S) /\ Len(v) \in Nat /\ Len(q) = Len(v) + 1
         /\ DOMAIN q = 1..Len(q) /\ DOMAIN v = 1..Len(v) /\ 1 \in DOMAIN q /\ q[1] = Head(q)
         /\ \A i \in DOMAIN v : /\ i \in Nat /\ i > 0 /\ i + 1 \in DOMAIN q /\ i + 1 # 1
                                /\ v[i] = q[i + 1]
         /\ \A i \in DOMAIN q : /\ i \in Nat /\ i > 0
                                /\ i # 1 => i - 1 \in DOMAIN v /\ v[i - 1] = q[i]
<1>1. Len(q) \in Nat /\ Len(q) # 0 /\ DOMAIN q = 1..Len(q) OBVIOUS
<1>2. v \in Seq(S) /\ Len(v) = Len(q) - 1 BY <1>1
<1>3. DOMAIN v = 1..(Len(q) - 1) BY <1>2
<1>4. \A i \in 1..(Len(q) - 1) : v[i] = q[i + 1] BY <1>1
<1>5. q[1] = Head(q) BY <1>1
<1> QED BY <1>1, <1>2, <1>3, <1>4, <1>5

\* What is said on a list that is one longer.
LEMMA SaysMore ==
  ASSUME NEW u \in Seq(UpMessages), NEW m \in UpMessages, NEW v, Sent(u, v, m)
  PROVE  /\ \A e : \A i \in DOMAIN u : Input(v, i, e) <=> Input(u, i, e)
         /\ \A e, w : \A i \in DOMAIN u : Says(v, i, e, w) <=> Says(u, i, e, w)
         /\ \A e : GivesUp(u, e) => GivesUp(v, e)
         /\ \A e : m.type = "input" /\ m.epoch = e /\ m.what = "release-control" => GivesUp(v, e)
         /\ Leaves(u) \/ (m.type = "view" /\ m.mode # "expanded") => Leaves(v)
<1> HIDE DEF UpMessages
<1>1. /\ \A i \in DOMAIN u : i \in DOMAIN v /\ v[i] = u[i]
      /\ Len(u) + 1 \in DOMAIN v /\ v[Len(u) + 1] = m
  BY OneMore
<1>2. \A e : \A i \in DOMAIN u : Input(v, i, e) <=> Input(u, i, e) BY <1>1 DEF Input
<1>3. \A e, w : \A i \in DOMAIN u : Says(v, i, e, w) <=> Says(u, i, e, w) BY <1>1, <1>2 DEF Says
<1>4. \A e : GivesUp(u, e) => GivesUp(v, e) BY <1>1, <1>3 DEF GivesUp
<1>5. \A e : m.type = "input" /\ m.epoch = e /\ m.what = "release-control" => GivesUp(v, e)
  BY <1>1 DEF GivesUp, Says, Input
<1>6. Leaves(u) \/ (m.type = "view" /\ m.mode # "expanded") => Leaves(v) BY <1>1 DEF Leaves
<1> QED BY <1>2, <1>3, <1>4, <1>5, <1>6

\* The inputs ahead of a message are finitely many.
LEMMA AheadFinite ==
  ASSUME NEW u, NEW i \in Nat, NEW e
  PROVE  IsFiniteSet(Ahead(u, i, e)) /\ Cardinality(Ahead(u, i, e)) \in Nat
<1>1. i - 1 \in Int /\ 1 \in Int OBVIOUS
<1>2. IsFiniteSet(1..(i - 1)) BY <1>1, FS_Interval
<1>3. Ahead(u, i, e) \in SUBSET (1..(i - 1)) BY DEF Ahead
<1> QED BY <1>2, <1>3, FS_Subset, FS_CardinalityType

\* No input is ahead where none is said.
LEMMA AheadNone ==
  ASSUME NEW u, NEW i, NEW e, \A j \in 1..(i - 1) : ~Input(u, j, e)
  PROVE  Cardinality(Ahead(u, i, e)) = 0
<1>1. Ahead(u, i, e) = {} BY DEF Ahead
<1> QED BY <1>1, FS_EmptySet

\* One more message is ahead of those that follow it only.
LEMMA AheadMore ==
  ASSUME NEW u \in Seq(UpMessages), NEW m \in UpMessages, NEW v, Sent(u, v, m), NEW e
  PROVE  /\ \A i \in 1..(Len(u) + 1) : Ahead(v, i, e) = Ahead(u, i, e)
         /\ m.type = "input" /\ m.epoch = e =>
              Cardinality(Ahead(v, Len(v) + 1, e)) = Cardinality(Ahead(u, Len(u) + 1, e)) + 1
         /\ ~(m.type = "input" /\ m.epoch = e) =>
              Cardinality(Ahead(v, Len(v) + 1, e)) = Cardinality(Ahead(u, Len(u) + 1, e))
<1> HIDE DEF UpMessages
<1>1. /\ Len(u) \in Nat /\ Len(v) = Len(u) + 1 /\ DOMAIN u = 1..Len(u)
      /\ v[Len(u) + 1] = m
  BY OneMore
<1>2. \A j \in 1..Len(u) : Input(v, j, e) <=> Input(u, j, e) BY <1>1, SaysMore
<1>3. ASSUME NEW i \in 1..(Len(u) + 1) PROVE Ahead(v, i, e) = Ahead(u, i, e)
  <2>1. \A j \in 1..(i - 1) : j \in 1..Len(u) BY <1>1
  <2> QED BY <1>2, <2>1 DEF Ahead
<1>4. Len(u) + 1 \in 1..(Len(u) + 1) BY <1>1
<1>5. Ahead(v, Len(u) + 1, e) = Ahead(u, Len(u) + 1, e) BY <1>3, <1>4
<1>6. Input(v, Len(u) + 1, e) <=> m.type = "input" /\ m.epoch = e BY <1>1 DEF Input
<1>7. 1..(Len(v) + 1 - 1) = 1..(Len(u) + 1 - 1) \cup {Len(u) + 1} BY <1>1
<1>8. CASE Input(v, Len(u) + 1, e)
  <2>1. Ahead(v, Len(v) + 1, e) = Ahead(v, Len(u) + 1, e) \cup {Len(u) + 1}
    BY <1>7, <1>8 DEF Ahead
  <2>2. Len(u) + 1 \notin Ahead(v, Len(u) + 1, e) BY <1>1 DEF Ahead
  <2>3. IsFiniteSet(Ahead(v, Len(u) + 1, e)) BY <1>1, AheadFinite
  <2> QED BY <1>3, <1>5, <1>6, <1>8, <2>1, <2>2, <2>3, FS_AddElement
<1>9. CASE ~Input(v, Len(u) + 1, e)
  <2>1. Ahead(v, Len(v) + 1, e) = Ahead(v, Len(u) + 1, e) BY <1>7, <1>9 DEF Ahead
  <2> QED BY <1>3, <1>5, <1>6, <1>9, <2>1
<1> QED BY <1>8, <1>9

\* Without the first message those ahead of the rest are as many, or one less.
LEMMA AheadLess ==
  ASSUME NEW u \in Seq(UpMessages), u # <<>>, NEW v, v = Tail(u), NEW e,
         NEW i \in 1..(Len(v) + 1)
  PROVE  /\ Input(u, 1, e) => Cardinality(Ahead(u, i + 1, e)) = Cardinality(Ahead(v, i, e)) + 1
         /\ ~Input(u, 1, e) => Cardinality(Ahead(u, i + 1, e)) = Cardinality(Ahead(v, i, e))
<1> HIDE DEF UpMessages
<1>1. /\ Len(v) \in Nat /\ DOMAIN v = 1..Len(v)
      /\ \A j \in DOMAIN v : v[j] = u[j + 1]
  BY OneLess
<1>2. i \in Nat /\ i <= Len(v) + 1 /\ i > 0 BY <1>1
<1> DEFINE A == Ahead(v, i, e)
           B == {j \in 2..i : Input(u, j, e)}
           f == [j \in A |-> j + 1]
<1>3. \A j \in 1..(i - 1) : j \in Nat /\ j \in DOMAIN v /\ (Input(v, j, e) <=> Input(u, j + 1, e))
  BY <1>1, <1>2 DEF Input
<1>4. f \in Bijection(A, B)
  <2>1. \A j \in A : j \in 1..(i - 1) /\ j + 1 \in B BY <1>2, <1>3 DEF Ahead
  <2>2. f \in [A -> B] BY <2>1
  <2>3. \A j, k \in A : f[j] = f[k] => j = k BY <1>3, <2>1
  <2>4. ASSUME NEW k \in B PROVE \E j \in A : f[j] = k
    <3>1. k \in 2..i /\ Input(u, k, e) OBVIOUS
    <3>2. k - 1 \in 1..(i - 1) /\ (k - 1) + 1 = k BY <1>2, <3>1
    <3>3. k - 1 \in A BY <1>3, <3>1, <3>2 DEF Ahead
    <3> QED BY <3>2, <3>3
  <2> HIDE DEF A, B
  <2> QED BY <2>2, <2>3, <2>4 DEF Bijection, Injection, IsInjective, Surjection
<1>5. IsFiniteSet(A) BY <1>2, AheadFinite
<1>6. IsFiniteSet(B) /\ Cardinality(B) = Cardinality(A) /\ Cardinality(A) \in Nat
  <2> HIDE DEF A, B, f
  <2> QED BY <1>4, <1>5, FS_Bijection, FS_CardinalityType DEF ExistsBijection
<1>7. 1..(i + 1 - 1) = {1} \cup 2..i BY <1>2
<1>8. CASE Input(u, 1, e)
  <2>1. Ahead(u, i + 1, e) = B \cup {1} BY <1>7, <1>8 DEF Ahead
  <2>2. 1 \notin B OBVIOUS
  <2> HIDE DEF B
  <2> QED BY <1>6, <1>8, <2>1, <2>2, FS_AddElement
<1>9. CASE ~Input(u, 1, e)
  <2>1. Ahead(u, i + 1, e) = B BY <1>7, <1>9 DEF Ahead
  <2> QED BY <1>6, <1>9, <2>1
<1> QED BY <1>8, <1>9

\* No control is held, offered or given up.
NoControl(c) == c.authority = 0 /\ c.offered = 0 /\ c.releasing = 0 /\ c.resume = FALSE

\* A connection and a session that have just begun.
LEMMA FreshFits ==
  ASSUME NEW c \in Connections, NEW t \in Sessions, NEW u, u = <<>>, NEW d \in Seq(DownMessages),
         c.desired # "idle", NoControl(c),
         t.epoch = 0, t.active = FALSE, t.held = {}, c.phase = "failed" => c.shown # "connecting",
         \/ t.open = FALSE /\ c.phase # "open" /\ d = <<>>
         \/ t.open = TRUE /\ c.phase = "open",
         \A i \in DOMAIN d : d[i].type = "view-state"
  PROVE  LinkIInv(c, t, u, d)
<1>1. LinkTyped(c, t, u, d) BY DEF LinkTyped
<1>2. DOMAIN u = {} OBVIOUS
<1>3. c.authority \in Nat /\ t.last \in Nat BY DEF Connections, Sessions
<1>4. LinkFits(c, t, u, d) BY DEF LinkFits, NoControl
<1>5. SessionFits(t) BY DEF SessionFits
<1>6. EpochsInOrder(c, t, u, d) BY <1>2, <1>3 DEF EpochsInOrder, NoControl
<1>7. KnownAreBacked(c, t, u, d) BY <1>2, <1>3 DEF KnownAreBacked, NoControl
<1>8. GrantsAreNews(c, t, u, d) BY DEF GrantsAreNews
<1>9. SequenceFits(c, t, u, d) /\ ButtonsFit(c, t, u, d) BY DEF SequenceFits, ButtonsFit
<1> QED BY <1>1, <1>4, <1>5, <1>6, <1>7, <1>8, <1>9 DEF LinkIInv

\* Only what concerns control and the mode matters of a connection.
LEMMA SameControl ==
  ASSUME NEW c, NEW t, NEW u, NEW d, LinkIInv(c, t, u, d), NEW c2 \in Connections,
         c2.phase = c.phase, c2.desired = c.desired, c2.authority = c.authority,
         c2.offered = c.offered, c2.seq = c.seq, c2.releasing = c.releasing, c2.held = c.held,
         c2.resume = TRUE => c.releasing # 0, c2.phase = "failed" => c2.shown # "connecting"
  PROVE  LinkIInv(c2, t, u, d)
<1>1. LinkTyped(c2, t, u, d) BY DEF LinkIInv, LinkTyped
<1>2. LinkFits(c2, t, u, d) BY DEF LinkIInv, LinkFits
<1>3. EpochsInOrder(c2, t, u, d) BY DEF LinkIInv, EpochsInOrder
<1>4. KnownAreBacked(c2, t, u, d) BY DEF LinkIInv, KnownAreBacked
<1>5. GrantsAreNews(c2, t, u, d) BY DEF LinkIInv, GrantsAreNews, Unknown
<1>6. SequenceFits(c2, t, u, d) BY DEF LinkIInv, SequenceFits
<1>7. ButtonsFit(c2, t, u, d) BY DEF LinkIInv, ButtonsFit, LetsGo
<1> QED BY <1>1, <1>2, <1>3, <1>4, <1>5, <1>6, <1>7 DEF LinkIInv

\* What the typing of a link says.
LEMMA LinkTypes ==
  ASSUME NEW c, NEW t, NEW u, NEW d, LinkTyped(c, t, u, d)
  PROVE  /\ c.authority \in Nat /\ c.offered \in Nat /\ c.releasing \in Nat /\ c.seq \in Nat
         /\ t.epoch \in Nat /\ t.last \in Nat /\ t.next \in Nat
         /\ \A i \in DOMAIN u : u[i] \in UpMessages
         /\ \A i \in DOMAIN d : d[i] \in DownMessages
         /\ \A i \in DOMAIN u : u[i].type = "input" =>
              u[i].epoch \in Nat /\ u[i].seq \in Nat /\ u[i].fits = TRUE
         /\ \A i \in DOMAIN d : d[i].type = "authority" => d[i].epoch \in Nat /\ d[i].active \in BOOLEAN
<1>1. c \in Connections /\ t \in Sessions BY DEF LinkTyped
<1>2. /\ c.authority \in Nat /\ c.offered \in Nat /\ c.releasing \in Nat /\ c.seq \in Nat
      /\ t.epoch \in Nat /\ t.last \in Nat /\ t.next \in Nat
  BY <1>1 DEF Connections, Sessions
<1>3. \A i \in DOMAIN u : u[i] \in UpMessages
  <2> HIDE DEF UpMessages
  <2>1. u \in Seq(UpMessages) BY DEF LinkTyped
  <2> QED BY <2>1
<1>4. \A i \in DOMAIN d : d[i] \in DownMessages
  <2> HIDE DEF DownMessages
  <2>1. d \in Seq(DownMessages) BY DEF LinkTyped
  <2> QED BY <2>1
<1>5. \A m \in UpMessages : m.type = "input" => m.epoch \in Nat /\ m.seq \in Nat /\ m.fits = TRUE
  BY DEF UpMessages
<1>6. \A m \in DownMessages : m.type = "authority" => m.epoch \in Nat /\ m.active \in BOOLEAN
  BY DEF DownMessages
<1> QED BY <1>2, <1>3, <1>4, <1>5, <1>6

\* Asking for a mode, after which the page may have given up its control without a word.
LEMMA ModeAskedFits ==
  ASSUME NEW c, NEW t, NEW u, NEW d, LinkIInv(c, t, u, d), c.phase = "open",
         NEW mode \in ViewModes, NEW v, Sent(u, v, ViewMessage(mode)),
         NEW c2 \in Connections, c2.phase = "open", c2.desired # "idle",
         \/ c2.desired = c.desired /\ c2.authority = c.authority /\ c2.offered = c.offered
            /\ c2.seq = c.seq /\ c2.releasing = c.releasing /\ c2.held = c.held
            /\ (c2.resume = TRUE => c.releasing # 0)
         \/ NoControl(c2) /\ (mode # "expanded" \/ c.authority = 0)
  PROVE  LinkIInv(c2, t, v, d)
<1> DEFINE m == ViewMessage(mode)
<1>0. /\ LinkTyped(c, t, u, d) /\ LinkFits(c, t, u, d) /\ SessionFits(t)
      /\ EpochsInOrder(c, t, u, d) /\ KnownAreBacked(c, t, u, d) /\ GrantsAreNews(c, t, u, d)
      /\ SequenceFits(c, t, u, d) /\ ButtonsFit(c, t, u, d)
  BY DEF LinkIInv
<1>1. m \in UpMessages /\ m.type = "view" /\ m.mode = mode BY DEF UpMessages, ViewMessage
<1> HIDE DEF m
<1>2. u \in Seq(UpMessages) /\ Sent(u, v, m) BY <1>0 DEF LinkTyped, m
<1>3. /\ v \in Seq(UpMessages) /\ Len(u) \in Nat /\ Len(v) = Len(u) + 1
      /\ DOMAIN u = 1..Len(u) /\ DOMAIN v = 1..(Len(u) + 1)
      /\ \A i \in DOMAIN u : i \in DOMAIN v /\ v[i] = u[i] /\ i <= Len(u) /\ i \in Nat /\ i > 0
      /\ \A i \in DOMAIN v : i \in DOMAIN u \/ i = Len(u) + 1
      /\ v[Len(u) + 1] = m
  <2> HIDE DEF UpMessages
  <2> QED BY <1>1, <1>2, OneMore
<1>4. /\ \A e : \A i \in DOMAIN u : Input(v, i, e) <=> Input(u, i, e)
      /\ \A e, w : \A i \in DOMAIN u : Says(v, i, e, w) <=> Says(u, i, e, w)
      /\ \A e : GivesUp(u, e) => GivesUp(v, e)
      /\ Leaves(u) \/ mode # "expanded" => Leaves(v)
  BY <1>1, <1>2, SaysMore
<1>5. \A e : ~Input(v, Len(u) + 1, e) BY <1>1, <1>3 DEF Input
<1>6. \A e : \A i \in DOMAIN v : Input(v, i, e) => i \in DOMAIN u /\ Input(u, i, e) BY <1>3, <1>4, <1>5
<1>7. \A e, w : \A i \in DOMAIN v : Says(v, i, e, w) => i \in DOMAIN u /\ Says(u, i, e, w)
  BY <1>4, <1>6 DEF Says
<1>8. ASSUME NEW e
      PROVE  /\ \A i \in DOMAIN u : Ahead(v, i, e) = Ahead(u, i, e)
             /\ Cardinality(Ahead(v, Len(v) + 1, e)) = Cardinality(Ahead(u, Len(u) + 1, e))
  <2>1. \A i \in DOMAIN u : i \in 1..(Len(u) + 1) BY <1>3
  <2>2. m \in UpMessages /\ ~(m.type = "input" /\ m.epoch = e) BY <1>1
  <2> HIDE DEF UpMessages
  <2> QED BY <1>2, <2>1, <2>2, AheadMore
<1>9. c.authority \in Nat /\ c.offered \in Nat /\ c.releasing \in Nat /\ t.last \in Nat /\ t.epoch \in Nat
      /\ \A i \in DOMAIN d : d[i].type = "authority" => d[i].epoch \in Nat
  BY <1>0, LinkTypes
<1>10. LinkTyped(c2, t, v, d) BY <1>0, <1>3 DEF LinkTyped
<1>11. LinkFits(c2, t, v, d) BY <1>0 DEF LinkFits, NoControl
<1>12. EpochsInOrder(c2, t, v, d)
  <2>1. \A i \in DOMAIN v : v[i].type = "input" => v[i].epoch > 0 /\ v[i].epoch <= t.last
    BY <1>0, <1>1, <1>3 DEF EpochsInOrder
  <2>2. c2.authority <= c2.offered /\ c2.offered <= t.last /\ c2.releasing <= t.last
    BY <1>0, <1>9 DEF EpochsInOrder, NoControl
  <2>3. ASSUME NEW i \in DOMAIN d, d[i].type = "authority"
        PROVE  /\ d[i].epoch > 0 /\ d[i].epoch <= t.last
               /\ \A k \in {c2.authority, c2.offered, c2.releasing} :
                    k <= d[i].epoch /\ (d[i].active = TRUE => k < d[i].epoch)
    BY <1>0, <1>9, <2>3 DEF EpochsInOrder, NoControl
  <2> QED BY <1>0, <2>1, <2>2, <2>3 DEF EpochsInOrder
<1>13. KnownAreBacked(c2, t, v, d) BY <1>0, <1>4 DEF KnownAreBacked, NoControl
<1>14. GrantsAreNews(c2, t, v, d) BY <1>0, <1>6 DEF GrantsAreNews, Unknown, NoControl
<1>15. SequenceFits(c2, t, v, d)
  <2> SUFFICES ASSUME t.active = TRUE PROVE SequenceFits(c2, t, v, d) BY DEF SequenceFits
  <2>1. t.epoch # 0 BY <1>0 DEF SessionFits
  <2>2. ASSUME NEW i \in DOMAIN v, Input(v, i, t.epoch)
        PROVE  \/ \E j \in 1..(i - 1) : Says(v, j, t.epoch, "release-control")
               \/ v[i].seq = t.next + Cardinality(Ahead(v, i, t.epoch))
    <3>1. i \in DOMAIN u /\ Input(u, i, t.epoch) BY <1>6, <2>2
    <3>2. \A j \in 1..(i - 1) : j \in DOMAIN u BY <1>3, <3>1
    <3> QED BY <1>0, <1>3, <1>4, <1>8, <3>1, <3>2 DEF SequenceFits
  <2>3. CASE GivesUp(u, t.epoch) BY <1>4, <2>2, <2>3 DEF SequenceFits
  <2>4. CASE ~GivesUp(u, t.epoch)
    <3>1. c2.authority = t.epoch =>
            c2.seq + 1 = t.next + Cardinality(Ahead(v, Len(v) + 1, t.epoch))
      BY <1>0, <1>8, <2>1, <2>4 DEF SequenceFits, NoControl
    <3>2. \/ c2.offered = t.epoch /\ c2.authority # t.epoch
          \/ \E i \in DOMAIN d : Grants(d, i, t.epoch)
          => t.next = 1 /\ \A i \in DOMAIN u : ~Input(u, i, t.epoch)
      BY <1>0, <2>1, <2>4 DEF SequenceFits, NoControl
    <3> QED BY <1>6, <2>2, <3>1, <3>2 DEF SequenceFits
  <2> QED BY <2>3, <2>4
<1>16. ButtonsFit(c2, t, v, d)
  <2> SUFFICES ASSUME t.active = TRUE PROVE ButtonsFit(c2, t, v, d) BY DEF ButtonsFit
  <2>1. t.epoch # 0 BY <1>0 DEF SessionFits
  <2>2. \A i : LetsGo(c, t, u, d, i) => LetsGo(c2, t, v, d, i) BY <1>3, <1>4, <2>1 DEF LetsGo, NoControl
  <2> QED BY <1>0, <1>7, <2>2 DEF ButtonsFit
<1> QED BY <1>0, <1>10, <1>11, <1>12, <1>13, <1>14, <1>15, <1>16 DEF LinkIInv

\* What the input, or the end of its control, changes of a connection.
Spends(c, c2, what) ==
  /\ c2.phase = "open" /\ c2.desired = c.desired /\ c2.offered = c.offered
  /\ c2.seq = c.seq + 1 /\ c2.resume = c.resume
  /\ \/ what = "release-control" /\ c2.authority = 0 /\ c2.releasing = c.authority
     \/ what # "release-control" /\ c2.authority = c.authority /\ c2.releasing = c.releasing
  /\ \/ what = "press" /\ c2.held = TRUE
     \/ what \in {"release", "release-control"}
     \/ what \notin {"press", "release", "release-control"} /\ c2.held = c.held

\* Input under the control that the page holds, or the end of that control.
LEMMA InputFits ==
  ASSUME NEW c, NEW t, NEW u, NEW d, LinkIInv(c, t, u, d), c.phase = "open", c.authority # 0,
         NEW what \in Whats, NEW v, Sent(u, v, InputMessage(c.authority, c.seq + 1, what, TRUE)),
         NEW c2 \in Connections, Spends(c, c2, what)
  PROVE  LinkIInv(c2, t, v, d)
<1> DEFINE m == InputMessage(c.authority, c.seq + 1, what, TRUE)
           a == c.authority
<1>0. /\ LinkTyped(c, t, u, d) /\ LinkFits(c, t, u, d) /\ SessionFits(t)
      /\ EpochsInOrder(c, t, u, d) /\ KnownAreBacked(c, t, u, d) /\ GrantsAreNews(c, t, u, d)
      /\ SequenceFits(c, t, u, d) /\ ButtonsFit(c, t, u, d)
  BY DEF LinkIInv
<1>9. /\ c.authority \in Nat /\ c.offered \in Nat /\ c.releasing \in Nat /\ c.seq \in Nat
      /\ t.last \in Nat /\ t.epoch \in Nat /\ t.next \in Nat
      /\ \A i \in DOMAIN d : d[i].type = "authority" => d[i].epoch \in Nat
  BY <1>0, LinkTypes
<1>1. /\ m \in UpMessages /\ m.type = "input" /\ m.epoch = a /\ m.seq = c.seq + 1 /\ m.what = what
  BY <1>9 DEF UpMessages, InputMessage
<1> HIDE DEF m
<1>2. u \in Seq(UpMessages) /\ Sent(u, v, m) BY <1>0 DEF LinkTyped, m
<1>3. /\ v \in Seq(UpMessages) /\ Len(u) \in Nat /\ Len(v) = Len(u) + 1
      /\ DOMAIN u = 1..Len(u) /\ DOMAIN v = 1..(Len(u) + 1)
      /\ \A i \in DOMAIN u : i \in DOMAIN v /\ v[i] = u[i] /\ i <= Len(u) /\ i \in Nat /\ i > 0
      /\ \A i \in DOMAIN v : i \in DOMAIN u \/ i = Len(u) + 1
      /\ Len(u) + 1 \in DOMAIN v /\ v[Len(u) + 1] = m
  <2> HIDE DEF UpMessages
  <2> QED BY <1>1, <1>2, OneMore
<1>4. /\ \A e : \A i \in DOMAIN u : Input(v, i, e) <=> Input(u, i, e)
      /\ \A e, w : \A i \in DOMAIN u : Says(v, i, e, w) <=> Says(u, i, e, w)
      /\ \A e : GivesUp(u, e) => GivesUp(v, e)
      /\ what = "release-control" => GivesUp(v, a)
      /\ Leaves(u) => Leaves(v)
  BY <1>1, <1>2, SaysMore
<1>5. /\ \A e : Input(v, Len(u) + 1, e) <=> e = a
      /\ \A e, w : Says(v, Len(u) + 1, e, w) <=> e = a /\ w = what
  BY <1>1, <1>3 DEF Input, Says
<1>6. \A e : \A i \in DOMAIN v :
        Input(v, i, e) => (i \in DOMAIN u /\ Input(u, i, e)) \/ (i = Len(u) + 1 /\ e = a)
  <2> SUFFICES ASSUME NEW e, NEW i \in DOMAIN v, Input(v, i, e)
               PROVE  (i \in DOMAIN u /\ Input(u, i, e)) \/ (i = Len(u) + 1 /\ e = a)
    OBVIOUS
  <2>1. i \in DOMAIN u \/ i = Len(u) + 1 BY <1>3
  <2> QED BY <1>4, <1>5, <2>1
<1>7. \A e, w : \A i \in DOMAIN v : Says(v, i, e, w) =>
        (i \in DOMAIN u /\ Says(u, i, e, w)) \/ (i = Len(u) + 1 /\ e = a /\ w = what)
  <2> SUFFICES ASSUME NEW e, NEW w, NEW i \in DOMAIN v, Says(v, i, e, w)
               PROVE  (i \in DOMAIN u /\ Says(u, i, e, w)) \/ (i = Len(u) + 1 /\ e = a /\ w = what)
    OBVIOUS
  <2>1. i \in DOMAIN u \/ i = Len(u) + 1 BY <1>3
  <2> QED BY <1>4, <1>5, <2>1
<1>8. ASSUME NEW e
      PROVE  /\ \A i \in 1..(Len(u) + 1) : Ahead(v, i, e) = Ahead(u, i, e)
             /\ e = a => Cardinality(Ahead(v, Len(v) + 1, e)) = Cardinality(Ahead(u, Len(u) + 1, e)) + 1
             /\ e # a => Cardinality(Ahead(v, Len(v) + 1, e)) = Cardinality(Ahead(u, Len(u) + 1, e))
  <2>1. m.type = "input" /\ m.epoch = a BY <1>1
  <2> HIDE DEF UpMessages
  <2> QED BY <1>1, <1>2, <2>1, AheadMore
<1>10. LinkTyped(c2, t, v, d) BY <1>0, <1>3 DEF LinkTyped
<1>11. LinkFits(c2, t, v, d) BY <1>0 DEF LinkFits, Spends
<1>12. EpochsInOrder(c2, t, v, d)
  <2>1. \A i \in DOMAIN v : v[i].type = "input" => v[i].epoch > 0 /\ v[i].epoch <= t.last
    BY <1>0, <1>9, <1>1, <1>3 DEF EpochsInOrder
  <2>2. c2.authority <= c2.offered /\ c2.offered <= t.last /\ c2.releasing <= t.last
    BY <1>0, <1>9 DEF EpochsInOrder, Spends
  <2>3. ASSUME NEW i \in DOMAIN d, d[i].type = "authority"
        PROVE  /\ d[i].epoch > 0 /\ d[i].epoch <= t.last
               /\ \A k \in {c2.authority, c2.offered, c2.releasing} :
                    k <= d[i].epoch /\ (d[i].active = TRUE => k < d[i].epoch)
    BY <1>0, <1>9, <2>3 DEF EpochsInOrder, Spends
  <2> QED BY <1>0, <2>1, <2>2, <2>3 DEF EpochsInOrder
<1>13. KnownAreBacked(c2, t, v, d) BY <1>0, <1>4 DEF KnownAreBacked, Spends
<1>14. GrantsAreNews(c2, t, v, d) BY <1>0, <1>6 DEF GrantsAreNews, Unknown, Spends
<1>15. SequenceFits(c2, t, v, d)
  <2> SUFFICES ASSUME t.active = TRUE PROVE SequenceFits(c2, t, v, d) BY DEF SequenceFits
  <2>1. t.epoch # 0 BY <1>0 DEF SessionFits
  <2>2. ASSUME NEW i \in DOMAIN v, Input(v, i, t.epoch)
        PROVE  \/ \E j \in 1..(i - 1) : Says(v, j, t.epoch, "release-control")
               \/ v[i].seq = t.next + Cardinality(Ahead(v, i, t.epoch))
    <3>1. CASE i \in DOMAIN u /\ Input(u, i, t.epoch)
      <4>1. \A j \in 1..(i - 1) : j \in DOMAIN u BY <1>3, <3>1
      <4>2. Ahead(v, i, t.epoch) = Ahead(u, i, t.epoch) BY <1>3, <1>8, <3>1
      <4> QED BY <1>0, <1>3, <1>4, <3>1, <4>1, <4>2 DEF SequenceFits
    <3>2. CASE i = Len(u) + 1 /\ t.epoch = a
      <4>1. CASE GivesUp(u, a)
        <5>1. PICK j \in DOMAIN u : Says(u, j, a, "release-control") BY <4>1 DEF GivesUp
        <5>2. j \in 1..(i - 1) BY <1>3, <3>2, <5>1
        <5> QED BY <1>4, <3>2, <5>1, <5>2
      <4>2. CASE ~GivesUp(u, a)
        <5>1. c.seq + 1 = t.next + Cardinality(Ahead(u, Len(u) + 1, a))
          BY <1>0, <3>2, <4>2 DEF SequenceFits
        <5>2. Ahead(v, Len(u) + 1, a) = Ahead(u, Len(u) + 1, a) BY <1>3, <1>8
        <5> QED BY <1>1, <1>3, <3>2, <5>1, <5>2
      <4> QED BY <4>1, <4>2
    <3> QED BY <1>6, <2>2, <3>1, <3>2
  <2>3. CASE GivesUp(v, t.epoch) BY <2>2, <2>3 DEF SequenceFits
  <2>4. CASE ~GivesUp(v, t.epoch)
    <3>1. c2.authority = t.epoch =>
            c2.seq + 1 = t.next + Cardinality(Ahead(v, Len(v) + 1, t.epoch))
      <4> SUFFICES ASSUME c2.authority = t.epoch
                   PROVE  c2.seq + 1 = t.next + Cardinality(Ahead(v, Len(v) + 1, t.epoch))
        OBVIOUS
      <4>1. t.epoch = a /\ c2.seq = c.seq + 1 /\ a = c.authority BY <2>1 DEF Spends
      <4>2. c.seq + 1 = t.next + Cardinality(Ahead(u, Len(u) + 1, a))
        BY <1>0, <1>4, <2>4, <4>1 DEF SequenceFits
      <4>3. Cardinality(Ahead(u, Len(u) + 1, a)) \in Nat BY <1>3, AheadFinite
      <4>4. Cardinality(Ahead(v, Len(v) + 1, a)) = Cardinality(Ahead(u, Len(u) + 1, a)) + 1 BY <1>8
      <4>5. t.next \in Nat /\ c.seq \in Nat BY <1>9
      <4> HIDE DEF a
      <4> QED BY <4>1, <4>2, <4>3, <4>4, <4>5
    <3>2. ASSUME \/ c2.offered = t.epoch /\ c2.authority # t.epoch
                 \/ \E i \in DOMAIN d : Grants(d, i, t.epoch)
          PROVE  t.next = 1 /\ \A i \in DOMAIN v : ~Input(v, i, t.epoch)
      <4>1. t.epoch # a
        <5> SUFFICES ASSUME t.epoch = a PROVE FALSE OBVIOUS
        <5>1. what # "release-control" BY <1>4, <2>4
        <5>2. PICK i \in DOMAIN d : Grants(d, i, a) BY <3>2, <5>1 DEF Spends
        <5>3. d[i].type = "authority" /\ d[i].epoch = a /\ d[i].active = TRUE BY <5>2 DEF Grants
        <5>4. c.authority < d[i].epoch BY <1>0, <5>3 DEF EpochsInOrder
        <5> QED BY <1>9, <5>3, <5>4
      <4>2. t.next = 1 /\ \A i \in DOMAIN u : ~Input(u, i, t.epoch)
        BY <1>0, <1>4, <2>1, <2>4, <3>2, <4>1 DEF SequenceFits, Spends
      <4> QED BY <1>6, <4>1, <4>2
    <3> QED BY <2>2, <3>1, <3>2 DEF SequenceFits
  <2> QED BY <2>3, <2>4
<1>16. ButtonsFit(c2, t, v, d)
  <2> SUFFICES ASSUME t.active = TRUE PROVE ButtonsFit(c2, t, v, d) BY DEF ButtonsFit
  <2>1. t.epoch # 0 BY <1>0 DEF SessionFits
  <2>2. ASSUME NEW i \in Nat, i <= Len(u), LetsGo(c, t, u, d, i) PROVE LetsGo(c2, t, v, d, i)
    <3>1. CASE c.authority = t.epoch /\ c.held = TRUE
      <4>1. CASE what = "release"
        <5>0. Says(v, Len(u) + 1, t.epoch, "release") BY <1>5, <3>1, <4>1
        <5>1. i < Len(u) + 1 BY <1>3, <2>2
        <5> QED BY <1>3, <5>0, <5>1 DEF LetsGo
      <4>2. CASE what = "release-control" BY <1>4, <3>1, <4>2 DEF LetsGo
      <4>3. CASE what \notin {"release", "release-control"} BY <3>1, <4>3 DEF LetsGo, Spends
      <4> QED BY <4>1, <4>2, <4>3
    <3>2. CASE ~(c.authority = t.epoch /\ c.held = TRUE) BY <1>3, <1>4, <2>2, <3>2 DEF LetsGo
    <3> QED BY <3>1, <3>2
  <2>3. "button" \in t.held => LetsGo(c2, t, v, d, 0) BY <1>3, <1>0, <2>2 DEF ButtonsFit
  <2>4. ASSUME NEW i \in DOMAIN v, Says(v, i, t.epoch, "press") PROVE LetsGo(c2, t, v, d, i)
    <3>1. CASE i \in DOMAIN u /\ Says(u, i, t.epoch, "press")
      BY <1>0, <1>3, <2>2, <3>1 DEF ButtonsFit
    <3>2. CASE t.epoch = a /\ what = "press" BY <3>2 DEF LetsGo, Spends
    <3> QED BY <1>7, <2>4, <3>1, <3>2
  <2> QED BY <2>3, <2>4 DEF ButtonsFit
<1> QED BY <1>0, <1>10, <1>11, <1>12, <1>13, <1>14, <1>15, <1>16 DEF LinkIInv

\* Control a is taken up.
LEMMA TakesUpTyped ==
  ASSUME NEW c \in Connections, NEW a \in Nat, NEW h \in BOOLEAN
  PROVE  [c EXCEPT !.held = h, !.authority = a, !.seq = 0, !.releasing = 0, !.resume = FALSE]
           \in Connections
<1>1. 0 \in Nat /\ FALSE \in BOOLEAN OBVIOUS
<1> QED BY <1>1 DEF Connections

Publishes(c, c2) == c2 = Published(c)

\* A page that is ready takes up the control it was offered.
LEMMA PublishedFits ==
  ASSUME NEW c, NEW t, NEW u, NEW d, LinkIInv(c, t, u, d), NEW c2, Publishes(c, c2)
  PROVE  /\ LinkIInv(c2, t, u, d) /\ c2.phase = c.phase /\ c2.desired = c.desired
         /\ c2.ready = c.ready /\ c2.shown = c.shown /\ c2.first = c.first
         /\ c2 = c \/ c.ready = TRUE
<1>0. /\ LinkTyped(c, t, u, d) /\ LinkFits(c, t, u, d) /\ SessionFits(t)
      /\ EpochsInOrder(c, t, u, d) /\ KnownAreBacked(c, t, u, d) /\ GrantsAreNews(c, t, u, d)
      /\ SequenceFits(c, t, u, d) /\ ButtonsFit(c, t, u, d) /\ c \in Connections
  BY DEF LinkIInv, LinkTyped
<1>1. CASE c2 = c BY <1>1
<1>2. CASE c2 # c
  <2>1. /\ c.offered # 0 /\ c.desired = "expanded" /\ c.ready = TRUE /\ c.authority # c.offered
        /\ c2 = [c EXCEPT !.held = IF c.authority # 0 THEN FALSE ELSE @, !.authority = c.offered,
                          !.seq = 0, !.releasing = 0, !.resume = FALSE]
    BY <1>0, <1>2 DEF Publishes, Published, NoEpoch, Connections
  <2>2. /\ c2 \in Connections /\ c2.phase = c.phase /\ c2.desired = c.desired /\ c2.ready = c.ready
        /\ c2.shown = c.shown /\ c2.first = c.first /\ c2.authority = c.offered
        /\ c2.offered = c.offered /\ c2.seq = 0 /\ c2.releasing = 0 /\ c2.resume = FALSE
    <3>1. PICK h \in BOOLEAN : h = IF c.authority # 0 THEN FALSE ELSE c.held
      BY <1>0 DEF Connections
    <3>2. c2 = [c EXCEPT !.held = h, !.authority = c.offered, !.seq = 0, !.releasing = 0,
                         !.resume = FALSE]
      BY <2>1, <3>1
    <3>3. c \in Connections /\ c.offered \in Nat /\ h \in BOOLEAN BY <1>0, <3>1 DEF Connections
    <3>4. c2 \in Connections
      <4> HIDE DEF Connections
      <4> QED BY <3>2, <3>3, TakesUpTyped
    <3> QED BY <3>2, <3>3, <3>4 DEF Connections
  <2>3. /\ c.authority \in Nat /\ c.offered \in Nat /\ t.last \in Nat /\ t.epoch \in Nat
        /\ \A i \in DOMAIN d : d[i].type = "authority" => d[i].epoch \in Nat
    BY <1>0, LinkTypes
  <2>4. LinkTyped(c2, t, u, d) BY <1>0, <2>2 DEF LinkTyped
  <2>5. LinkFits(c2, t, u, d) BY <1>0, <2>1, <2>2 DEF LinkFits
  <2>6. EpochsInOrder(c2, t, u, d)
    <3>1. c2.authority <= c2.offered /\ c2.offered <= t.last /\ c2.releasing <= t.last
      BY <1>0, <2>2, <2>3 DEF EpochsInOrder
    <3>2. ASSUME NEW i \in DOMAIN d, d[i].type = "authority"
          PROVE  \A k \in {c2.authority, c2.offered, c2.releasing} :
                    k <= d[i].epoch /\ (d[i].active = TRUE => k < d[i].epoch)
      BY <1>0, <2>2, <2>3, <3>2 DEF EpochsInOrder
    <3> QED BY <1>0, <3>1, <3>2 DEF EpochsInOrder
  <2>7. KnownAreBacked(c2, t, u, d) BY <1>0, <2>2 DEF KnownAreBacked
  <2>8. GrantsAreNews(c2, t, u, d) BY <1>0, <2>2 DEF GrantsAreNews, Unknown
  <2>9. SequenceFits(c2, t, u, d)
    <3> SUFFICES ASSUME t.active = TRUE, ~GivesUp(u, t.epoch) PROVE SequenceFits(c2, t, u, d)
      BY <1>0 DEF SequenceFits
    <3>1. \/ c.offered = t.epoch /\ c.authority # t.epoch
          \/ \E i \in DOMAIN d : Grants(d, i, t.epoch)
          => t.next = 1 /\ \A i \in DOMAIN u : ~Input(u, i, t.epoch)
      BY <1>0 DEF SequenceFits
    <3>2. ASSUME c2.authority = t.epoch
          PROVE  c2.seq + 1 = t.next + Cardinality(Ahead(u, Len(u) + 1, t.epoch))
      <4>1. t.next = 1 /\ \A i \in DOMAIN u : ~Input(u, i, t.epoch) BY <2>1, <2>2, <3>1, <3>2
      <4>2. DOMAIN u = 1..Len(u) /\ Len(u) \in Nat
        <5> HIDE DEF UpMessages
        <5> QED BY <1>0 DEF LinkTyped
      <4>3. \A j \in 1..(Len(u) + 1 - 1) : ~Input(u, j, t.epoch) BY <4>1, <4>2
      <4>4. Cardinality(Ahead(u, Len(u) + 1, t.epoch)) = 0 BY <4>3, AheadNone
      <4> QED BY <2>2, <4>1, <4>4
    <3>3. \/ c2.offered = t.epoch /\ c2.authority # t.epoch
          \/ \E i \in DOMAIN d : Grants(d, i, t.epoch)
          => t.next = 1 /\ \A i \in DOMAIN u : ~Input(u, i, t.epoch)
      BY <2>2, <3>1
    <3> QED BY <1>0, <3>2, <3>3 DEF SequenceFits
  <2>10. ButtonsFit(c2, t, u, d)
    <3> SUFFICES ASSUME t.active = TRUE PROVE ButtonsFit(c2, t, u, d) BY DEF ButtonsFit
    <3>1. c.authority # t.epoch BY <1>0, <2>1, <2>3 DEF SessionFits, EpochsInOrder
    <3>2. \A i : LetsGo(c, t, u, d, i) => LetsGo(c2, t, u, d, i) BY <3>1 DEF LetsGo
    <3> QED BY <1>0, <3>2 DEF ButtonsFit
  <2> QED BY <1>0, <2>1, <2>2, <2>4, <2>5, <2>6, <2>7, <2>8, <2>9, <2>10 DEF LinkIInv
<1> QED BY <1>1, <1>2

\* A connection with what it sent.
Links == [c : Connections, up : Seq(UpMessages)]

\* What was sent stays sent.
Follows(u, v) == \A i \in DOMAIN u : i \in DOMAIN v /\ v[i] = u[i]

\* The state of a link after each method of the connection.
Activates(s, s2) == s2 = Activate(s)
Releases(s, s2) == s2 = ReleaseControl(s)
Suspends(s, s2) == s2 = Suspend(s)
Resumes(s, s2) == s2 = ResumeControl(s)
Sets(s, s2, mode) == s2 = SetMode(s, mode)

\* A message is sent: what was under way still is.
LEMMA SentFollows ==
  ASSUME NEW u \in Seq(UpMessages), NEW m \in UpMessages, NEW v, Sent(u, v, m)
  PROVE  v \in Seq(UpMessages) /\ Follows(u, v) /\ \E i \in DOMAIN v : v[i] = m
<1> HIDE DEF UpMessages
<1>1. /\ v \in Seq(UpMessages) /\ Len(u) + 1 \in DOMAIN v /\ v[Len(u) + 1] = m
      /\ \A i \in DOMAIN u : i \in DOMAIN v /\ v[i] = u[i]
  BY OneMore
<1> QED BY <1>1 DEF Follows

\* What stays sent twice over stays sent.
LEMMA FollowsOn ==
  ASSUME NEW u, NEW v, NEW w, Follows(u, v), Follows(v, w)
  PROVE  Follows(u, w)
BY DEF Follows

\* The mode that is asked for stays asked for when more is sent.
LEMMA StaysAsked ==
  ASSUME NEW c, NEW c2, NEW u, NEW v, NEW d, IsAsked(c, u, d), Follows(u, v), c2.desired = c.desired
  PROVE  IsAsked(c2, v, d)
<1> DEFINE mode == c.desired
<1>1. CASE \E i \in DOMAIN u : u[i].type = "view" /\ u[i].mode = mode
  <2>1. PICK i \in DOMAIN u : u[i].type = "view" /\ u[i].mode = mode BY <1>1
  <2>2. i \in DOMAIN v /\ v[i] = u[i] BY DEF Follows
  <2> QED BY <2>1, <2>2 DEF IsAsked
<1>2. CASE ~\E i \in DOMAIN u : u[i].type = "view" /\ u[i].mode = mode BY <1>2 DEF IsAsked
<1> QED BY <1>1, <1>2

\* The page asks for a mode on the open socket, and may show that it connects.
LEMMA AsksOn ==
  ASSUME NEW s \in Links, NEW mode \in ViewModes, NEW x, NEW s2,
         s2 = [ToServer(s, ViewMessage(mode)) EXCEPT !.c.shown = x]
  PROVE  /\ Sent(s.up, s2.up, ViewMessage(mode)) /\ s2.c = [s.c EXCEPT !.shown = x]
         /\ s2 = [c |-> s2.c, up |-> s2.up]
BY DEF Links, ToServer, Sent

\* #activate on an open socket: what it sends and shows.
LEMMA ActivateAsks ==
  ASSUME NEW s \in Links, NEW s2, Activates(s, s2)
  PROVE  \/ /\ s.c.phase # "open" \/ s.c.releasing # 0
            /\ s2 = s
         \/ /\ s.c.phase = "open" /\ s.c.releasing = 0
            /\ s2 \in Links /\ Sent(s.up, s2.up, ViewMessage(s.c.desired))
            /\ \E x \in {s.c.shown, "connecting"} : s2.c = [s.c EXCEPT !.shown = x]
<1>1. CASE s.c.phase # "open" \/ s.c.releasing # 0
  BY <1>1 DEF Activates, Activate, Open, NoEpoch
<1>2. CASE s.c.phase = "open" /\ s.c.releasing = 0
  <2>1. s.c \in Connections /\ s.up \in Seq(UpMessages) BY DEF Links
  <2>2. s.c.desired \in ViewModes BY <2>1 DEF Connections
  <2>3. PICK x : x = IF s.c.ack # s.c.desired THEN "connecting" ELSE s.c.shown OBVIOUS
  <2>4. s2 = [ToServer(s, ViewMessage(s.c.desired)) EXCEPT !.c.shown = x]
    BY <1>2, <2>3 DEF Activates, Activate, Open, NoEpoch, SendViewMode, ToServer, Links
  <2>5. /\ Sent(s.up, s2.up, ViewMessage(s.c.desired)) /\ s2.c = [s.c EXCEPT !.shown = x]
        /\ s2 = [c |-> s2.c, up |-> s2.up]
    BY <2>2, <2>4, AsksOn
  <2>6. s2.c \in Connections BY <2>1, <2>3, <2>5 DEF Connections
  <2>7. ViewMessage(s.c.desired) \in UpMessages BY <2>2 DEF ViewMessage, UpMessages
  <2>8. s2.up \in Seq(UpMessages)
    <3> HIDE DEF UpMessages
    <3> QED BY <2>1, <2>5, <2>7, SentFollows
  <2> QED BY <1>2, <2>3, <2>5, <2>6, <2>8 DEF Links
<1> QED BY <1>1, <1>2

\* #activate keeps the two ends together, and asks for the mode unless a release is not answered.
LEMMA ActivateFits ==
  ASSUME NEW s \in Links, NEW t, NEW d, LinkIInv(s.c, t, s.up, d), NEW s2, Activates(s, s2)
  PROVE  /\ s2 \in Links /\ LinkIInv(s2.c, t, s2.up, d) /\ Follows(s.up, s2.up)
         /\ s2.c.phase = s.c.phase /\ s2.c.desired = s.c.desired /\ s2.c.ready = s.c.ready
         /\ s2.c.resume = s.c.resume /\ s2.c.releasing = s.c.releasing /\ s2.c.first = s.c.first
         /\ s2 # s => IsAsked(s2.c, s2.up, d)
         /\ s.c.phase = "open" /\ s.c.releasing = 0 => IsAsked(s2.c, s2.up, d)
<1>1. CASE s2 = s /\ (s.c.phase # "open" \/ s.c.releasing # 0) BY <1>1 DEF Follows
<1>2. CASE /\ s.c.phase = "open" /\ s.c.releasing = 0
           /\ s2 \in Links /\ Sent(s.up, s2.up, ViewMessage(s.c.desired))
           /\ \E x \in {s.c.shown, "connecting"} : s2.c = [s.c EXCEPT !.shown = x]
  <2>1. s.c \in Connections /\ s2.c \in Connections /\ s.up \in Seq(UpMessages) BY <1>2 DEF Links
  <2>2. /\ s2.c.phase = s.c.phase /\ s2.c.desired = s.c.desired /\ s2.c.ready = s.c.ready
        /\ s2.c.resume = s.c.resume /\ s2.c.releasing = s.c.releasing /\ s2.c.first = s.c.first
        /\ s2.c.authority = s.c.authority /\ s2.c.offered = s.c.offered /\ s2.c.seq = s.c.seq
        /\ s2.c.held = s.c.held /\ s.c.desired \in ViewModes
    BY <1>2, <2>1 DEF Connections
  <2>3. s.c.desired # "idle" /\ (s.c.resume = TRUE => s.c.releasing # 0) BY DEF LinkIInv, LinkFits
  <2>4. LinkIInv(s2.c, t, s2.up, d) BY <1>2, <2>1, <2>2, <2>3, ModeAskedFits
  <2>5. ViewMessage(s.c.desired) \in UpMessages BY <2>2 DEF ViewMessage, UpMessages
  <2>6. Follows(s.up, s2.up) /\ \E i \in DOMAIN s2.up : s2.up[i] = ViewMessage(s.c.desired)
    <3> HIDE DEF UpMessages
    <3> QED BY <1>2, <2>1, <2>5, SentFollows
  <2>7. IsAsked(s2.c, s2.up, d) BY <2>2, <2>6 DEF IsAsked, ViewMessage
  <2> QED BY <1>2, <2>2, <2>4, <2>6, <2>7
<1> QED BY <1>1, <1>2, ActivateAsks

\* Control a is given up with input n.
LEMMA GivesUpTyped ==
  ASSUME NEW c \in Connections, NEW a \in Nat, NEW n \in Nat, NEW c2,
         c2 = [c EXCEPT !.seq = n, !.releasing = a, !.authority = 0, !.held = FALSE]
  PROVE  c2 \in Connections
<1>1. 0 \in Nat /\ FALSE \in BOOLEAN OBVIOUS
<1> QED BY <1>1 DEF Connections

\* releaseControl gives up the control that the page holds on an open socket.
LEMMA ReleaseFits ==
  ASSUME NEW s \in Links, NEW t, NEW d, LinkIInv(s.c, t, s.up, d), NEW s2, Releases(s, s2)
  PROVE  /\ s2 \in Links /\ LinkIInv(s2.c, t, s2.up, d) /\ Follows(s.up, s2.up)
         /\ s2.c.phase = s.c.phase /\ s2.c.desired = s.c.desired /\ s2.c.ready = s.c.ready
         /\ s2.c.resume = s.c.resume /\ s2.c.first = s.c.first /\ s2.c.shown = s.c.shown
<1>1. CASE s2 = s BY <1>1 DEF Follows
<1>2. CASE MaySend(s.c)
  <2> DEFINE m == InputMessage(s.c.authority, s.c.seq + 1, "release-control", TRUE)
  <2>1. s.c \in Connections /\ s.up \in Seq(UpMessages) BY DEF Links
  <2>2. s.c.authority \in Nat /\ s.c.seq \in Nat BY <2>1 DEF Connections
  <2>3. s.c.phase = "open" /\ s.c.authority # 0 BY <1>2 DEF MaySend, NoEpoch
  <2>4. s2 = [SendInput(s, "release-control", TRUE) EXCEPT !.c.releasing = s.c.authority,
                 !.c.authority = 0, !.c.held = FALSE]
    BY <1>2 DEF Releases, ReleaseControl, NoEpoch
  <2>5. /\ Sent(s.up, s2.up, m) /\ s2 = [c |-> s2.c, up |-> s2.up]
        /\ s2.c = [s.c EXCEPT !.seq = @ + 1, !.releasing = s.c.authority, !.authority = 0,
                              !.held = FALSE]
    BY <2>1, <2>4 DEF SendInput, ToServer, Links, Sent, Connections
  <2>6. /\ s2.c \in Connections /\ Spends(s.c, s2.c, "release-control")
        /\ s2.c.phase = s.c.phase /\ s2.c.desired = s.c.desired /\ s2.c.ready = s.c.ready
        /\ s2.c.resume = s.c.resume /\ s2.c.first = s.c.first /\ s2.c.shown = s.c.shown
    <3>1. PICK n \in Nat, a \in Nat : n = s.c.seq + 1 /\ a = s.c.authority BY <2>2
    <3>2. s2.c = [s.c EXCEPT !.seq = n, !.releasing = a, !.authority = 0, !.held = FALSE]
      BY <2>1, <2>5, <3>1 DEF Connections
    <3>3. s2.c \in Connections BY <2>1, <3>2, GivesUpTyped
    <3>4. /\ s2.c.phase = s.c.phase /\ s2.c.desired = s.c.desired /\ s2.c.ready = s.c.ready
          /\ s2.c.resume = s.c.resume /\ s2.c.first = s.c.first /\ s2.c.shown = s.c.shown
          /\ s2.c.offered = s.c.offered /\ s2.c.seq = n /\ s2.c.releasing = a
          /\ s2.c.authority = 0
      BY <2>1, <3>2 DEF Connections
    <3> QED BY <2>3, <3>1, <3>3, <3>4 DEF Spends
  <2>7. m \in UpMessages BY <2>2 DEF InputMessage, UpMessages, Whats
  <2>8. s2.up \in Seq(UpMessages) /\ Follows(s.up, s2.up)
    <3> HIDE DEF UpMessages, m
    <3> QED BY <2>1, <2>5, <2>7, SentFollows
  <2>9. LinkIInv(s2.c, t, s2.up, d) BY <2>3, <2>5, <2>6, InputFits DEF Whats
  <2> QED BY <2>5, <2>6, <2>8, <2>9 DEF Links
<1> QED BY <1>1, <1>2 DEF Releases, ReleaseControl

Clears(c, c2) == c2 = ViewCleared(c)

\* #clearExpandedView keeps what is settled between the two ends.
LEMMA ClearedFits ==
  ASSUME NEW c, NEW t, NEW u, NEW d, LinkIInv(c, t, u, d), NEW c2, Clears(c, c2)
  PROVE  /\ LinkIInv(c2, t, u, d) /\ c2.phase = c.phase /\ c2.desired = c.desired
         /\ c2.ready = FALSE /\ c2.shown = c.shown /\ c2.resume = c.resume
<1>1. c \in Connections BY DEF LinkIInv, LinkTyped
<1>2. /\ c2 \in Connections /\ c2.phase = c.phase /\ c2.desired = c.desired
      /\ c2.ready = FALSE /\ c2.shown = c.shown /\ c2.resume = c.resume
      /\ c2.authority = c.authority /\ c2.offered = c.offered /\ c2.seq = c.seq
      /\ c2.releasing = c.releasing /\ c2.held = c.held
  BY <1>1 DEF Clears, ViewCleared, Connections
<1>3. /\ c.resume = TRUE => c.releasing # 0
      /\ c.phase = "failed" => c.shown # "connecting"
  BY DEF LinkIInv, LinkFits
<1> QED BY <1>2, <1>3, SameControl

\* suspend: control and the view are given up, and the page asks for nothing more.
LEMMA SuspendFits ==
  ASSUME NEW s \in Links, NEW t, NEW d, LinkIInv(s.c, t, s.up, d), NEW s2, Suspends(s, s2)
  PROVE  /\ s2 \in Links /\ LinkIInv(s2.c, t, s2.up, d) /\ Follows(s.up, s2.up)
         /\ s2.c.phase = s.c.phase /\ s2.c.desired = s.c.desired /\ s2.c.shown = s.c.shown
         /\ s2.c.ready = FALSE
<1>1. PICK r : Releases(s, r) BY DEF Releases
<1>2. /\ r \in Links /\ LinkIInv(r.c, t, r.up, d) /\ Follows(s.up, r.up)
      /\ r.c.phase = s.c.phase /\ r.c.desired = s.c.desired /\ r.c.shown = s.c.shown
  BY <1>1, ReleaseFits
<1>3. PICK k : k = [c |-> ViewCleared(r.c), up |-> r.up] OBVIOUS
<1>4. /\ LinkIInv(k.c, t, k.up, d) /\ k.up = r.up /\ k.c.phase = r.c.phase
      /\ k.c.desired = r.c.desired /\ k.c.ready = FALSE /\ k.c.shown = r.c.shown
  <2>1. PICK rc : rc = r.c OBVIOUS
  <2>2. PICK kc : Clears(rc, kc) BY DEF Clears
  <2>3. /\ LinkIInv(kc, t, r.up, d) /\ kc.phase = rc.phase /\ kc.desired = rc.desired
        /\ kc.ready = FALSE /\ kc.shown = rc.shown
    <3>1. LinkIInv(rc, t, r.up, d) BY <1>2, <2>1
    <3> QED BY ZenonT(30), <2>2, <3>1, ClearedFits
  <2>4. k.c = kc /\ k.up = r.up BY <1>3, <2>1, <2>2 DEF Clears
  <2> QED BY <2>1, <2>3, <2>4
<1>5. k \in Links BY <1>3, <1>4 DEF LinkIInv, LinkTyped, Links
<1>6. s2 = SendViewMode(k, "idle") BY <1>1, <1>3 DEF Suspends, Suspend, Releases
<1>7. CASE k.c.phase # "open" BY <1>2, <1>4, <1>5, <1>6, <1>7 DEF SendViewMode, Open
<1>8. CASE k.c.phase = "open"
  <2>1. Sent(k.up, s2.up, ViewMessage("idle")) /\ s2.c = k.c /\ s2 = [c |-> s2.c, up |-> s2.up]
    BY <1>5, <1>6, <1>8 DEF SendViewMode, Open, ToServer, Sent, Links
  <2>2. "idle" \in ViewModes BY DEF ViewModes
  <2>3. ViewMessage("idle") \in UpMessages BY <2>2 DEF ViewMessage, UpMessages
  <2>4. k.c \in Connections /\ k.up \in Seq(UpMessages) BY <1>5 DEF Links
  <2>5. s2.up \in Seq(UpMessages) /\ Follows(k.up, s2.up)
    <3> HIDE DEF UpMessages
    <3> QED BY <2>1, <2>3, <2>4, SentFollows
  <2>6. k.c.desired # "idle" /\ (k.c.resume = TRUE => k.c.releasing # 0)
    BY <1>4 DEF LinkIInv, LinkFits
  <2>7. LinkIInv(s2.c, t, s2.up, d) BY <1>4, <1>8, <2>1, <2>2, <2>4, <2>6, ModeAskedFits
  <2>8. Follows(s.up, s2.up) BY <1>2, <1>4, <2>5, FollowsOn
  <2> QED BY <1>2, <1>4, <2>1, <2>4, <2>5, <2>7, <2>8 DEF Links
<1> QED BY <1>7, <1>8

\* The mode is asked for, or will be when control is taken back.
AsksAgain(s, s2, d) ==
  /\ s.c.resume = TRUE => s2.c.resume = TRUE
  /\ \/ IsAsked(s2.c, s2.up, d) \/ s2 = s
     \/ s2.c.resume = TRUE /\ s2.c.shown = s.c.shown
  /\ s.c.phase = "open" /\ s.c.desired = "expanded" =>
       IsAsked(s2.c, s2.up, d) \/ s2.c.resume = TRUE

\* resumeControl asks for control again, or waits until the one given up is taken back.
LEMMA ResumeFits ==
  ASSUME NEW s \in Links, NEW t, NEW d, LinkIInv(s.c, t, s.up, d), NEW s2, Resumes(s, s2)
  PROVE  /\ s2 \in Links /\ LinkIInv(s2.c, t, s2.up, d) /\ Follows(s.up, s2.up)
         /\ s2.c.phase = s.c.phase /\ s2.c.desired = s.c.desired /\ s2.c.ready = s.c.ready
         /\ s2.c.first = s.c.first
         /\ AsksAgain(s, s2, d)
<1>1. CASE s.c.desired # "expanded" BY <1>1 DEF Resumes, ResumeControl, Follows, AsksAgain
<1>2. CASE s.c.desired = "expanded" /\ s.c.releasing # 0
  <2>1. s2 = [s EXCEPT !.c.resume = TRUE] BY <1>2 DEF Resumes, ResumeControl, NoEpoch
  <2>2. s.c \in Connections /\ s.up \in Seq(UpMessages) BY DEF Links
  <2>3. s2.c = [s.c EXCEPT !.resume = TRUE] /\ s2.up = s.up /\ s2 = [c |-> s2.c, up |-> s2.up]
    BY <2>1 DEF Links
  <2>4. /\ s2.c \in Connections /\ s2.c.resume = TRUE /\ s2.c.phase = s.c.phase
        /\ s2.c.desired = s.c.desired /\ s2.c.ready = s.c.ready /\ s2.c.first = s.c.first
        /\ s2.c.shown = s.c.shown /\ s2.c.authority = s.c.authority /\ s2.c.offered = s.c.offered
        /\ s2.c.seq = s.c.seq /\ s2.c.releasing = s.c.releasing /\ s2.c.held = s.c.held
    BY <2>2, <2>3 DEF Connections
  <2>5. s.c.phase = "failed" => s.c.shown # "connecting" BY DEF LinkIInv, LinkFits
  <2>6. LinkIInv(s2.c, t, s.up, d) BY <1>2, <2>4, <2>5, SameControl
  <2>7. Follows(s.up, s2.up) /\ s2 \in Links BY <2>2, <2>3, <2>4 DEF Follows, Links
  <2> QED BY <2>3, <2>4, <2>6, <2>7 DEF AsksAgain
<1>3. CASE s.c.desired = "expanded" /\ s.c.releasing = 0
  <2>1. Activates(s, s2) BY <1>3 DEF Resumes, ResumeControl, NoEpoch, Activates
  <2>2. /\ s2 \in Links /\ LinkIInv(s2.c, t, s2.up, d) /\ Follows(s.up, s2.up)
        /\ s2.c.phase = s.c.phase /\ s2.c.desired = s.c.desired /\ s2.c.ready = s.c.ready
        /\ s2.c.resume = s.c.resume /\ s2.c.first = s.c.first
        /\ s2 # s => IsAsked(s2.c, s2.up, d)
        /\ s.c.phase = "open" /\ s.c.releasing = 0 => IsAsked(s2.c, s2.up, d)
    BY SMTT(30), <2>1, ActivateFits
  <2> QED BY <1>3, <2>2 DEF AsksAgain
<1> QED BY <1>1, <1>2, <1>3

\* What setMode gives up without a word.
LeftMode(c, mode) ==
  [ViewCleared(c) EXCEPT !.desired = mode, !.authority = NoEpoch, !.offered = NoEpoch,
                         !.releasing = NoEpoch, !.resume = FALSE, !.held = FALSE]
LeavesMode(c, c2, mode) == c2 = LeftMode(c, mode)

\* What setMode leaves of the connection: the new mode, and no control.
LEMMA LeftModeTyped ==
  ASSUME NEW c \in Connections, NEW mode \in ViewModes, NEW c2, LeavesMode(c, c2, mode)
  PROVE  /\ c2 \in Connections /\ c2.phase = c.phase /\ c2.desired = mode /\ c2.shown = c.shown
         /\ NoControl(c2)
<1>1. PICK k : Clears(c, k) BY DEF Clears
<1>2. k \in Connections /\ k.phase = c.phase /\ k.shown = c.shown
  BY <1>1 DEF Clears, ViewCleared, Connections
<1>3. c2 = [k EXCEPT !.desired = mode, !.authority = 0, !.offered = 0, !.releasing = 0,
                     !.resume = FALSE, !.held = FALSE]
  BY <1>1 DEF LeavesMode, LeftMode, Clears, NoEpoch
<1>4. 0 \in Nat /\ FALSE \in BOOLEAN OBVIOUS
<1> QED BY <1>2, <1>3, <1>4 DEF Connections, NoControl

\* setMode: the mode is asked for, unless a release is not answered and the mode is the same.
LEMMA SetModeFits ==
  ASSUME NEW s \in Links, NEW t, NEW d, LinkIInv(s.c, t, s.up, d),
         NEW mode \in ViewModes, mode # "idle", NEW s2, Sets(s, s2, mode)
  PROVE  /\ s2 \in Links /\ LinkIInv(s2.c, t, s2.up, d) /\ Follows(s.up, s2.up)
         /\ s2.c.phase = s.c.phase /\ s2.c.desired = mode
         /\ s.c.phase = "open" /\ (s.c.desired # mode \/ s.c.releasing = 0) =>
              IsAsked(s2.c, s2.up, d)
         /\ s.c.desired = mode =>
              /\ s2.c.ready = s.c.ready /\ s2.c.resume = s.c.resume /\ s2.c.first = s.c.first
              /\ s2 # s => IsAsked(s2.c, s2.up, d)
<1>0. s.c \in Connections /\ s.up \in Seq(UpMessages) BY DEF Links
<1>1. CASE s.c.desired = mode
  <2>1. Activates(s, s2) BY <1>1 DEF Sets, SetMode, Activates
  <2> QED BY <1>1, <2>1, ActivateFits
<1>2. CASE s.c.desired # mode
  <2>1. PICK l : LeavesMode(s.c, l, mode) BY DEF LeavesMode
  <2>3. /\ l \in Connections /\ l.phase = s.c.phase /\ l.desired = mode /\ l.shown = s.c.shown
        /\ NoControl(l)
    <3>1. PICK sc : sc = s.c OBVIOUS
    <3>2. /\ l \in Connections /\ l.phase = sc.phase /\ l.desired = mode /\ l.shown = sc.shown
          /\ NoControl(l) BY <1>0, <2>1, <3>1, LeftModeTyped
    <3> QED BY <3>1, <3>2
  <2>4. PICK k : k = [c |-> l, up |-> s.up] OBVIOUS
  <2>5. k \in Links /\ k.c = l /\ k.up = s.up BY <1>0, <2>3, <2>4 DEF Links
  <2>6. Activates(k, s2)
    BY <2>1, <2>4, <1>2 DEF Links, LeftMode, LeavesMode, Sets, SetMode, Activates
  <2>7. CASE s.c.phase # "open"
    <3>1. s2 = k BY <2>3, <2>5, <2>6, <2>7 DEF Activates, Activate, Open
    <3>2. /\ LinkTyped(s.c, t, s.up, d) /\ LinkFits(s.c, t, s.up, d) /\ SessionFits(t)
      BY DEF LinkIInv
    <3>3. /\ t.open = FALSE /\ s.up = <<>> /\ d = <<>> /\ t.epoch = 0 /\ t.active = FALSE
          /\ t.held = {} /\ (s.c.phase = "failed" => s.c.shown # "connecting")
          /\ t \in Sessions /\ d \in Seq(DownMessages)
      BY <2>7, <3>2 DEF LinkTyped, LinkFits, SessionFits, Sessions
    <3>4. \A i \in DOMAIN d : d[i].type = "view-state" BY <3>3
    <3>5. LinkIInv(l, t, s.up, d)
      BY <2>3, <2>7, <3>3, <3>4, FreshFits
    <3> QED BY <1>2, <2>3, <2>5, <2>7, <3>1, <3>5 DEF Follows
  <2>8. CASE s.c.phase = "open"
    <3>1. /\ s2 \in Links /\ Sent(s.up, s2.up, ViewMessage(mode))
          /\ \E x \in {l.shown, "connecting"} : s2.c = [l EXCEPT !.shown = x]
      BY <2>3, <2>5, <2>8, <2>6, ActivateAsks DEF NoControl
    <3>2. /\ s2.c \in Connections /\ s2.c.phase = "open" /\ s2.c.desired = mode
          /\ NoControl(s2.c)
      BY <2>3, <2>8, <3>1 DEF Connections, Links, NoControl
    <3>3. mode # "expanded" \/ s.c.authority = 0 BY <1>2 DEF LinkIInv, LinkFits
    <3>4. LinkIInv(s2.c, t, s2.up, d) BY ZenonT(30), <2>8, <3>1, <3>2, <3>3, ModeAskedFits
    <3>5. ViewMessage(mode) \in UpMessages BY DEF ViewMessage, UpMessages
    <3>6. Follows(s.up, s2.up) /\ \E i \in DOMAIN s2.up : s2.up[i] = ViewMessage(mode)
      <4> HIDE DEF UpMessages
      <4> QED BY <1>0, <3>1, <3>5, SentFollows
    <3>7. IsAsked(s2.c, s2.up, d) BY <3>2, <3>6 DEF IsAsked, ViewMessage
    <3> QED BY <1>2, <2>8, <3>1, <3>2, <3>4, <3>6, <3>7
  <2> QED BY <2>7, <2>8
<1> QED BY <1>1, <1>2

\* The page's link, of which the methods make another.
LEMMA LinkOfPage ==
  ASSUME WebIInv
  PROVE  /\ Link \in Links /\ Link.c = conn /\ Link.up = up
         /\ LinkIInv(Link.c, session, Link.up, down)
<1>1. conn \in Connections /\ up \in Seq(UpMessages) BY DEF WebIInv, LinkIInv, LinkTyped
<1>2. Link.c = conn /\ Link.up = up BY DEF Link
<1>3. LinkIInv(conn, session, up, down) BY DEF WebIInv
<1> QED BY <1>1, <1>2, <1>3 DEF Link, Links

\* The link that an action leaves.
LeavesLink(s) == conn' = s.c /\ up' = s.up

\* A move that is counted changes nothing else of the component.
LEMMA MovedTyped ==
  ASSUME NEW p \in Panels, NEW q, q = Moved(p)
  PROVE  /\ q \in Panels /\ q.expanded = p.expanded /\ q.window = p.window /\ q.bound = p.bound
         /\ q.attempt = p.attempt /\ q.key = p.key /\ q.retries = p.retries
BY DEF Panels, Moved

\* What an action of the page must keep, when the daemon does nothing.
LEMMA PageKeeps ==
  ASSUME WebIInv, NEW s \in Links, LinkIInv(s.c, session, s.up, down), LeavesLink(s),
         UNCHANGED <<session, down>>, panel' \in Panels, PanelFits(panel', s.c),
         WaitEnds(panel', s.c, s.up, down)
  PROVE  WebIInv'
<1>1. session' = session /\ down' = down /\ conn' = s.c /\ up' = s.up BY DEF LeavesLink
<1>2. LinkIInv(conn', session', up', down') BY <1>1
<1>3. PanelFits(panel', conn') /\ WaitEnds(panel', conn', up', down') BY <1>1
<1> QED BY <1>2, <1>3 DEF WebIInv

\* Expanding the view keeps the invariant: the expanded mode is asked for.
LEMMA ExpandKeeps == ASSUME WebIInv, Expand PROVE WebIInv'
<1>1. PICK s : Sets(Link, s, "expanded") BY DEF Sets
<1>2. /\ Link \in Links /\ Link.c = conn /\ Link.up = up
      /\ LinkIInv(Link.c, session, Link.up, down)
  BY LinkOfPage
<1>3. "expanded" \in ViewModes BY DEF ViewModes
<1>4. /\ s \in Links /\ LinkIInv(s.c, session, s.up, down) /\ s.c.phase = conn.phase
      /\ s.c.desired = "expanded"
      /\ conn.phase = "open" /\ conn.desired # "expanded" => IsAsked(s.c, s.up, down)
  BY <1>1, <1>2, <1>3, SetModeFits
<1>5. LeavesLink(s) /\ UNCHANGED <<session, down>>
  BY <1>1 DEF Expand, Become, LeavesLink, Sets
<1>6. conn.desired # "expanded" BY DEF WebIInv, PanelFits, Expand
<1>7. panel \in Panels BY DEF WebIInv
<1>8. PICK p : p = [panel EXCEPT !.expanded = TRUE, !.bound = panel.attempt] OBVIOUS
<1>9. p \in Panels /\ p.expanded = TRUE /\ p.bound = p.attempt /\ p.attempt \in Nat
  BY <1>7, <1>8 DEF Panels
<1>10. panel' = Moved(p) BY <1>8 DEF Expand
<1>11. panel' \in Panels /\ panel'.expanded = TRUE /\ panel'.bound = panel'.attempt
       /\ panel'.attempt \in Nat
  BY <1>9, <1>10, MovedTyped
<1>12. PanelFits(panel', s.c) BY <1>4, <1>11 DEF PanelFits
<1>13. WaitEnds(panel', s.c, s.up, down) BY <1>4, <1>6 DEF WaitEnds
<1> QED BY <1>4, <1>5, <1>11, <1>12, <1>13, PageKeeps

\* Collapsing it gives up control and the view, and asks for the preview.
LEMMA CollapseKeeps == ASSUME WebIInv, Collapse PROVE WebIInv'
<1>2. /\ Link \in Links /\ Link.c = conn /\ Link.up = up
      /\ LinkIInv(Link.c, session, Link.up, down)
  BY LinkOfPage
<1>3. "preview" \in ViewModes BY DEF ViewModes
<1>4. PICK r : Suspends(Link, r) BY DEF Suspends
<1>5. r \in Links /\ LinkIInv(r.c, session, r.up, down) /\ r.c.desired = Link.c.desired
  BY <1>2, <1>4, SuspendFits
<1>6. PICK h : h = Handled(r) OBVIOUS
<1>7. h \in Links /\ LinkIInv(h.c, session, h.up, down) /\ h.c.desired = "expanded"
  BY <1>6, <1>2, <1>5 DEF WebIInv, PanelFits, Collapse, Handled
<1>8. PICK s : Sets(h, s, "preview") BY DEF Sets
<1>9. /\ s \in Links /\ LinkIInv(s.c, session, s.up, down) /\ s.c.phase = h.c.phase
      /\ s.c.desired = "preview"
      /\ h.c.phase = "open" /\ (h.c.desired # "preview" \/ h.c.releasing = 0)
             => IsAsked(s.c, s.up, down)
  BY <1>3, <1>7, <1>8, SetModeFits
<1>10. LeavesLink(s) /\ UNCHANGED <<session, down>>
  BY <1>4, <1>6, <1>8 DEF Collapse, Become, LeavesLink, Sets, Suspends
<1>11. panel \in Panels BY DEF WebIInv
<1>12. PICK p : p = [panel EXCEPT !.expanded = FALSE, !.bound = 0] OBVIOUS
<1>13. p \in Panels /\ p.expanded = FALSE /\ p.bound = 0 /\ p.attempt \in Nat
  BY <1>11, <1>12 DEF Panels
<1>14. panel' = Moved(p) BY <1>12 DEF Collapse
<1>15. panel' \in Panels /\ panel'.expanded = FALSE /\ panel'.bound = 0 /\ panel'.attempt \in Nat
  BY <1>13, <1>14, MovedTyped
<1>16. PanelFits(panel', s.c) BY <1>9, <1>15 DEF PanelFits
<1>17. WaitEnds(panel', s.c, s.up, down) BY <1>7, <1>9 DEF WaitEnds
<1> QED BY <1>9, <1>10, <1>15, <1>16, <1>17, PageKeeps

\* What a handler of the window does to the component.
LEMMA WindowMoves ==
  ASSUME WebIInv, NEW from, NEW to \in {"focused", "blurred", "hidden"}, Window(from, to)
  PROVE  /\ panel' \in Panels /\ panel'.window = to /\ panel.window = from
         /\ panel'.expanded = panel.expanded /\ panel'.bound = panel.bound
         /\ panel'.attempt = panel.attempt /\ UNCHANGED <<session, down>>
<1>1. panel \in Panels BY DEF WebIInv
<1>2. PICK p : p = [panel EXCEPT !.window = to, !.key = FALSE] OBVIOUS
<1>3. /\ p \in Panels /\ p.window = to /\ p.expanded = panel.expanded /\ p.bound = panel.bound
      /\ p.attempt = panel.attempt
  BY <1>1, <1>2 DEF Panels
<1>4. panel' = Moved(p) /\ panel.window = from /\ UNCHANGED <<session, down>>
  BY <1>2 DEF Window
<1> QED BY <1>3, <1>4, MovedTyped

\* A handler of the window acts on the link, or there is nothing for it to act on.
LEMMA HandlerKeeps ==
  ASSUME WebIInv, NEW from, NEW to \in {"focused", "blurred", "hidden"}, Window(from, to),
         NEW s \in Links, LinkIInv(s.c, session, s.up, down), s.c.desired = conn.desired,
         OnlyExpanded(s),
         panel.expanded = TRUE /\ panel.bound = panel.attempt => WaitEnds(panel', s.c, s.up, down)
  PROVE  WebIInv'
<1>1. /\ panel' \in Panels /\ panel'.window = to /\ panel'.expanded = panel.expanded
      /\ panel'.bound = panel.bound /\ panel'.attempt = panel.attempt /\ UNCHANGED <<session, down>>
  BY WindowMoves
<1>2. panel \in Panels /\ PanelFits(panel, conn) /\ WaitEnds(panel, conn, up, down) BY DEF WebIInv
<1>3. CASE panel.expanded = TRUE /\ panel.bound = panel.attempt
  <2>1. LeavesLink(s) BY <1>3 DEF OnlyExpanded, Become, Handled, Bound, LeavesLink
  <2>2. PanelFits(panel', s.c) BY <1>1, <1>2 DEF PanelFits
  <2> QED BY <1>1, <1>3, <2>1, <2>2, PageKeeps
<1>4. CASE ~(panel.expanded = TRUE /\ panel.bound = panel.attempt)
  <2>1. /\ Link \in Links /\ Link.c = conn /\ Link.up = up
        /\ LinkIInv(Link.c, session, Link.up, down)
    BY LinkOfPage
  <2>2. LeavesLink(Link) BY <1>4 DEF OnlyExpanded, Become, Handled, Bound, LeavesLink
  <2>3. PanelFits(panel', Link.c) BY <1>1, <1>2, <2>1 DEF PanelFits
  <2>4. WaitEnds(panel', Link.c, Link.up, down) BY <1>1, <1>2, <1>4, <2>1 DEF WaitEnds, Suspended
  <2> QED BY <1>1, <2>1, <2>2, <2>3, <2>4, PageKeeps
<1> QED BY <1>3, <1>4

\* A window that loses the focus gives up control.
LEMMA BlurKeeps == ASSUME WebIInv, Blur PROVE WebIInv'
<1>1. PICK s : Releases(Link, s) BY DEF Releases
<1>2. /\ Link \in Links /\ Link.c = conn /\ Link.up = up
      /\ LinkIInv(Link.c, session, Link.up, down)
  BY LinkOfPage
<1>3. /\ s \in Links /\ LinkIInv(s.c, session, s.up, down) /\ Follows(Link.up, s.up)
      /\ s.c.phase = Link.c.phase /\ s.c.desired = Link.c.desired /\ s.c.ready = Link.c.ready
      /\ s.c.resume = Link.c.resume /\ s.c.first = Link.c.first /\ s.c.shown = Link.c.shown
  BY <1>1, <1>2, ReleaseFits
<1>4. Window("focused", "blurred") /\ OnlyExpanded(s) BY <1>1 DEF Blur, Releases
<1>5. panel.window = "focused" BY <1>4, WindowMoves
<1>6. IsAsked(conn, up, down) => IsAsked(s.c, s.up, down) BY <1>2, <1>3, StaysAsked
<1>7. WaitEnds(panel, conn, up, down) BY DEF WebIInv
<1>8. WaitEnds(panel', s.c, s.up, down) BY <1>2, <1>3, <1>5, <1>6, <1>7 DEF WaitEnds, Suspended
<1> QED BY <1>2, <1>3, <1>4, <1>8, HandlerKeeps

\* A window that gets the focus asks for control again, or will.
LEMMA FocusKeeps == ASSUME WebIInv, Focus PROVE WebIInv'
<1>1. PICK s : Resumes(Link, s) BY DEF Resumes
<1>2. /\ Link \in Links /\ Link.c = conn /\ Link.up = up
      /\ LinkIInv(Link.c, session, Link.up, down)
  BY LinkOfPage
<1>3. /\ s \in Links /\ LinkIInv(s.c, session, s.up, down) /\ Follows(Link.up, s.up)
      /\ s.c.phase = Link.c.phase /\ s.c.desired = Link.c.desired /\ s.c.ready = Link.c.ready
      /\ s.c.first = Link.c.first
      /\ AsksAgain(Link, s, down)
  BY <1>1, <1>2, ResumeFits
<1>4. Window("blurred", "focused") /\ OnlyExpanded(s) BY <1>1 DEF Focus, Resumes
<1>5. panel.window = "blurred" BY <1>4, WindowMoves
<1>6. IsAsked(conn, up, down) => IsAsked(s.c, s.up, down) BY <1>2, <1>3, StaysAsked
<1>7. WaitEnds(panel, conn, up, down) BY DEF WebIInv
<1>8. WaitEnds(panel', s.c, s.up, down) BY <1>2, <1>3, <1>5, <1>6, <1>7
  DEF WaitEnds, Suspended, AsksAgain
<1> QED BY <1>2, <1>3, <1>4, <1>8, HandlerKeeps

\* A hidden window suspends the view.
LEMMA HideKeeps == ASSUME WebIInv, Hide PROVE WebIInv'
<1>1. PICK s : Suspends(Link, s) BY DEF Suspends
<1>2. /\ Link \in Links /\ Link.c = conn /\ Link.up = up
      /\ LinkIInv(Link.c, session, Link.up, down)
  BY LinkOfPage
<1>3. /\ s \in Links /\ LinkIInv(s.c, session, s.up, down) /\ s.c.desired = Link.c.desired
      /\ s.c.ready = FALSE
  BY <1>1, <1>2, SuspendFits
<1>4. Window("blurred", "hidden") /\ OnlyExpanded(s) BY <1>1 DEF Hide, Suspends
<1>5. /\ panel'.window = "hidden" /\ panel'.expanded = panel.expanded
      /\ panel'.bound = panel.bound /\ panel'.attempt = panel.attempt
  BY <1>4, WindowMoves
<1>6. panel.expanded = TRUE /\ panel.bound = panel.attempt => WaitEnds(panel', s.c, s.up, down)
  BY <1>3, <1>5 DEF WaitEnds, Suspended
<1> QED BY <1>2, <1>3, <1>4, <1>6, HandlerKeeps

\* A window that is shown again asks for the expanded mode.
LEMMA ShowKeeps == ASSUME WebIInv, Show PROVE WebIInv'
<1>1. /\ Link \in Links /\ Link.c = conn /\ Link.up = up
      /\ LinkIInv(Link.c, session, Link.up, down)
  BY LinkOfPage
<1>2. Window("hidden", "blurred") BY DEF Show
<1>3. panel'.window = "blurred" /\ panel'.expanded = panel.expanded BY <1>2, WindowMoves
<1>4. PICK r : Sets(Link, r, "expanded") BY DEF Sets
<1>5. PICK s : Resumes(r, s) BY DEF Resumes
<1>6. OnlyExpanded(s) BY <1>4, <1>5 DEF Show, Sets, Resumes
<1>7. CASE panel.expanded = TRUE
  <2>1. conn.desired = "expanded" BY <1>7 DEF WebIInv, PanelFits
  <2>2. "expanded" \in ViewModes BY DEF ViewModes
  <2>3. /\ r \in Links /\ LinkIInv(r.c, session, r.up, down) /\ Follows(Link.up, r.up)
        /\ r.c.phase = Link.c.phase /\ r.c.desired = "expanded"
        /\ Link.c.desired = "expanded" =>
              /\ r.c.ready = Link.c.ready /\ r.c.resume = Link.c.resume /\ r.c.first = Link.c.first
              /\ r # Link => IsAsked(r.c, r.up, down)
    BY <1>1, <1>4, <2>2, SetModeFits
  <2>4. /\ s \in Links /\ LinkIInv(s.c, session, s.up, down) /\ Follows(r.up, s.up)
        /\ s.c.phase = r.c.phase /\ s.c.desired = r.c.desired /\ s.c.ready = r.c.ready
        /\ s.c.first = r.c.first
        /\ AsksAgain(r, s, down)
    BY <1>5, <2>3, ResumeFits
  <2>5. WaitEnds(panel, conn, up, down) BY DEF WebIInv
  <2>6. IsAsked(r.c, r.up, down) => IsAsked(s.c, s.up, down) BY <2>4, StaysAsked
  <2>7. IsAsked(conn, up, down) => IsAsked(s.c, s.up, down)
    BY <1>1, <2>1, <2>3, <2>4, FollowsOn, StaysAsked
  <2>8. WaitEnds(panel', s.c, s.up, down)
    <3> SUFFICES ASSUME s.c.shown = "connecting", s.c.phase = "open", ~IsAsked(s.c, s.up, down)
                 PROVE  s.c.ready = FALSE /\ s.c.resume = TRUE
      BY DEF WaitEnds
    <3>1. s.c.resume = TRUE BY <1>1, <2>3, <2>4 DEF AsksAgain
    <3>2. r = Link BY <1>1, <2>1, <2>3, <2>6
    <3>3. conn.shown = "connecting" /\ conn.phase = "open"
      BY <1>1, <2>4, <3>2 DEF AsksAgain
    <3>4. conn.ready = FALSE BY <2>5, <2>7, <3>3 DEF WaitEnds
    <3> QED BY <1>1, <2>4, <3>1, <3>2, <3>4
  <2> QED BY <1>1, <1>2, <1>6, <2>1, <2>3, <2>4, <2>8, HandlerKeeps
<1>8. CASE panel.expanded = FALSE
  <2>1. OnlyExpanded(Link) BY <1>6, <1>8 DEF OnlyExpanded
  <2> QED BY <1>1, <1>2, <1>8, <2>1, HandlerKeeps
<1>9. panel.expanded \in BOOLEAN BY DEF WebIInv, Panels
<1> QED BY <1>7, <1>8, <1>9

\* A connection whose socket is not open.
LEMMA FreshKeeps ==
  ASSUME NEW c \in Connections, NEW p \in Panels, NEW t \in Sessions, NoControl(c),
         c.desired # "idle", c.phase # "open", c.phase = "failed" => c.shown # "connecting",
         t.open = FALSE, t.epoch = 0, t.active = FALSE, t.held = {}, PanelFits(p, c)
  PROVE  LinkIInv(c, t, <<>>, <<>>) /\ WaitEnds(p, c, <<>>, <<>>)
<1>1. <<>> \in Seq(DownMessages) OBVIOUS
<1>2. PICK d : d = <<>> OBVIOUS
<1>3. DOMAIN d = {} BY <1>2
<1>4. \A i \in DOMAIN d : d[i].type = "view-state" BY <1>3
<1>5. PICK u : u = <<>> OBVIOUS
<1>6. LinkIInv(c, t, u, d) BY <1>1, <1>2, <1>4, <1>5, FreshFits
<1> QED BY <1>2, <1>5, <1>6 DEF WaitEnds

\* A new connection of the page.
LEMMA NewConnectionFits ==
  ASSUME NEW mode \in ViewModes, NEW c, c = NewConnection(mode)
  PROVE  c \in Connections /\ NoControl(c) /\ c.desired = mode /\ c.phase = "fetching"
<1>1. 0 \in Nat OBVIOUS
<1>2. "idle" \in ViewModes BY DEF ViewModes
<1> HIDE DEF ViewModes
<1> QED BY <1>1, <1>2 DEF NewConnection, NoEpoch, NoControl, Connections

\* The session of a connection that is gone: it keeps only the last epoch.
LEMMA NoSessionFits ==
  ASSUME NEW l \in Nat, NEW t, t = [NoConnection EXCEPT !.last = l]
  PROVE  t \in Sessions /\ t.open = FALSE /\ t.epoch = 0 /\ t.active = FALSE /\ t.held = {}
<1>1. 0 \in Nat /\ 1 \in Nat /\ {} \in SUBSET Buttons OBVIOUS
<1>2. "idle" \in ViewModes BY DEF ViewModes
<1> HIDE DEF ViewModes, Buttons
<1> QED BY <1>1, <1>2 DEF NoConnection, NoEpoch, Sessions

\* The first connection has the invariant.
LEMMA InitKeeps == ASSUME WebInit PROVE WebIInv
<1>1. "preview" \in ViewModes BY DEF ViewModes
<1>2. conn \in Connections /\ NoControl(conn) /\ conn.desired = "preview" /\ conn.phase = "fetching"
  BY <1>1, NewConnectionFits DEF WebInit
<1>3. /\ session \in Sessions /\ session.open = FALSE /\ session.epoch = 0
      /\ session.active = FALSE /\ session.held = {}
  <2>1. session = [NoConnection EXCEPT !.last = 0] BY DEF WebInit, NoConnection, NoEpoch
  <2>2. 0 \in Nat OBVIOUS
  <2> QED BY <2>1, <2>2, NoSessionFits
<1>4. /\ panel \in Panels /\ panel.bound = 0 /\ panel.attempt = 1 /\ panel.expanded = FALSE
  BY DEF WebInit, Panels
<1>5. PanelFits(panel, conn) BY <1>2, <1>4 DEF PanelFits
<1>6. LinkIInv(conn, session, <<>>, <<>>) /\ WaitEnds(panel, conn, <<>>, <<>>)
  BY <1>2, <1>3, <1>4, <1>5, FreshKeeps
<1>7. up = <<>> /\ down = <<>> BY DEF WebInit
<1> QED BY <1>4, <1>5, <1>6, <1>7 DEF WebIInv

\* So has every further one.
LEMMA ReattemptKeeps ==
  ASSUME WebIInv, NEW p \in Panels, p.bound = panel.bound, p.attempt = panel.attempt, Reattempt(p)
  PROVE  WebIInv'
<1>1. session.last \in Nat BY DEF WebIInv, LinkIInv, LinkTyped, Sessions
<1>2. PICK mode \in ViewModes : mode = IF p.expanded THEN "expanded" ELSE "preview" BY DEF ViewModes
<1>3. PICK c : c = NewConnection(mode) OBVIOUS
<1>4. c \in Connections /\ NoControl(c) /\ c.desired = mode /\ c.phase = "fetching"
  BY <1>3, NewConnectionFits
<1>5. PICK t : t = [NoConnection EXCEPT !.last = session.last] OBVIOUS
<1>6. t \in Sessions /\ t.open = FALSE /\ t.epoch = 0 /\ t.active = FALSE /\ t.held = {}
  BY <1>1, <1>5, NoSessionFits
<1>7. PICK q : q = [p EXCEPT !.attempt = @ + 1] OBVIOUS
<1>8. /\ q \in Panels /\ q.expanded = p.expanded /\ q.bound = p.bound /\ q.attempt = p.attempt + 1
      /\ p.attempt \in Nat /\ p.bound \in Nat /\ p.expanded \in BOOLEAN
  BY <1>7 DEF Panels
<1>9. PanelFits(q, c) BY <1>8, <1>2, <1>4 DEF WebIInv, PanelFits
<1>10. c.desired # "idle" BY <1>2, <1>4
<1>11. LinkIInv(c, t, <<>>, <<>>) /\ WaitEnds(q, c, <<>>, <<>>)
  BY <1>4, <1>6, <1>8, <1>9, <1>10, FreshKeeps
<1>12. conn' = c /\ session' = t /\ panel' = q /\ up' = <<>> /\ down' = <<>>
  BY <1>2, <1>3, <1>5, <1>7 DEF Reattempt
<1> QED BY <1>8, <1>9, <1>11, <1>12 DEF WebIInv

\* A connection that fails leaves nothing to wait for.
LEMMA FailKeeps == ASSUME WebIInv, Fail PROVE WebIInv'
<1>1. session.last \in Nat BY DEF WebIInv, LinkIInv, LinkTyped, Sessions
<1>2. "preview" \in ViewModes BY DEF ViewModes
<1>3. PICK n : n = NewConnection("preview") OBVIOUS
<1>4. n \in Connections /\ NoControl(n) /\ n.desired = "preview" BY <1>2, <1>3, NewConnectionFits
<1>5. PICK c : c = [n EXCEPT !.phase = "failed", !.shown = "snapshot"] OBVIOUS
<1>6. /\ c \in Connections /\ NoControl(c) /\ c.desired = "preview" /\ c.phase = "failed"
      /\ c.shown = "snapshot"
  BY <1>4, <1>5 DEF Connections, NoControl
<1>7. PICK t : t = [NoConnection EXCEPT !.last = session.last] OBVIOUS
<1>8. t \in Sessions /\ t.open = FALSE /\ t.epoch = 0 /\ t.active = FALSE /\ t.held = {}
  BY <1>1, <1>7, NoSessionFits
<1>9. PICK q : q = [panel EXCEPT !.expanded = FALSE, !.bound = 0] OBVIOUS
<1>10. panel \in Panels BY DEF WebIInv
<1>11. q \in Panels /\ q.expanded = FALSE /\ q.bound = 0 /\ q.attempt \in Nat
  BY <1>9, <1>10 DEF Panels
<1>12. PanelFits(q, c) BY <1>6, <1>11 DEF PanelFits
<1>13. LinkIInv(c, t, <<>>, <<>>) /\ WaitEnds(q, c, <<>>, <<>>)
  BY <1>6, <1>8, <1>11, <1>12, FreshKeeps
<1>14. conn' = c /\ session' = t /\ panel' = q /\ up' = <<>> /\ down' = <<>>
  BY <1>3, <1>5, <1>7, <1>9 DEF Fail
<1> QED BY <1>11, <1>12, <1>13, <1>14 DEF WebIInv

\* A socket that is not open: nothing is under way and nothing is controlled.
LEMMA NotOpen ==
  ASSUME WebIInv, conn.phase # "open"
  PROVE  /\ up = <<>> /\ down = <<>> /\ conn \in Connections /\ session \in Sessions
         /\ NoControl(conn) /\ conn.desired # "idle" /\ session.open = FALSE
         /\ session.epoch = 0 /\ session.active = FALSE /\ session.held = {}
<1>1. LinkTyped(conn, session, up, down) /\ LinkFits(conn, session, up, down) /\ SessionFits(session)
  BY DEF WebIInv, LinkIInv
<1>2. conn \in Connections /\ session \in Sessions BY <1>1 DEF LinkTyped
<1>3. /\ up = <<>> /\ down = <<>> /\ session.open = FALSE /\ conn.authority = 0
      /\ conn.offered = 0 /\ conn.releasing = 0 /\ conn.desired # "idle"
  BY <1>1 DEF LinkFits
<1>4. conn.resume = FALSE BY <1>1, <1>2, <1>3 DEF LinkFits, Connections
<1>5. session.epoch = 0 /\ session.active = FALSE /\ session.held = {}
  BY <1>1, <1>2, <1>3 DEF SessionFits, Sessions
<1> QED BY <1>2, <1>3, <1>4, <1>5 DEF NoControl

\* The creation of a session keeps it, or its failure.
LEMMA SessionAnswersKeeps == ASSUME WebIInv, SessionAnswers PROVE WebIInv'
<1>1. CASE Fail BY <1>1, FailKeeps
<1>2. CASE conn' = [conn EXCEPT !.phase = "opening"] /\ UNCHANGED <<panel, session, up, down>>
  <2>1. conn.phase # "open" BY DEF SessionAnswers
  <2>2. /\ up = <<>> /\ down = <<>> /\ conn \in Connections /\ session \in Sessions
        /\ NoControl(conn) /\ conn.desired # "idle" /\ session.open = FALSE
        /\ session.epoch = 0 /\ session.active = FALSE /\ session.held = {}
    BY <2>1, NotOpen
  <2>3. PICK c : c = conn' OBVIOUS
  <2>4. c \in Connections /\ NoControl(c) /\ c.desired = conn.desired /\ c.phase = "opening"
    BY <1>2, <2>2, <2>3 DEF Connections, NoControl
  <2>5. panel \in Panels /\ PanelFits(panel, c) BY <2>4 DEF WebIInv, PanelFits
  <2>6. LinkIInv(c, session, <<>>, <<>>) /\ WaitEnds(panel, c, <<>>, <<>>)
    BY <2>2, <2>4, <2>5, FreshKeeps
  <2> QED BY <1>2, <2>2, <2>3, <2>5, <2>6 DEF WebIInv
<1> QED BY <1>1, <1>2 DEF SessionAnswers

\* On the opened socket the page asks for its mode at once.
LEMMA SocketOpensKeeps == ASSUME WebIInv, SocketOpens PROVE WebIInv'
<1>1. conn.phase # "open" BY DEF SocketOpens
<1>2. /\ up = <<>> /\ down = <<>> /\ conn \in Connections /\ session \in Sessions
      /\ NoControl(conn) /\ conn.desired # "idle" /\ session.open = FALSE
      /\ session.epoch = 0 /\ session.active = FALSE /\ session.held = {}
  BY <1>1, NotOpen
<1>3. PICK c : c = [conn EXCEPT !.phase = "open"] OBVIOUS
<1>4. c \in Connections /\ NoControl(c) /\ c.desired = conn.desired /\ c.phase = "open"
  BY <1>2, <1>3 DEF Connections, NoControl
<1>5. PICK t : t = [session EXCEPT !.open = TRUE] OBVIOUS
<1>6. t \in Sessions /\ t.open = TRUE /\ t.epoch = 0 /\ t.active = FALSE /\ t.held = {}
  BY <1>2, <1>5 DEF Sessions
<1>7. PICK d : d = <<[type |-> "view-state", mode |-> "idle"]>> OBVIOUS
<1>8. d \in Seq(DownMessages) /\ \A i \in DOMAIN d : d[i].type = "view-state"
  <2>1. "idle" \in ViewModes BY DEF ViewModes
  <2>2. [type |-> "view-state", mode |-> "idle"] \in DownMessages BY <2>1 DEF DownMessages
  <2>3. PICK m \in DownMessages : m = [type |-> "view-state", mode |-> "idle"] BY <2>2
  <2>4. d = <<m>> /\ m.type = "view-state" BY <1>7, <2>3
  <2> HIDE DEF DownMessages
  <2>5. d \in Seq(DownMessages) /\ DOMAIN d = {1} /\ d[1] = m BY <2>4
  <2> QED BY <2>4, <2>5
<1>9. PICK s : s = [c |-> c, up |-> up] OBVIOUS
<1>10. s \in Links /\ s.c = c /\ s.up = up BY <1>2, <1>4, <1>9 DEF Links
<1>11. LinkIInv(c, t, up, d) BY <1>2, <1>4, <1>6, <1>8, FreshFits
<1>12. PICK s2 : Activates(s, s2) BY DEF Activates
<1>13. /\ s2 \in Links /\ LinkIInv(s2.c, t, s2.up, d) /\ s2.c.desired = s.c.desired
       /\ s.c.phase = "open" /\ s.c.releasing = 0 => IsAsked(s2.c, s2.up, d)
  BY <1>10, <1>11, <1>12, ActivateFits
<1>14. [Link EXCEPT !.c.phase = "open"] = s BY <1>2, <1>3, <1>9 DEF Link
<1>15. conn' = s2.c /\ up' = s2.up /\ session' = t /\ down' = d /\ panel' = panel
  BY <1>5, <1>7, <1>12, <1>14 DEF SocketOpens, Become, Activates
<1>16. PanelFits(panel, s2.c) /\ panel \in Panels BY <1>4, <1>10, <1>13 DEF WebIInv, PanelFits
<1>17. WaitEnds(panel, s2.c, s2.up, d) BY <1>4, <1>10, <1>13 DEF WaitEnds, NoControl
<1> QED BY <1>13, <1>15, <1>16, <1>17 DEF WebIInv

\* A socket that breaks fails the connection, or begins another.
LEMMA SocketBreaksKeeps == ASSUME WebIInv, SocketBreaks PROVE WebIInv'
<1>1. panel \in Panels BY DEF WebIInv
<1> QED BY <1>1, FailKeeps, ReattemptKeeps DEF SocketBreaks, RequestReconnect

\* A deadline fails the connection.
LEMMA DeadlinePassesKeeps == ASSUME WebIInv, DeadlinePasses PROVE WebIInv'
BY FailKeeps DEF DeadlinePasses

\* The user's retry begins another connection.
LEMMA RetryKeeps == ASSUME WebIInv, Retry PROVE WebIInv'
<1>1. panel \in Panels BY DEF WebIInv
<1> QED BY <1>1, ReattemptKeeps DEF Retry

\* A lost RFB view begins another connection, or fails the last.
LEMMA RfbDisconnectsKeeps == ASSUME WebIInv, RfbDisconnects PROVE WebIInv'
<1>1. panel \in Panels BY DEF WebIInv
<1>2. PICK p : p = [panel EXCEPT !.retries = @ + 1] OBVIOUS
<1>3. p \in Panels /\ p.bound = panel.bound /\ p.attempt = panel.attempt BY <1>1, <1>2 DEF Panels
<1>4. Fail \/ Reattempt(p) BY <1>2 DEF RfbDisconnects, RequestReconnect
<1> QED BY <1>3, <1>4, FailKeeps, ReattemptKeeps

\* A stable view only resets the count of reconnects.
LEMMA RfbIsStableKeeps == ASSUME WebIInv, RfbIsStable PROVE WebIInv'
<1>1. panel \in Panels BY DEF WebIInv
<1>2. panel' = [panel EXCEPT !.retries = 0] /\ UNCHANGED <<conn, session, up, down>>
  BY DEF RfbIsStable
<1>3. /\ panel' \in Panels /\ panel'.window = panel.window /\ panel'.expanded = panel.expanded
      /\ panel'.bound = panel.bound /\ panel'.attempt = panel.attempt
  BY <1>1, <1>2 DEF Panels
<1>4. PanelFits(panel', conn) /\ WaitEnds(panel', conn, up, down)
  BY <1>3 DEF WebIInv, PanelFits, WaitEnds, Suspended
<1>5. LinkIInv(conn', session', up', down') BY <1>2 DEF WebIInv
<1>6. PanelFits(panel', conn') /\ WaitEnds(panel', conn', up', down') BY <1>2, <1>4
<1> QED BY <1>3, <1>5, <1>6 DEF WebIInv

\* What an action of the view must keep, when nothing is sent.
LEMMA ViewKeeps ==
  ASSUME WebIInv, NEW c, LinkIInv(c, session, up, down), conn' = c,
         UNCHANGED <<panel, session, up, down>>, c.desired = conn.desired,
         WaitEnds(panel, c, up, down)
  PROVE  WebIInv'
<1>1. PanelFits(panel, c) BY DEF WebIInv, PanelFits
<1>2. LinkIInv(conn', session', up', down') OBVIOUS
<1>3. PanelFits(panel', conn') /\ WaitEnds(panel', conn', up', down') BY <1>1
<1>4. panel' \in Panels BY DEF WebIInv
<1> QED BY <1>2, <1>3, <1>4 DEF WebIInv

\* The RFB view that connects concerns nobody's control.
LEMMA RfbConnectsKeeps == ASSUME WebIInv, RfbConnects PROVE WebIInv'
<1>1. conn \in Connections BY DEF WebIInv, LinkIInv, LinkTyped
<1>2. conn' = [conn EXCEPT !.rfb = "connected"] /\ UNCHANGED <<panel, session, up, down>>
  BY DEF RfbConnects
<1>3. PICK c : c = conn' OBVIOUS
<1>4. /\ c \in Connections /\ c.phase = conn.phase /\ c.desired = conn.desired
      /\ c.authority = conn.authority /\ c.offered = conn.offered /\ c.seq = conn.seq
      /\ c.releasing = conn.releasing /\ c.held = conn.held /\ c.resume = conn.resume
      /\ c.shown = conn.shown /\ c.ready = conn.ready /\ c.first = conn.first
  BY <1>1, <1>2, <1>3 DEF Connections
<1>5. LinkIInv(conn, session, up, down) /\ WaitEnds(panel, conn, up, down) BY DEF WebIInv
<1>6. /\ conn.resume = TRUE => conn.releasing # 0
      /\ conn.phase = "failed" => conn.shown # "connecting"
  BY <1>5 DEF LinkIInv, LinkFits
<1>7. LinkIInv(c, session, up, down) BY <1>4, <1>5, <1>6, SameControl
<1>8. WaitEnds(panel, c, up, down) BY <1>4, <1>5 DEF WaitEnds, IsAsked
<1> QED BY <1>2, <1>3, <1>4, <1>7, <1>8, ViewKeeps

\* A frame of the preview ends the wait for it.
LEMMA FrameArrivesKeeps == ASSUME WebIInv, FrameArrives PROVE WebIInv'
<1>1. conn \in Connections BY DEF WebIInv, LinkIInv, LinkTyped
<1>2. /\ conn' = [conn EXCEPT !.framed = TRUE, !.first = FALSE] /\ conn.desired = "preview"
      /\ UNCHANGED <<panel, session, up, down>>
  BY DEF FrameArrives
<1>3. PICK c : c = conn' OBVIOUS
<1>4. /\ c \in Connections /\ c.phase = conn.phase /\ c.desired = conn.desired
      /\ c.authority = conn.authority /\ c.offered = conn.offered /\ c.seq = conn.seq
      /\ c.releasing = conn.releasing /\ c.held = conn.held /\ c.resume = conn.resume
      /\ c.shown = conn.shown /\ c.ready = conn.ready
  BY <1>1, <1>2, <1>3 DEF Connections
<1>5. LinkIInv(conn, session, up, down) /\ WaitEnds(panel, conn, up, down) BY DEF WebIInv
<1>6. /\ conn.resume = TRUE => conn.releasing # 0
      /\ conn.phase = "failed" => conn.shown # "connecting"
  BY <1>5 DEF LinkIInv, LinkFits
<1>7. LinkIInv(c, session, up, down) BY <1>4, <1>5, <1>6, SameControl
<1>8. WaitEnds(panel, c, up, down) BY <1>2, <1>4, <1>5 DEF WaitEnds, IsAsked
<1> QED BY <1>2, <1>3, <1>4, <1>7, <1>8, ViewKeeps

\* A connected view takes up the control that was offered.
LEMMA ExpandedConnectedKeeps == ASSUME WebIInv, ExpandedConnected PROVE WebIInv'
<1>1. conn \in Connections BY DEF WebIInv, LinkIInv, LinkTyped
<1>2. PICK c : c = [conn EXCEPT !.ready = TRUE, !.first = FALSE, !.shown = "expanded"] OBVIOUS
<1>3. /\ c \in Connections /\ c.phase = conn.phase /\ c.desired = conn.desired
      /\ c.authority = conn.authority /\ c.offered = conn.offered /\ c.seq = conn.seq
      /\ c.releasing = conn.releasing /\ c.held = conn.held /\ c.resume = conn.resume
      /\ c.shown = "expanded"
  BY <1>1, <1>2 DEF Connections
<1>4. LinkIInv(conn, session, up, down) BY DEF WebIInv
<1>5. conn.resume = TRUE => conn.releasing # 0 BY <1>4 DEF LinkIInv, LinkFits
<1>6. LinkIInv(c, session, up, down) BY <1>3, <1>4, <1>5, SameControl
<1>7. PICK c2 : Publishes(c, c2) BY DEF Publishes
<1>8. LinkIInv(c2, session, up, down) /\ c2.desired = c.desired /\ c2.shown = c.shown
  BY <1>6, <1>7, PublishedFits
<1>9. conn' = c2 /\ UNCHANGED <<panel, session, up, down>>
  BY <1>2, <1>7 DEF ExpandedConnected, Publishes
<1>10. WaitEnds(panel, c2, up, down) BY <1>3, <1>8 DEF WaitEnds
<1> QED BY <1>3, <1>8, <1>9, <1>10, ViewKeeps

Inputs(c, c2, n, h) == c2 = [c EXCEPT !.seq = n, !.held = h]

\* Input n, after which the button is held or not.
LEMMA InputTyped ==
  ASSUME NEW c \in Connections, NEW n \in Nat, NEW h \in BOOLEAN, NEW c2,
         Inputs(c, c2, n, h)
  PROVE  /\ c2 \in Connections /\ c2.phase = c.phase /\ c2.desired = c.desired
         /\ c2.authority = c.authority /\ c2.offered = c.offered /\ c2.seq = n
         /\ c2.releasing = c.releasing /\ c2.held = h /\ c2.resume = c.resume
         /\ c2.shown = c.shown /\ c2.ready = c.ready /\ c2.first = c.first
BY DEF Connections, Inputs

\* The page sends input under its control.
LEMMA InputKeeps ==
  ASSUME WebIInv, MaySend(conn), UNCHANGED <<session, down>>,
         NEW what \in Whats, what # "release-control", NEW h \in BOOLEAN,
         \/ what = "press" /\ h = TRUE
         \/ what = "release"
         \/ what \notin {"press", "release", "release-control"} /\ h = conn.held,
         conn' = [conn EXCEPT !.seq = conn.seq + 1, !.held = h],
         Sent(up, up', InputMessage(conn.authority, conn.seq + 1, what, TRUE)),
         panel' \in Panels, panel'.window = panel.window, panel'.expanded = panel.expanded,
         panel'.bound = panel.bound, panel'.attempt = panel.attempt
  PROVE  WebIInv'
<1>1. LinkIInv(conn, session, up, down) /\ conn \in Connections /\ up \in Seq(UpMessages)
  BY DEF WebIInv, LinkIInv, LinkTyped
<1>2. PICK n \in Nat : n = conn.seq + 1 BY <1>1 DEF Connections
<1>3. PICK c : Inputs(conn, c, n, h) BY DEF Inputs
<1>4. /\ c \in Connections /\ c.phase = conn.phase /\ c.desired = conn.desired
      /\ c.authority = conn.authority /\ c.offered = conn.offered /\ c.seq = n
      /\ c.releasing = conn.releasing /\ c.held = h /\ c.resume = conn.resume
      /\ c.shown = conn.shown /\ c.ready = conn.ready /\ c.first = conn.first
  BY <1>1, <1>3, InputTyped
<1>5. conn.phase = "open" /\ conn.authority # 0 /\ conn.authority \in Nat
  BY <1>1 DEF MaySend, NoEpoch, Connections
<1>6. Spends(conn, c, what) BY <1>2, <1>4, <1>5 DEF Spends
<1>7. PICK v : v = up' OBVIOUS
<1>8. Sent(up, v, InputMessage(conn.authority, conn.seq + 1, what, TRUE)) BY <1>7
<1>9. LinkIInv(c, session, v, down) BY <1>1, <1>4, <1>5, <1>6, <1>8, InputFits
<1>10. InputMessage(conn.authority, conn.seq + 1, what, TRUE) \in UpMessages
  BY <1>2, <1>5 DEF InputMessage, UpMessages
<1>11. v \in Seq(UpMessages) /\ Follows(up, v)
  <2> HIDE DEF UpMessages
  <2> QED BY <1>1, <1>8, <1>10, SentFollows
<1>12. IsAsked(conn, up, down) => IsAsked(c, v, down) BY <1>4, <1>11, StaysAsked
<1>13. WaitEnds(panel, conn, up, down) /\ PanelFits(panel, conn) BY DEF WebIInv
<1>14. WaitEnds(panel', c, v, down) BY <1>4, <1>12, <1>13 DEF WaitEnds, Suspended
<1>15. PanelFits(panel', c) BY <1>4, <1>13 DEF PanelFits
<1>16. conn' = c /\ up' = v /\ session' = session /\ down' = down BY <1>2, <1>3, <1>7 DEF Inputs
<1> QED BY <1>9, <1>14, <1>15, <1>16 DEF WebIInv

\* Every position of the rendered video lies on the Screen.
LEMMA MappedFits == \A x \in 0..Rendered : (Mapped(x) < Logical) = TRUE
BY DEF Rendered, Logical, Mapped

SentInput(s, what) == s = SendInput(Link, what, TRUE)

\* #sendInput.
LEMMA SendsInput ==
  ASSUME WebIInv, NEW what, NEW s, SentInput(s, what)
  PROVE  /\ Sent(up, s.up, InputMessage(conn.authority, conn.seq + 1, what, TRUE))
         /\ s.c = [conn EXCEPT !.seq = conn.seq + 1, !.held = conn.held]
         /\ s = [c |-> s.c, up |-> s.up]
<1>1. conn \in Connections BY DEF WebIInv, LinkIInv, LinkTyped
<1>2. PICK m : m = InputMessage(conn.authority, conn.seq + 1, what, TRUE) OBVIOUS
<1>3. Link = [c |-> conn, up |-> up] BY DEF Link
<1>4. s = [[Link EXCEPT !.up = Append(@, m)] EXCEPT !.c.seq = @ + 1]
  BY <1>2, <1>3 DEF SendInput, ToServer, SentInput
<1>5. PICK v : v = Append(up, m) OBVIOUS
<1>6. [Link EXCEPT !.up = Append(@, m)] = [c |-> conn, up |-> v] BY <1>5 DEF Link
<1>7. s = [[c |-> conn, up |-> v] EXCEPT !.c.seq = @ + 1] BY <1>4, <1>6
<1>8. s = [c |-> [conn EXCEPT !.seq = conn.seq + 1], up |-> v] BY <1>7
<1>9. [conn EXCEPT !.seq = conn.seq + 1] = [conn EXCEPT !.seq = conn.seq + 1, !.held = conn.held]
  BY <1>1 DEF Connections
<1>10. s.c = [conn EXCEPT !.seq = conn.seq + 1] /\ s.up = v
  <2>1. PICK cc : cc = [conn EXCEPT !.seq = conn.seq + 1] OBVIOUS
  <2>2. s = [c |-> cc, up |-> v] BY <1>8, <2>1
  <2>3. s.c = cc /\ s.up = v BY <2>2
  <2> QED BY <2>1, <2>3
<1> QED BY <1>2, <1>5, <1>8, <1>9, <1>10 DEF Sent

\* The button that is held after that.
LEMMA HoldsAfter ==
  ASSUME WebIInv, NEW h, NEW s, s = [c |-> s.c, up |-> s.up],
         s.c = [conn EXCEPT !.seq = conn.seq + 1, !.held = conn.held]
  PROVE  /\ [s EXCEPT !.c.held = h].c = [conn EXCEPT !.seq = conn.seq + 1, !.held = h]
         /\ [s EXCEPT !.c.held = h].up = s.up
<1>1. conn \in Connections BY DEF WebIInv, LinkIInv, LinkTyped
<1>2. PICK c : c = s.c OBVIOUS
<1>3. [s EXCEPT !.c.held = h] = [c |-> [c EXCEPT !.held = h], up |-> s.up] BY <1>2
<1>4. [c EXCEPT !.held = h] = [conn EXCEPT !.seq = conn.seq + 1, !.held = h]
  BY <1>1, <1>2 DEF Connections
<1> QED BY <1>3, <1>4

\* What input may be sent under.
LEMMA UsesLinks ==
  ASSUME WebIInv, NEW what, Uses(what)
  PROVE  /\ MaySend(conn) /\ UNCHANGED <<session, down>> /\ panel \in Panels
         /\ conn.held \in BOOLEAN /\ panel.expanded = TRUE /\ panel.window = "focused"
<1>1. conn \in Connections BY DEF WebIInv, LinkIInv, LinkTyped
<1>2. conn.held \in BOOLEAN BY <1>1 DEF Connections
<1>3. panel \in Panels BY DEF WebIInv
<1>4. panel.expanded = TRUE BY <1>3 DEF Uses, Panels
<1> QED BY <1>2, <1>3, <1>4 DEF Uses

\* A motion is input under the page's control.
LEMMA PointerKeeps == ASSUME WebIInv, NEW x \in 0..Rendered, Pointer(x) PROVE WebIInv'
<1>1. MaySend(conn) /\ UNCHANGED <<session, down>> /\ panel \in Panels /\ conn.held \in BOOLEAN
  BY UsesLinks DEF Pointer
<1>2. (Mapped(x) < Logical) = TRUE BY MappedFits
<1>3. PICK s : SentInput(s, "motion") BY DEF SentInput
<1>4. conn' = s.c /\ up' = s.up /\ panel' = panel BY <1>2, <1>3 DEF Pointer, Become, SentInput
<1>5. /\ Sent(up, s.up, InputMessage(conn.authority, conn.seq + 1, "motion", TRUE))
      /\ s.c = [conn EXCEPT !.seq = conn.seq + 1, !.held = conn.held]
  BY <1>3, SendsInput
<1>6. "motion" \in Whats BY DEF Whats
<1> QED BY <1>1, <1>4, <1>5, <1>6, InputKeeps

\* So is a button that is pressed, which the page then holds.
LEMMA PressKeeps == ASSUME WebIInv, NEW x \in 0..Rendered, Press(x) PROVE WebIInv'
<1>1. MaySend(conn) /\ UNCHANGED <<session, down>> /\ panel \in Panels BY UsesLinks DEF Press
<1>2. (Mapped(x) < Logical) = TRUE BY MappedFits
<1>3. PICK s : SentInput(s, "press") BY DEF SentInput
<1>4. conn' = [s EXCEPT !.c.held = TRUE].c /\ up' = [s EXCEPT !.c.held = TRUE].up /\ panel' = panel
  BY <1>2, <1>3 DEF Press, Become, SentInput
<1>5. /\ Sent(up, s.up, InputMessage(conn.authority, conn.seq + 1, "press", TRUE))
      /\ s.c = [conn EXCEPT !.seq = conn.seq + 1, !.held = conn.held]
      /\ s = [c |-> s.c, up |-> s.up]
  BY <1>3, SendsInput
<1>6. "press" \in Whats BY DEF Whats
<1>7. conn' = [conn EXCEPT !.seq = conn.seq + 1, !.held = TRUE] /\ up' = s.up
  BY <1>4, <1>5, HoldsAfter
<1> QED BY <1>1, <1>4, <1>5, <1>6, <1>7, InputKeeps

\* So is a button that is released.
LEMMA ReleaseKeeps == ASSUME WebIInv, NEW x \in 0..Rendered, Release(x) PROVE WebIInv'
<1>1. MaySend(conn) /\ UNCHANGED <<session, down>> /\ panel \in Panels BY UsesLinks DEF Release
<1>2. (Mapped(x) < Logical) = TRUE BY MappedFits
<1>3. PICK s : SentInput(s, "release") BY DEF SentInput
<1>4. conn' = [s EXCEPT !.c.held = FALSE].c /\ up' = [s EXCEPT !.c.held = FALSE].up /\ panel' = panel
  BY <1>2, <1>3 DEF Release, Become, SentInput
<1>5. /\ Sent(up, s.up, InputMessage(conn.authority, conn.seq + 1, "release", TRUE))
      /\ s.c = [conn EXCEPT !.seq = conn.seq + 1, !.held = conn.held]
      /\ s = [c |-> s.c, up |-> s.up]
  BY <1>3, SendsInput
<1>6. "release" \in Whats BY DEF Whats
<1>7. conn' = [conn EXCEPT !.seq = conn.seq + 1, !.held = FALSE] /\ up' = s.up
  BY <1>4, <1>5, HoldsAfter
<1> QED BY <1>1, <1>4, <1>5, <1>6, <1>7, InputKeeps

\* A key goes down or up, for the daemon when the page has control.
LEMMA KeyKeeps ==
  ASSUME WebIInv, NEW what \in Whats, what \notin {"press", "release", "release-control"},
         NEW k \in BOOLEAN, panel' = [panel EXCEPT !.key = k],
         \/ Uses(what) /\ Become(SendInput(Link, what, TRUE))
         \/ UNCHANGED <<conn, session, up, down>>
  PROVE  WebIInv'
<1>1. panel \in Panels BY DEF WebIInv
<1>2. /\ panel' \in Panels /\ panel'.window = panel.window /\ panel'.expanded = panel.expanded
      /\ panel'.bound = panel.bound /\ panel'.attempt = panel.attempt
  BY <1>1 DEF Panels
<1>3. CASE UNCHANGED <<conn, session, up, down>>
  <2>1. PanelFits(panel', conn) /\ WaitEnds(panel', conn, up, down)
    BY <1>2 DEF WebIInv, PanelFits, WaitEnds, Suspended
  <2>2. LinkIInv(conn', session', up', down') BY <1>3 DEF WebIInv
  <2>3. PanelFits(panel', conn') /\ WaitEnds(panel', conn', up', down') BY <1>3, <2>1
  <2> QED BY <1>2, <2>2, <2>3 DEF WebIInv
<1>4. CASE Uses(what) /\ Become(SendInput(Link, what, TRUE))
  <2>1. MaySend(conn) /\ UNCHANGED <<session, down>> /\ conn.held \in BOOLEAN BY <1>4, UsesLinks
  <2>2. PICK s : SentInput(s, what) BY DEF SentInput
  <2>3. conn' = s.c /\ up' = s.up BY <1>4, <2>2 DEF Become, SentInput
  <2>4. /\ Sent(up, s.up, InputMessage(conn.authority, conn.seq + 1, what, TRUE))
        /\ s.c = [conn EXCEPT !.seq = conn.seq + 1, !.held = conn.held]
    BY <2>2, SendsInput
  <2> QED BY <1>2, <2>1, <2>3, <2>4, InputKeeps
<1> QED BY <1>3, <1>4

\* A key goes down, with control or without.
LEMMA KeyDownKeeps == ASSUME WebIInv, KeyDown PROVE WebIInv'
<1>1. "keydown" \in Whats BY DEF Whats
<1> QED BY <1>1, KeyKeeps DEF KeyDown

\* A key goes up.
LEMMA KeyUpKeeps == ASSUME WebIInv, KeyUp PROVE WebIInv'
<1>1. "keyup" \in Whats BY DEF Whats
<1> QED BY <1>1, KeyKeeps DEF KeyUp

\* What is told on a list that is one longer.
LEMMA TellsMore ==
  ASSUME NEW d \in Seq(DownMessages), NEW m \in DownMessages, NEW b, Sent(d, b, m)
  PROVE  /\ b \in Seq(DownMessages) /\ Len(d) + 1 \in DOMAIN b /\ b[Len(d) + 1] = m
         /\ \A i \in DOMAIN d : i \in DOMAIN b /\ b[i] = d[i] /\ i < Len(d) + 1 /\ i \in Nat
         /\ \A i \in DOMAIN b : i \in DOMAIN d \/ i = Len(d) + 1
         /\ Len(d) \in Nat /\ DOMAIN d = 1..Len(d)
         /\ \A e : \A i \in DOMAIN d : Withdraws(b, i, e) <=> Withdraws(d, i, e)
         /\ \A e : \A i \in DOMAIN d : Grants(b, i, e) <=> Grants(d, i, e)
         /\ IsOver(d) \/ m.type \in {"failure", "closed"} => IsOver(b)
<1> HIDE DEF DownMessages
<1>1. /\ b \in Seq(DownMessages) /\ Len(d) \in Nat /\ DOMAIN d = 1..Len(d)
      /\ \A i \in DOMAIN d : i \in DOMAIN b /\ b[i] = d[i] /\ i <= Len(d) /\ i \in Nat
      /\ \A i \in DOMAIN b : i \in DOMAIN d \/ i = Len(d) + 1
      /\ Len(d) + 1 \in DOMAIN b /\ b[Len(d) + 1] = m
  BY OneMore
<1>2. \A i \in DOMAIN d : i < Len(d) + 1 BY <1>1
<1>3. \A e : \A i \in DOMAIN d : Withdraws(b, i, e) <=> Withdraws(d, i, e) BY <1>1 DEF Withdraws
<1>4. \A e : \A i \in DOMAIN d : Grants(b, i, e) <=> Grants(d, i, e) BY <1>1 DEF Grants
<1>5. IsOver(d) \/ m.type \in {"failure", "closed"} => IsOver(b) BY <1>1 DEF IsOver
<1> QED BY <1>1, <1>2, <1>3, <1>4, <1>5

\* The daemon tells something that is not about control.
LEMMA TellFits ==
  ASSUME NEW c, NEW t, NEW u, NEW d, LinkIInv(c, t, u, d), c.phase = "open",
         NEW m \in DownMessages, m.type # "authority", NEW b, Sent(d, b, m)
  PROVE  LinkIInv(c, t, u, b)
<1>0. /\ LinkTyped(c, t, u, d) /\ LinkFits(c, t, u, d) /\ SessionFits(t)
      /\ EpochsInOrder(c, t, u, d) /\ KnownAreBacked(c, t, u, d) /\ GrantsAreNews(c, t, u, d)
      /\ SequenceFits(c, t, u, d) /\ ButtonsFit(c, t, u, d) /\ d \in Seq(DownMessages)
  BY DEF LinkIInv, LinkTyped
<1>1. /\ b \in Seq(DownMessages) /\ Len(d) + 1 \in DOMAIN b /\ b[Len(d) + 1] = m
      /\ \A i \in DOMAIN d : i \in DOMAIN b /\ b[i] = d[i] /\ i < Len(d) + 1 /\ i \in Nat
      /\ \A i \in DOMAIN b : i \in DOMAIN d \/ i = Len(d) + 1
      /\ \A e : \A i \in DOMAIN d : Withdraws(b, i, e) <=> Withdraws(d, i, e)
      /\ \A e : \A i \in DOMAIN d : Grants(b, i, e) <=> Grants(d, i, e)
      /\ IsOver(d) \/ m.type \in {"failure", "closed"} => IsOver(b)
  BY <1>0, TellsMore
<1>2. \A i \in DOMAIN b : b[i].type = "authority" => i \in DOMAIN d /\ b[i] = d[i] BY <1>1
<1>3. /\ \A e : \A i \in DOMAIN b : Withdraws(b, i, e) => i \in DOMAIN d /\ Withdraws(d, i, e)
      /\ \A e : \A i \in DOMAIN b : Grants(b, i, e) => i \in DOMAIN d /\ Grants(d, i, e)
  BY <1>2 DEF Withdraws, Grants
<1>4. LinkTyped(c, t, u, b) BY <1>0, <1>1 DEF LinkTyped
<1>5. LinkFits(c, t, u, b) BY <1>0, <1>1 DEF LinkFits
<1>6. EpochsInOrder(c, t, u, b) BY <1>0, <1>2 DEF EpochsInOrder
<1>7. \A e : Backed(t, d, e) => Backed(t, b, e) BY <1>1 DEF Backed
<1>8. KnownAreBacked(c, t, u, b) BY <1>0, <1>1, <1>2, <1>7 DEF KnownAreBacked
<1>9. GrantsAreNews(c, t, u, b) BY <1>0, <1>3 DEF GrantsAreNews
<1>10. SequenceFits(c, t, u, b) BY <1>0, <1>3 DEF SequenceFits
<1>11. ButtonsFit(c, t, u, b) BY <1>0, <1>1 DEF ButtonsFit, LetsGo
<1> QED BY <1>0, <1>4, <1>5, <1>6, <1>8, <1>9, <1>10, <1>11 DEF LinkIInv

\* Session t without its control.
Revokes(t, t2) ==
  /\ t2 \in Sessions /\ t2.epoch = 0 /\ t2.active = FALSE /\ t2.held = {}
  /\ t2.open = t.open /\ t2.mode = t.mode /\ t2.last = t.last

\* #revokeInput tells the page that its control ends.
LEMMA RevokeFits ==
  ASSUME NEW c, NEW t, NEW u, NEW d, LinkIInv(c, t, u, d), t.epoch # 0, NEW t2, Revokes(t, t2),
         NEW b, Sent(d, b, Authority(FALSE, t.epoch))
  PROVE  /\ LinkIInv(c, t2, u, b) /\ c.phase = "open"
         /\ \E i \in DOMAIN b : Withdraws(b, i, t.epoch)
<1> DEFINE m == Authority(FALSE, t.epoch)
<1>0. /\ LinkTyped(c, t, u, d) /\ LinkFits(c, t, u, d) /\ SessionFits(t)
      /\ EpochsInOrder(c, t, u, d) /\ KnownAreBacked(c, t, u, d) /\ GrantsAreNews(c, t, u, d)
      /\ d \in Seq(DownMessages)
  BY DEF LinkIInv, LinkTyped
<1>1. /\ c.authority \in Nat /\ c.offered \in Nat /\ c.releasing \in Nat
      /\ t.epoch \in Nat /\ t.last \in Nat
      /\ \A i \in DOMAIN d : d[i].type = "authority" => d[i].epoch \in Nat
  BY <1>0, LinkTypes
<1>2. m \in DownMessages /\ m.type = "authority" /\ m.active = FALSE /\ m.epoch = t.epoch
  BY <1>1 DEF DownMessages, Authority
<1> HIDE DEF m
<1>3. /\ b \in Seq(DownMessages) /\ Len(d) + 1 \in DOMAIN b /\ b[Len(d) + 1] = m
      /\ \A i \in DOMAIN d : i \in DOMAIN b /\ b[i] = d[i] /\ i < Len(d) + 1 /\ i \in Nat
      /\ \A i \in DOMAIN b : i \in DOMAIN d \/ i = Len(d) + 1
      /\ \A e : \A i \in DOMAIN d : Withdraws(b, i, e) <=> Withdraws(d, i, e)
      /\ IsOver(d) => IsOver(b)
  <2>1. Sent(d, b, m) BY DEF m
  <2> QED BY <1>0, <1>2, <2>1, TellsMore
<1>4. t.epoch = t.last /\ t.open = TRUE BY <1>0 DEF SessionFits
<1>5. c.phase = "open" BY <1>0, <1>4 DEF LinkFits
<1>6. Withdraws(b, Len(d) + 1, t.epoch) BY <1>2, <1>3 DEF Withdraws
<1>7. LinkTyped(c, t2, u, b) BY <1>0, <1>3 DEF LinkTyped, Revokes
<1>8. LinkFits(c, t2, u, b) BY <1>0, <1>4, <1>5 DEF LinkFits, Revokes
<1>9. SessionFits(t2) BY DEF SessionFits, Revokes
<1>10. EpochsInOrder(c, t2, u, b)
  <2>1. c.authority <= c.offered /\ c.offered <= t.last /\ c.releasing <= t.last
    BY <1>0 DEF EpochsInOrder
  <2>2. ASSUME NEW i \in DOMAIN b, b[i].type = "authority"
        PROVE  /\ b[i].epoch > 0 /\ b[i].epoch <= t.last
               /\ \A k \in {c.authority, c.offered, c.releasing} :
                    k <= b[i].epoch /\ (b[i].active = TRUE => k < b[i].epoch)
    <3>1. CASE i \in DOMAIN d BY <1>0, <1>3, <2>2, <3>1 DEF EpochsInOrder
    <3>2. CASE i = Len(d) + 1
      <4>1. b[i].epoch = t.last /\ b[i].active = FALSE /\ t.last > 0 BY <1>1, <1>2, <1>3, <1>4, <3>2
      <4> QED BY <1>1, <2>1, <4>1
    <3> QED BY <1>3, <3>1, <3>2
  <2>3. ASSUME NEW i \in DOMAIN b, NEW j \in DOMAIN b, i < j, b[i].type = "authority",
               b[j].type = "authority"
        PROVE  /\ b[i].epoch <= b[j].epoch
               /\ b[i].epoch = b[j].epoch => b[i].active = TRUE /\ b[j].active = FALSE
    <3>1. CASE j \in DOMAIN d
      <4>1. i \in DOMAIN d
        <5>1. i \in DOMAIN d \/ i = Len(d) + 1 BY <1>3
        <5>2. j < Len(d) + 1 /\ j \in Nat BY <1>3, <3>1
        <5>3. Len(d) \in Nat
          <6> HIDE DEF DownMessages
          <6> QED BY <1>0
        <5> QED BY <2>3, <5>1, <5>2, <5>3
      <4> QED BY <1>0, <1>3, <2>3, <3>1, <4>1 DEF EpochsInOrder
    <3>2. CASE j = Len(d) + 1
      <4>1. i \in DOMAIN d
        <5>1. i \in DOMAIN d \/ i = Len(d) + 1 BY <1>3
        <5>2. Len(d) \in Nat
          <6> HIDE DEF DownMessages
          <6> QED BY <1>0
        <5> QED BY <2>3, <3>2, <5>1, <5>2
      <4>2. b[i] = d[i] /\ d[i].epoch <= t.last BY <1>0, <1>3, <2>3, <4>1 DEF EpochsInOrder
      <4>3. d[i].epoch = t.epoch => d[i].active = TRUE
        BY <1>0, <4>1, <2>3, <4>2, LinkTypes DEF GrantsAreNews, Withdraws
      <4> QED BY <1>2, <1>3, <1>4, <3>2, <4>2, <4>3
    <3> QED BY <1>3, <3>1, <3>2
  <2> QED BY <1>0, <2>1, <2>2, <2>3 DEF EpochsInOrder, Revokes
<1>11. \A e : Backed(t, d, e) => Backed(t2, b, e) BY <1>3, <1>6 DEF Backed
<1>12. KnownAreBacked(c, t2, u, b)
  <2>1. ASSUME NEW i \in DOMAIN b, b[i].type = "authority", b[i].active = TRUE
        PROVE  Backed(t2, b, b[i].epoch)
    <3>1. i \in DOMAIN d /\ b[i] = d[i] BY <1>2, <1>3, <2>1
    <3> QED BY <1>0, <1>11, <2>1, <3>1 DEF KnownAreBacked
  <2> QED BY <1>0, <1>3, <1>11, <2>1 DEF KnownAreBacked
<1>13. GrantsAreNews(c, t2, u, b) /\ SequenceFits(c, t2, u, b) /\ ButtonsFit(c, t2, u, b)
  BY DEF GrantsAreNews, SequenceFits, ButtonsFit, Revokes
<1> QED BY <1>3, <1>5, <1>6, <1>7, <1>8, <1>9, <1>10, <1>12, <1>13 DEF LinkIInv

\* The session's mode, while it has control of nothing or stays expanded.
LEMMA ModeFits ==
  ASSUME NEW c, NEW t, NEW u, NEW d, LinkIInv(c, t, u, d), NEW t2 \in Sessions,
         t2.open = t.open, t2.epoch = t.epoch, t2.active = t.active,
         t2.next = t.next \/ (t.active = FALSE /\ t.epoch = 0), t2.held = t.held, t2.last = t.last, t.epoch = 0 \/ t2.mode = "expanded"
  PROVE  LinkIInv(c, t2, u, d)
<1>0. /\ LinkTyped(c, t, u, d) /\ LinkFits(c, t, u, d) /\ SessionFits(t)
      /\ EpochsInOrder(c, t, u, d) /\ KnownAreBacked(c, t, u, d) /\ GrantsAreNews(c, t, u, d)
      /\ SequenceFits(c, t, u, d) /\ ButtonsFit(c, t, u, d)
  BY DEF LinkIInv
<1>1. LinkTyped(c, t2, u, d) BY <1>0 DEF LinkTyped
<1>2. LinkFits(c, t2, u, d) BY <1>0 DEF LinkFits
<1>3. SessionFits(t2) BY <1>0 DEF SessionFits
<1>4. EpochsInOrder(c, t2, u, d) BY <1>0 DEF EpochsInOrder
<1>5. \A e : Backed(t, d, e) => Backed(t2, d, e) BY DEF Backed
<1>6. KnownAreBacked(c, t2, u, d) BY <1>0, <1>5 DEF KnownAreBacked
<1>7. GrantsAreNews(c, t2, u, d) BY <1>0 DEF GrantsAreNews
<1>8. SequenceFits(c, t2, u, d) BY <1>0 DEF SequenceFits
<1>9. ButtonsFit(c, t2, u, d) BY <1>0 DEF ButtonsFit, LetsGo
<1> QED BY <1>1, <1>2, <1>3, <1>4, <1>6, <1>7, <1>8, <1>9 DEF LinkIInv

\* A session that controls nothing has no control to tell of.
LEMMA Uncontrolled ==
  ASSUME NEW c, NEW t, NEW u, NEW d, LinkIInv(c, t, u, d), t.epoch = 0
  PROVE  t.active = FALSE /\ t.held = {}
<1>1. t \in Sessions /\ SessionFits(t) BY DEF LinkIInv, LinkTyped
<1>2. t.active = FALSE BY <1>1 DEF SessionFits, Sessions
<1> QED BY <1>1, <1>2 DEF SessionFits

\* A claim of an expanded session.
Claims(t, t2) ==
  /\ t2 \in Sessions /\ t2.epoch = t.last + 1 /\ t2.last = t.last + 1 /\ t2.active = FALSE
  /\ t2.next = 1 /\ t2.held = {} /\ t2.open = TRUE /\ t2.mode = "expanded"

\* A claim begins an epoch that nobody has heard of.
LEMMA ClaimFits ==
  ASSUME NEW c, NEW t, NEW u, NEW d, LinkIInv(c, t, u, d), t.epoch = 0, t.open = TRUE,
         NEW t2, Claims(t, t2)
  PROVE  LinkIInv(c, t2, u, d)
<1>0. /\ LinkTyped(c, t, u, d) /\ LinkFits(c, t, u, d)
      /\ EpochsInOrder(c, t, u, d) /\ KnownAreBacked(c, t, u, d)
  BY DEF LinkIInv
<1>1. /\ c.authority \in Nat /\ c.offered \in Nat /\ c.releasing \in Nat /\ t.last \in Nat
      /\ \A i \in DOMAIN d : d[i].type = "authority" => d[i].epoch \in Nat
      /\ \A i \in DOMAIN u : u[i].type = "input" => u[i].epoch \in Nat
  BY <1>0, LinkTypes
<1>2. t.active = FALSE BY Uncontrolled
<1>3. LinkTyped(c, t2, u, d) BY <1>0 DEF LinkTyped, Claims
<1>4. LinkFits(c, t2, u, d) BY <1>0 DEF LinkFits, Claims
<1>5. SessionFits(t2) BY DEF SessionFits, Claims
<1>6. c.authority <= t.last /\ c.offered <= t.last /\ c.releasing <= t.last
  BY <1>0, <1>1 DEF EpochsInOrder
<1>7. \A i \in DOMAIN d : d[i].type = "authority" => d[i].epoch <= t.last
  BY <1>0 DEF EpochsInOrder
<1>8. \A i \in DOMAIN u : u[i].type = "input" => u[i].epoch > 0 /\ u[i].epoch <= t.last
  BY <1>0 DEF EpochsInOrder
<1>9. t2.last = t.last + 1 /\ t2.epoch = t.last + 1 /\ t2.active = FALSE BY DEF Claims
<1>10. EpochsInOrder(c, t2, u, d) BY <1>1, <1>6, <1>9, <1>8, <1>7, <1>0 DEF EpochsInOrder
<1>11. \A e : Backed(t, d, e) => Backed(t2, d, e) BY <1>2 DEF Backed
<1>12. KnownAreBacked(c, t2, u, d) BY <1>0, <1>11 DEF KnownAreBacked
<1>13. GrantsAreNews(c, t2, u, d)
  BY <1>1, <1>7, <1>9, <1>6, <1>8 DEF Withdraws, Grants, Unknown, Input, GrantsAreNews
<1>14. SequenceFits(c, t2, u, d) /\ ButtonsFit(c, t2, u, d) BY <1>9 DEF SequenceFits, ButtonsFit
<1> QED BY <1>3, <1>4, <1>5, <1>10, <1>12, <1>13, <1>14 DEF LinkIInv

\* The session is gone, of which the page will learn.
LEMMA EndFits ==
  ASSUME NEW c, NEW t, NEW u, NEW d, LinkIInv(c, t, u, d), t.epoch = 0,
         \E i \in DOMAIN d : d[i].type = "closed", NEW t2 \in Sessions, t2.open = FALSE,
         t2.epoch = 0, t2.active = FALSE, t2.held = {}, t2.last = t.last
  PROVE  LinkIInv(c, t2, u, d)
<1>0. /\ LinkTyped(c, t, u, d) /\ LinkFits(c, t, u, d)
      /\ EpochsInOrder(c, t, u, d) /\ KnownAreBacked(c, t, u, d)
  BY DEF LinkIInv
<1>1. t.active = FALSE BY Uncontrolled
<1>2. LinkTyped(c, t2, u, d) BY <1>0 DEF LinkTyped
<1>3. LinkFits(c, t2, u, d) BY <1>0 DEF LinkFits
<1>4. SessionFits(t2) BY DEF SessionFits
<1>5. EpochsInOrder(c, t2, u, d) BY <1>0 DEF EpochsInOrder
<1>6. \A e : Backed(t, d, e) => Backed(t2, d, e) BY <1>1 DEF Backed
<1>7. KnownAreBacked(c, t2, u, d) BY <1>0, <1>6 DEF KnownAreBacked
<1>8. GrantsAreNews(c, t2, u, d) /\ SequenceFits(c, t2, u, d) /\ ButtonsFit(c, t2, u, d)
  BY DEF GrantsAreNews, SequenceFits, ButtonsFit
<1> QED BY <1>2, <1>3, <1>4, <1>5, <1>7, <1>8 DEF LinkIInv

\* The runtime grants the claim.
Answers(t, t2) ==
  /\ t2 \in Sessions /\ t2.active = TRUE /\ t2.epoch = t.epoch /\ t2.open = t.open
  /\ t2.mode = t.mode /\ t2.next = t.next /\ t2.held = t.held /\ t2.last = t.last

\* The answer to a claim is told: it is the page's first news of that epoch.
LEMMA AnswerFits ==
  ASSUME NEW c, NEW t, NEW u, NEW d, LinkIInv(c, t, u, d), t.epoch # 0, t.active = FALSE,
         NEW t2, Answers(t, t2), NEW b, Sent(d, b, Authority(TRUE, t.epoch))
  PROVE  LinkIInv(c, t2, u, b)
<1> DEFINE m == Authority(TRUE, t.epoch)
<1>0. /\ LinkTyped(c, t, u, d) /\ LinkFits(c, t, u, d) /\ SessionFits(t)
      /\ EpochsInOrder(c, t, u, d) /\ KnownAreBacked(c, t, u, d) /\ GrantsAreNews(c, t, u, d)
      /\ d \in Seq(DownMessages)
  BY DEF LinkIInv, LinkTyped
<1>1. /\ c.authority \in Nat /\ c.offered \in Nat /\ c.releasing \in Nat
      /\ t.epoch \in Nat /\ t.last \in Nat
      /\ \A i \in DOMAIN d : d[i].type = "authority" => d[i].epoch \in Nat
  BY <1>0, LinkTypes
<1>2. m \in DownMessages /\ m.type = "authority" /\ m.active = TRUE /\ m.epoch = t.epoch
  BY <1>1 DEF DownMessages, Authority
<1> HIDE DEF m
<1>3. /\ b \in Seq(DownMessages) /\ Len(d) + 1 \in DOMAIN b /\ b[Len(d) + 1] = m
      /\ \A i \in DOMAIN d : i \in DOMAIN b /\ b[i] = d[i] /\ i < Len(d) + 1 /\ i \in Nat
      /\ \A i \in DOMAIN b : i \in DOMAIN d \/ i = Len(d) + 1
      /\ Len(d) \in Nat
      /\ \A e : \A i \in DOMAIN d : Withdraws(b, i, e) <=> Withdraws(d, i, e)
      /\ IsOver(d) => IsOver(b)
  <2>1. Sent(d, b, m) BY DEF m
  <2> QED BY <1>0, <1>2, <2>1, TellsMore
<1>4. t.epoch = t.last /\ t.open = TRUE /\ t.next = 1 /\ t.held = {} BY <1>0 DEF SessionFits
<1>5. c.phase = "open" BY <1>0, <1>4 DEF LinkFits
<1>6. /\ Unknown(c, u, t.epoch) /\ \A i \in DOMAIN d : ~Withdraws(d, i, t.epoch)
      /\ \A i \in DOMAIN d : ~Grants(d, i, t.epoch)
  BY <1>0 DEF GrantsAreNews
<1>7. LinkTyped(c, t2, u, b) BY <1>0, <1>3 DEF LinkTyped, Answers
<1>8. LinkFits(c, t2, u, b) BY <1>0, <1>4, <1>5 DEF LinkFits, Answers
<1>9. SessionFits(t2) BY <1>0 DEF SessionFits, Answers
<1>10. EpochsInOrder(c, t2, u, b)
  <2>1. c.authority <= c.offered /\ c.offered <= t.last /\ c.releasing <= t.last
    BY <1>0 DEF EpochsInOrder
  <2>2. ASSUME NEW i \in DOMAIN b, b[i].type = "authority"
        PROVE  /\ b[i].epoch > 0 /\ b[i].epoch <= t.last
               /\ \A k \in {c.authority, c.offered, c.releasing} :
                    k <= b[i].epoch /\ (b[i].active = TRUE => k < b[i].epoch)
    <3>1. CASE i \in DOMAIN d BY <1>0, <1>3, <2>2, <3>1 DEF EpochsInOrder
    <3>2. CASE i = Len(d) + 1
      <4>1. b[i].epoch = t.last /\ t.last > 0 BY <1>1, <1>2, <1>3, <1>4, <3>2
      <4>2. c.authority < t.last /\ c.offered < t.last /\ c.releasing < t.last
        BY <1>1, <1>4, <1>6, <2>1 DEF Unknown
      <4> QED BY <1>1, <4>1, <4>2
    <3> QED BY <1>3, <3>1, <3>2
  <2>3. ASSUME NEW i \in DOMAIN b, NEW j \in DOMAIN b, i < j, b[i].type = "authority",
               b[j].type = "authority"
        PROVE  /\ b[i].epoch <= b[j].epoch
               /\ b[i].epoch = b[j].epoch => b[i].active = TRUE /\ b[j].active = FALSE
    <3>1. i \in DOMAIN d BY <1>3, <2>3
    <3>2. CASE j \in DOMAIN d BY <1>0, <1>3, <2>3, <3>1, <3>2 DEF EpochsInOrder
    <3>3. CASE j = Len(d) + 1
      <4>1. b[i] = d[i] /\ d[i].epoch <= t.last BY <1>0, <1>3, <2>3, <3>1 DEF EpochsInOrder
      <4>2. d[i].epoch # t.epoch BY <1>6, <3>1, <1>0, <2>3, <4>1, LinkTypes DEF Withdraws, Grants
      <4> QED BY <1>2, <1>3, <1>4, <3>3, <4>1, <4>2
    <3> QED BY <1>3, <3>2, <3>3
  <2> QED BY <1>0, <2>1, <2>2, <2>3 DEF EpochsInOrder, Answers
<1>11. \A e : Backed(t, d, e) => Backed(t2, b, e) BY <1>3 DEF Backed
<1>12. KnownAreBacked(c, t2, u, b)
  <2>1. ASSUME NEW i \in DOMAIN b, b[i].type = "authority", b[i].active = TRUE
        PROVE  Backed(t2, b, b[i].epoch)
    <3>1. CASE i \in DOMAIN d BY <1>0, <1>3, <1>11, <2>1, <3>1 DEF KnownAreBacked
    <3>2. CASE i = Len(d) + 1 BY <1>2, <1>3, <3>2 DEF Backed, Answers
    <3> QED BY <1>3, <3>1, <3>2
  <2> QED BY <1>0, <1>3, <1>11, <2>1 DEF KnownAreBacked
<1>13. GrantsAreNews(c, t2, u, b)
  <2>1. \A i \in DOMAIN b : ~Withdraws(b, i, t.epoch)
    <3> SUFFICES ASSUME NEW i \in DOMAIN b, Withdraws(b, i, t.epoch) PROVE FALSE OBVIOUS
    <3>1. CASE i \in DOMAIN d BY <1>3, <1>6, <3>1
    <3>2. CASE i = Len(d) + 1 BY <1>2, <1>3, <3>2 DEF Withdraws
    <3> QED BY <1>3, <3>1, <3>2
  <2> QED BY <2>1 DEF GrantsAreNews, Answers
<1>14. SequenceFits(c, t2, u, b) BY <1>4, <1>6 DEF SequenceFits, Unknown, Answers
<1>15. ButtonsFit(c, t2, u, b) BY <1>4, <1>6 DEF ButtonsFit, Unknown, Says, Answers
<1> QED BY <1>7, <1>8, <1>9, <1>10, <1>12, <1>13, <1>14, <1>15 DEF LinkIInv

\* The first message is taken.
Drops(u, v) == u # <<>> /\ v = Tail(u)

\* What is said on a list without its first message.
LEMMA SaysLess ==
  ASSUME NEW u \in Seq(UpMessages), NEW v, Drops(u, v)
  PROVE  /\ v \in Seq(UpMessages) /\ 1 \in DOMAIN u /\ u[1] = Head(u) /\ u[1] \in UpMessages
         /\ Len(v) \in Nat /\ Len(u) = Len(v) + 1 /\ DOMAIN v = 1..Len(v) /\ DOMAIN u = 1..Len(u)
         /\ \A i \in DOMAIN v : i \in Nat /\ i > 0 /\ i + 1 \in DOMAIN u /\ v[i] = u[i + 1]
         /\ \A i \in DOMAIN u : /\ i \in Nat /\ i > 0
                                /\ i # 1 => i - 1 \in DOMAIN v /\ v[i - 1] = u[i]
         /\ \A e : \A i \in DOMAIN v : Input(v, i, e) <=> Input(u, i + 1, e)
         /\ \A e, w : \A i \in DOMAIN v : Says(v, i, e, w) <=> Says(u, i + 1, e, w)
         /\ \A e, w : \A i \in DOMAIN u : i # 1 => (Says(v, i - 1, e, w) <=> Says(u, i, e, w))
         /\ \A e : GivesUp(u, e) /\ ~Says(u, 1, e, "release-control") => GivesUp(v, e)
         /\ Leaves(u) /\ ~(u[1].type = "view" /\ u[1].mode # "expanded") => Leaves(v)
<1> HIDE DEF UpMessages
<1>0. u # <<>> /\ v = Tail(u) BY DEF Drops
<1>1. /\ v \in Seq(UpMessages) /\ Len(v) \in Nat /\ Len(u) = Len(v) + 1
      /\ DOMAIN u = 1..Len(u) /\ DOMAIN v = 1..Len(v) /\ 1 \in DOMAIN u /\ u[1] = Head(u)
      /\ \A i \in DOMAIN v : i \in Nat /\ i > 0 /\ i + 1 \in DOMAIN u /\ v[i] = u[i + 1]
      /\ \A i \in DOMAIN u : /\ i \in Nat /\ i > 0
                             /\ i # 1 => i - 1 \in DOMAIN v /\ v[i - 1] = u[i]
  BY <1>0, OneLess
<1>2. u[1] \in UpMessages BY <1>1
<1>3. \A e : \A i \in DOMAIN v : Input(v, i, e) <=> Input(u, i + 1, e) BY <1>1 DEF Input
<1>4. \A e, w : \A i \in DOMAIN v : Says(v, i, e, w) <=> Says(u, i + 1, e, w)
  BY <1>1, <1>3 DEF Says
<1>5. \A e, w : \A i \in DOMAIN u : i # 1 => (Says(v, i - 1, e, w) <=> Says(u, i, e, w))
  BY <1>1 DEF Says, Input
<1>6. \A e : GivesUp(u, e) /\ ~Says(u, 1, e, "release-control") => GivesUp(v, e)
  BY <1>1, <1>5 DEF GivesUp
<1>7. Leaves(u) /\ ~(u[1].type = "view" /\ u[1].mode # "expanded") => Leaves(v)
  BY <1>1 DEF Leaves
<1> QED BY <1>1, <1>2, <1>3, <1>4, <1>5, <1>6, <1>7

NextAfter(t, u, n) ==
  \/ n = t.next /\ ~Input(u, 1, t.epoch)
  \/ n = t.next + 1 /\ Input(u, 1, t.epoch)

\* The inputs that are left follow the next that the daemon expects.
LEMMA SequenceLess ==
  ASSUME NEW c, NEW t, NEW u, NEW d, LinkIInv(c, t, u, d), t.active = TRUE, NEW v, Drops(u, v),
         ~Says(u, 1, t.epoch, "release-control"), NEW n \in Nat,
         NextAfter(t, u, n)
  PROVE  /\ \A i \in DOMAIN v : Input(v, i, t.epoch) =>
              \/ \E j \in 1..(i - 1) : Says(v, j, t.epoch, "release-control")
              \/ v[i].seq = n + Cardinality(Ahead(v, i, t.epoch))
         /\ \/ GivesUp(v, t.epoch)
            \/ /\ c.authority = t.epoch =>
                    c.seq + 1 = n + Cardinality(Ahead(v, Len(v) + 1, t.epoch))
               /\ \/ c.offered = t.epoch /\ c.authority # t.epoch
                  \/ \E i \in DOMAIN d : Grants(d, i, t.epoch)
                  => n = 1 /\ \A i \in DOMAIN v : ~Input(v, i, t.epoch)
<1> DEFINE e == t.epoch
<1>0. SequenceFits(c, t, u, d) /\ u \in Seq(UpMessages) /\ LinkTyped(c, t, u, d)
  BY DEF LinkIInv, LinkTyped
<1>1. /\ 1 \in DOMAIN u
      /\ Len(v) \in Nat /\ Len(u) = Len(v) + 1 /\ DOMAIN v = 1..Len(v) /\ DOMAIN u = 1..Len(u)
      /\ \A i \in DOMAIN v : i \in Nat /\ i > 0 /\ i + 1 \in DOMAIN u /\ v[i] = u[i + 1]
      /\ \A i \in DOMAIN v : Input(v, i, e) <=> Input(u, i + 1, e)
      /\ \A i \in DOMAIN u : i # 1 =>
           (Says(v, i - 1, e, "release-control") <=> Says(u, i, e, "release-control"))
      /\ GivesUp(u, e) => GivesUp(v, e)
  BY <1>0, SaysLess
<1>2. t.next \in Nat /\ c.seq \in Nat BY <1>0, LinkTypes
<1>3. ASSUME NEW i \in 1..(Len(v) + 1)
      PROVE  t.next + Cardinality(Ahead(u, i + 1, e)) = n + Cardinality(Ahead(v, i, e))
  <2>1. u # <<>> /\ v = Tail(u) BY DEF Drops
  <2>2. /\ Input(u, 1, e) => Cardinality(Ahead(u, i + 1, e)) = Cardinality(Ahead(v, i, e)) + 1
        /\ ~Input(u, 1, e) => Cardinality(Ahead(u, i + 1, e)) = Cardinality(Ahead(v, i, e))
    <3> HIDE DEF UpMessages, e
    <3> QED BY <1>0, <2>1, AheadLess
  <2>3. i \in Nat BY <1>1
  <2>4. Cardinality(Ahead(v, i, e)) \in Nat BY <2>3, AheadFinite
  <2> QED BY <1>2, <2>2, <2>4 DEF NextAfter
<1>4. ASSUME NEW i \in DOMAIN v, Input(v, i, e)
      PROVE  \/ \E j \in 1..(i - 1) : Says(v, j, e, "release-control")
             \/ v[i].seq = n + Cardinality(Ahead(v, i, e))
  <2>1. i \in 1..(Len(v) + 1) /\ i \in Nat BY <1>1
  <2>2. i + 1 \in DOMAIN u /\ Input(u, i + 1, e) /\ v[i] = u[i + 1] BY <1>1, <1>4
  <2>3. PICK k \in DOMAIN u : k = i + 1 BY <2>2
  <2>4. CASE u[k].seq = t.next + Cardinality(Ahead(u, k, e))
    <3>1. t.next + Cardinality(Ahead(u, k, e)) = n + Cardinality(Ahead(v, i, e)) BY <1>3, <2>1, <2>3
    <3> QED BY <2>2, <2>3, <2>4, <3>1
  <2>5. CASE \E j \in 1..(k - 1) : Says(u, j, e, "release-control")
    <3>1. PICK j \in 1..(k - 1) : Says(u, j, e, "release-control") BY <2>5
    <3>2. j # 1 BY <3>1
    <3>3. j \in DOMAIN u /\ j - 1 \in 1..(i - 1) BY <1>1, <2>1, <2>2, <2>3, <3>2
    <3> QED BY <1>1, <3>1, <3>2, <3>3
  <2>6. Input(u, k, e) BY <2>2, <2>3
  <2> QED BY <1>0, <2>4, <2>5, <2>6 DEF SequenceFits
<1>5. ASSUME ~GivesUp(v, e)
      PROVE  /\ c.authority = e => c.seq + 1 = n + Cardinality(Ahead(v, Len(v) + 1, e))
             /\ \/ c.offered = e /\ c.authority # e
                \/ \E i \in DOMAIN d : Grants(d, i, e)
                => n = 1 /\ \A i \in DOMAIN v : ~Input(v, i, e)
  <2>1. /\ c.authority = e => c.seq + 1 = t.next + Cardinality(Ahead(u, Len(u) + 1, e))
        /\ \/ c.offered = e /\ c.authority # e
           \/ \E i \in DOMAIN d : Grants(d, i, e)
           => t.next = 1 /\ \A i \in DOMAIN u : ~Input(u, i, e)
    BY <1>0, <1>1, <1>5 DEF SequenceFits
  <2>2. Len(v) + 1 \in 1..(Len(v) + 1) /\ Len(u) + 1 = (Len(v) + 1) + 1 BY <1>1
  <2>3. t.next + Cardinality(Ahead(u, Len(u) + 1, e)) = n + Cardinality(Ahead(v, Len(v) + 1, e))
    BY <1>3, <2>2
  <2>4. ASSUME \/ c.offered = e /\ c.authority # e
               \/ \E i \in DOMAIN d : Grants(d, i, e)
        PROVE  n = 1 /\ \A i \in DOMAIN v : ~Input(v, i, e)
    BY <1>1, <2>1, <2>4 DEF NextAfter
  <2> QED BY <2>1, <2>3, <2>4
<1> QED BY <1>4, <1>5

\* What lets go of a button is not the message that is taken.
LEMMA LetsGoLess ==
  ASSUME NEW c, NEW t, NEW u \in Seq(UpMessages), NEW d, NEW v, Drops(u, v), NEW i \in Nat,
         LetsGo(c, t, u, d, i), ~Says(u, 1, t.epoch, "release-control"),
         ~(u[1].type = "view" /\ u[1].mode # "expanded"), NEW k \in Nat,
         k + 1 = i \/ (k = 0 /\ i = 0 /\ ~Says(u, 1, t.epoch, "release"))
  PROVE  LetsGo(c, t, v, d, k)
<1>1. /\ \A j \in DOMAIN u : j \in Nat /\ j > 0 /\ (j # 1 => j - 1 \in DOMAIN v)
      /\ \A w : \A j \in DOMAIN u : j # 1 => (Says(v, j - 1, t.epoch, w) <=> Says(u, j, t.epoch, w))
      /\ GivesUp(u, t.epoch) => GivesUp(v, t.epoch)
      /\ Leaves(u) => Leaves(v)
  BY SaysLess
<1>2. CASE \E j \in DOMAIN u : i < j /\ Says(u, j, t.epoch, "release")
  <2>1. PICK j \in DOMAIN u : i < j /\ Says(u, j, t.epoch, "release") BY <1>2
  <2>2. j \in Nat /\ j > 0 BY <1>1
  <2>3. j # 1 BY <2>1, <2>2
  <2>4. j - 1 \in DOMAIN v /\ Says(v, j - 1, t.epoch, "release") BY <1>1, <2>1, <2>3
  <2>5. k < j - 1 BY <2>1, <2>2, <2>3
  <2> QED BY <2>4, <2>5 DEF LetsGo
<1>3. CASE ~\E j \in DOMAIN u : i < j /\ Says(u, j, t.epoch, "release")
  BY <1>1, <1>3 DEF LetsGo
<1> QED BY <1>2, <1>3

\* A message is taken without a word under control: the answer to it is told, or the end.
LEMMA TakenFits ==
  ASSUME NEW c, NEW t, NEW u, NEW d, LinkIInv(c, t, u, d), NEW v, Drops(u, v),
         \/ c.releasing = 0 \/ GivesUp(v, c.releasing) \/ IsOver(d)
         \/ \E i \in DOMAIN d : Withdraws(d, i, c.releasing),
         t.active = FALSE \/ (u[1].type = "view" /\ u[1].mode = "expanded")
  PROVE  LinkIInv(c, t, v, d)
<1>0. /\ LinkTyped(c, t, u, d) /\ LinkFits(c, t, u, d) /\ SessionFits(t)
      /\ EpochsInOrder(c, t, u, d) /\ KnownAreBacked(c, t, u, d) /\ GrantsAreNews(c, t, u, d)
      /\ SequenceFits(c, t, u, d) /\ ButtonsFit(c, t, u, d) /\ u \in Seq(UpMessages)
  BY DEF LinkIInv, LinkTyped
<1>1. /\ v \in Seq(UpMessages) /\ 1 \in DOMAIN u
      /\ \A i \in DOMAIN v : i \in Nat /\ i > 0 /\ i + 1 \in DOMAIN u /\ v[i] = u[i + 1]
      /\ \A e : \A i \in DOMAIN v : Input(v, i, e) <=> Input(u, i + 1, e)
      /\ \A e, w : \A i \in DOMAIN v : Says(v, i, e, w) <=> Says(u, i + 1, e, w)
  BY <1>0, SaysLess
<1>2. u # <<>> BY DEF Drops
<1>3. LinkTyped(c, t, v, d) BY <1>0, <1>1 DEF LinkTyped
<1>4. LinkFits(c, t, v, d) BY <1>0, <1>2 DEF LinkFits
<1>5. EpochsInOrder(c, t, v, d) BY <1>0, <1>1 DEF EpochsInOrder
<1>6. KnownAreBacked(c, t, v, d) BY <1>0 DEF KnownAreBacked
<1>7. GrantsAreNews(c, t, v, d) BY <1>0, <1>1 DEF GrantsAreNews, Unknown
<1>8. CASE t.active = FALSE
  <2>1. SequenceFits(c, t, v, d) /\ ButtonsFit(c, t, v, d) BY <1>8 DEF SequenceFits, ButtonsFit
  <2> QED BY <1>0, <1>3, <1>4, <1>5, <1>6, <1>7, <2>1 DEF LinkIInv
<1>9. CASE t.active = TRUE /\ u[1].type = "view" /\ u[1].mode = "expanded"
  <2>1. ~Input(u, 1, t.epoch) /\ \A w : ~Says(u, 1, t.epoch, w) BY <1>9 DEF Says, Input
  <2>2. t.next \in Nat BY <1>0, LinkTypes
  <2>3. SequenceFits(c, t, v, d)
    <3>1. PICK n \in Nat : n = t.next BY <2>2
    <3>2. /\ t.active = TRUE /\ NextAfter(t, u, n) /\ ~Says(u, 1, t.epoch, "release-control")
      BY <1>9, <2>1, <3>1 DEF NextAfter
    <3>3. /\ \A i \in DOMAIN v : Input(v, i, t.epoch) =>
               \/ \E j \in 1..(i - 1) : Says(v, j, t.epoch, "release-control")
               \/ v[i].seq = n + Cardinality(Ahead(v, i, t.epoch))
          /\ \/ GivesUp(v, t.epoch)
             \/ /\ c.authority = t.epoch =>
                     c.seq + 1 = n + Cardinality(Ahead(v, Len(v) + 1, t.epoch))
                /\ \/ c.offered = t.epoch /\ c.authority # t.epoch
                   \/ \E i \in DOMAIN d : Grants(d, i, t.epoch)
                   => n = 1 /\ \A i \in DOMAIN v : ~Input(v, i, t.epoch)
      BY <3>2, SequenceLess
    <3> QED BY <3>1, <3>3 DEF SequenceFits
  <2>4. ButtonsFit(c, t, v, d)
    <3>0. ~(u[1].type = "view" /\ u[1].mode # "expanded") BY <1>9
    <3>1. "button" \in t.held => LetsGo(c, t, v, d, 0)
      BY <1>0, <1>9, <2>1, <3>0, LetsGoLess DEF ButtonsFit
    <3>2. ASSUME NEW i \in DOMAIN v, Says(v, i, t.epoch, "press") PROVE LetsGo(c, t, v, d, i)
      <4>1. i \in Nat /\ i + 1 \in Nat /\ i + 1 \in DOMAIN u /\ Says(u, i + 1, t.epoch, "press")
        BY <1>1, <3>2
      <4>2. LetsGo(c, t, u, d, i + 1) BY <1>0, <1>9, <4>1 DEF ButtonsFit
      <4> QED BY <1>0, <2>1, <3>0, <4>1, <4>2, LetsGoLess
    <3> QED BY <3>1, <3>2 DEF ButtonsFit
  <2> QED BY <1>0, <1>3, <1>4, <1>5, <1>6, <1>7, <2>3, <2>4 DEF LinkIInv
<1>10. t.active \in BOOLEAN BY <1>0 DEF LinkTyped, Sessions
<1> QED BY <1>8, <1>9, <1>10

\* Input that is taken under the session's control.
Accepts(t, t2, what) ==
  /\ t2 \in Sessions /\ t2.next = t.next + 1 /\ t2.epoch = t.epoch /\ t2.active = t.active
  /\ t2.open = t.open /\ t2.mode = t.mode /\ t2.last = t.last
  /\ "button" \in t2.held => what = "press" \/ ("button" \in t.held /\ what # "release")

\* The daemon takes an input under control: the next number is expected.
LEMMA AcceptFits ==
  ASSUME NEW c, NEW t, NEW u, NEW d, LinkIInv(c, t, u, d), NEW v, Drops(u, v), t.active = TRUE,
         Input(u, 1, t.epoch), u[1].what # "release-control", NEW t2, Accepts(t, t2, u[1].what)
  PROVE  LinkIInv(c, t2, v, d)
<1>0. /\ LinkTyped(c, t, u, d) /\ LinkFits(c, t, u, d) /\ SessionFits(t)
      /\ EpochsInOrder(c, t, u, d) /\ KnownAreBacked(c, t, u, d) /\ GrantsAreNews(c, t, u, d)
      /\ SequenceFits(c, t, u, d) /\ ButtonsFit(c, t, u, d) /\ u \in Seq(UpMessages)
  BY DEF LinkIInv, LinkTyped
<1>1. /\ v \in Seq(UpMessages) /\ 1 \in DOMAIN u
      /\ \A i \in DOMAIN v : i \in Nat /\ i > 0 /\ i + 1 \in DOMAIN u /\ v[i] = u[i + 1]
      /\ \A e, w : \A i \in DOMAIN v : Says(v, i, e, w) <=> Says(u, i + 1, e, w)
      /\ \A e : GivesUp(u, e) /\ ~Says(u, 1, e, "release-control") => GivesUp(v, e)
  BY <1>0, SaysLess
<1>2. u # <<>> BY DEF Drops
<1>3. \A e : ~Says(u, 1, e, "release-control") BY DEF Says
<1>4. t.next \in Nat BY <1>0, LinkTypes
<1>5. /\ t2 \in Sessions /\ t2.next = t.next + 1 /\ t2.epoch = t.epoch /\ t2.active = TRUE
      /\ t2.open = t.open /\ t2.mode = t.mode /\ t2.last = t.last
  BY DEF Accepts
<1>6. LinkTyped(c, t2, v, d) BY <1>0, <1>1, <1>5 DEF LinkTyped
<1>7. LinkFits(c, t2, v, d) BY <1>0, <1>2, <1>5 DEF LinkFits
<1>8. SessionFits(t2) BY <1>0, <1>5 DEF SessionFits
<1>9. EpochsInOrder(c, t2, v, d) BY <1>0, <1>1, <1>5 DEF EpochsInOrder
<1>10. \A e : Backed(t, d, e) => Backed(t2, d, e) BY <1>5 DEF Backed
<1>11. KnownAreBacked(c, t2, v, d) BY <1>0, <1>1, <1>3, <1>10 DEF KnownAreBacked
<1>12. GrantsAreNews(c, t2, v, d) BY <1>0, <1>5 DEF GrantsAreNews
<1>13. SequenceFits(c, t2, v, d)
  <2>1. PICK n \in Nat : n = t.next + 1 BY <1>4
  <2>2. NextAfter(t, u, n) /\ ~Says(u, 1, t.epoch, "release-control")
    BY <1>3, <2>1 DEF NextAfter
  <2>3. /\ \A i \in DOMAIN v : Input(v, i, t.epoch) =>
             \/ \E j \in 1..(i - 1) : Says(v, j, t.epoch, "release-control")
             \/ v[i].seq = n + Cardinality(Ahead(v, i, t.epoch))
        /\ \/ GivesUp(v, t.epoch)
           \/ /\ c.authority = t.epoch =>
                   c.seq + 1 = n + Cardinality(Ahead(v, Len(v) + 1, t.epoch))
              /\ \/ c.offered = t.epoch /\ c.authority # t.epoch
                 \/ \E i \in DOMAIN d : Grants(d, i, t.epoch)
                 => n = 1 /\ \A i \in DOMAIN v : ~Input(v, i, t.epoch)
    BY <2>2, SequenceLess
  <2>4. t2.next = n BY <1>5, <2>1
  <2> QED BY <1>5, <2>3, <2>4 DEF SequenceFits
<1>14. ButtonsFit(c, t2, v, d)
  <2>0. ~(u[1].type = "view" /\ u[1].mode # "expanded") BY DEF Input
  <2>1. \A i : LetsGo(c, t, v, d, i) => LetsGo(c, t2, v, d, i) BY <1>5 DEF LetsGo
  <2>2. 0 \in Nat /\ 1 \in Nat /\ 0 + 1 = 1 OBVIOUS
  <2>3. "button" \in t2.held => LetsGo(c, t, v, d, 0)
    <3>1. CASE u[1].what = "press"
      <4>1. Says(u, 1, t.epoch, "press") BY <3>1 DEF Says
      <4>2. LetsGo(c, t, u, d, 1) BY <1>0, <1>1, <4>1 DEF ButtonsFit
      <4> QED BY <1>0, <1>3, <2>0, <2>2, <4>2, LetsGoLess
    <3>2. CASE "button" \in t.held /\ u[1].what # "release"
      <4>1. LetsGo(c, t, u, d, 0) BY <1>0, <3>2 DEF ButtonsFit
      <4>2. ~Says(u, 1, t.epoch, "release") BY <3>2 DEF Says
      <4> QED BY <1>0, <1>3, <2>0, <2>2, <4>1, <4>2, LetsGoLess
    <3> QED BY <3>1, <3>2 DEF Accepts
  <2>4. ASSUME NEW i \in DOMAIN v, Says(v, i, t.epoch, "press") PROVE LetsGo(c, t, v, d, i)
    <3>1. i \in Nat /\ i + 1 \in Nat /\ i + 1 \in DOMAIN u /\ Says(u, i + 1, t.epoch, "press")
      BY <1>1, <2>4
    <3>2. LetsGo(c, t, u, d, i + 1) BY <1>0, <3>1 DEF ButtonsFit
    <3> QED BY <1>0, <1>3, <2>0, <3>1, <3>2, LetsGoLess
  <2> QED BY <1>5, <2>1, <2>3, <2>4 DEF ButtonsFit
<1> QED BY <1>6, <1>7, <1>8, <1>9, <1>11, <1>12, <1>13, <1>14 DEF LinkIInv

\* One message after the others.
LEMMA OneAfter ==
  ASSUME NEW S, NEW q \in Seq(S), NEW m \in S
  PROVE  q \o <<m>> = Append(q, m)
OBVIOUS

\* Nothing after the others.
LEMMA NoneAfter ==
  ASSUME NEW S, NEW q \in Seq(S)
  PROVE  q \o <<>> = q
OBVIOUS

\* What answers the page's mode stays under way when more is told.
LEMMA StaysTold ==
  ASSUME NEW c, NEW u, NEW d, NEW b, IsAsked(c, u, d), Follows(d, b)
  PROVE  IsAsked(c, u, b)
<1>1. CASE \E i \in DOMAIN d : d[i].type = "view-state" /\ d[i].mode = c.desired
  <2>1. PICK i \in DOMAIN d : d[i].type = "view-state" /\ d[i].mode = c.desired BY <1>1
  <2>2. i \in DOMAIN b /\ b[i] = d[i] BY DEF Follows
  <2> QED BY <2>1, <2>2 DEF IsAsked
<1>2. CASE IsOver(d)
  <2>1. PICK i \in DOMAIN d : d[i].type \in {"failure", "closed"} BY <1>2 DEF IsOver
  <2>2. i \in DOMAIN b /\ b[i] = d[i] BY DEF Follows
  <2> QED BY <2>1, <2>2 DEF IsAsked, IsOver
<1>3. CASE \E i \in DOMAIN u : u[i].type = "view" /\ u[i].mode = c.desired BY <1>3 DEF IsAsked
<1> QED BY <1>1, <1>2, <1>3 DEF IsAsked

\* What the page is told when control is revoked, if there was any.
RevokedThen(t, d, b) == b = d \o TellRevoked(t)

\* Control that is revoked is told to the page, and nothing else changes for it.
LEMMA TellsRevoked ==
  ASSUME NEW c, NEW t, NEW u, NEW d, LinkIInv(c, t, u, d), NEW t2, Revokes(t, t2),
         NEW b, RevokedThen(t, d, b)
  PROVE  /\ LinkIInv(c, t2, u, b) /\ b \in Seq(DownMessages) /\ Follows(d, b)
         /\ t.epoch # 0 => \E i \in DOMAIN b : Withdraws(b, i, t.epoch)
<1>1. d \in Seq(DownMessages) /\ t \in Sessions BY DEF LinkIInv, LinkTyped
<1>2. CASE t.epoch = 0
  <2>1. b = d
    <3>1. b = d \o <<>> BY <1>2 DEF RevokedThen, TellRevoked, NoEpoch
    <3> HIDE DEF DownMessages
    <3> QED BY <1>1, <3>1, NoneAfter
  <2>2. t.active = FALSE /\ t.held = {} BY <1>2, Uncontrolled
  <2>3. /\ t2 \in Sessions /\ t2.open = t.open /\ t2.epoch = t.epoch /\ t2.active = t.active
        /\ t2.held = t.held /\ t2.last = t.last /\ t.active = FALSE
    BY <1>2, <2>2 DEF Revokes
  <2>4. LinkIInv(c, t2, u, d) BY <1>2, <2>3, ModeFits
  <2> QED BY <1>1, <1>2, <2>1, <2>4 DEF Follows
<1>3. CASE t.epoch # 0
  <2> DEFINE m == Authority(FALSE, t.epoch)
  <2>1. t.epoch \in Nat BY <1>1 DEF Sessions
  <2>2. m \in DownMessages BY <2>1 DEF DownMessages, Authority
  <2>3. Sent(d, b, m)
    <3>1. b = d \o <<m>> BY <1>3 DEF RevokedThen, TellRevoked, NoEpoch
    <3> HIDE DEF DownMessages, m
    <3> QED BY <1>1, <2>2, <3>1, OneAfter DEF Sent
  <2>4. /\ LinkIInv(c, t2, u, b)
        /\ \E i \in DOMAIN b : Withdraws(b, i, t.epoch)
    BY <1>3, <2>3, RevokeFits
  <2>5. b \in Seq(DownMessages) /\ Follows(d, b)
    <3> HIDE DEF m
    <3> QED BY <1>1, <2>2, <2>3, TellsMore DEF Follows
  <2> QED BY <2>4, <2>5
<1> QED BY <1>2, <1>3

\* Session t is revoked.
LEMMA RevokedFits ==
  ASSUME NEW t \in Sessions
  PROVE  Revokes(t, Revoked(t))
<1>1. PICK r : r = Revoked(t) OBVIOUS
<1>2. 0 \in Nat /\ FALSE \in BOOLEAN /\ {} \in SUBSET Buttons OBVIOUS
<1>3. r = [t EXCEPT !.epoch = 0, !.active = FALSE, !.held = {}] BY <1>1 DEF Revoked, NoEpoch
<1>4. /\ r \in Sessions /\ r.epoch = 0 /\ r.active = FALSE /\ r.held = {}
      /\ r.open = t.open /\ r.mode = t.mode /\ r.last = t.last
  <2> HIDE DEF ViewModes, Buttons
  <2> QED BY <1>2, <1>3 DEF Sessions
<1> QED BY <1>1, <1>4 DEF Revokes

\* #close: the page is told that its control ends, the messages, and that the socket is closed.
EndsAfter(t, d, messages, b) ==
  b = d \o TellRevoked(t) \o messages \o <<[type |-> "closed"]>>

\* A session that ends tells so, after all it told before.
LEMMA EndsFits ==
  ASSUME NEW c, NEW t, NEW u, NEW d, LinkIInv(c, t, u, d), c.phase = "open",
         NEW messages, messages = <<>> \/ messages = <<[type |-> "failure"]>>,
         NEW b, EndsAfter(t, d, messages, b), NEW t2, t2 = [NoConnection EXCEPT !.last = t.last]
  PROVE  LinkIInv(c, t2, u, b) /\ IsOver(b) /\ t2.active = FALSE
<1>1. t \in Sessions /\ t.last \in Nat BY DEF LinkIInv, LinkTyped, Sessions
<1>2. PICK r : r = Revoked(t) OBVIOUS
<1>3. Revokes(t, r) BY <1>1, <1>2, RevokedFits
<1>4. PICK d1 : RevokedThen(t, d, d1) BY DEF RevokedThen
<1>5. LinkIInv(c, r, u, d1) /\ d1 \in Seq(DownMessages) BY <1>3, <1>4, TellsRevoked
<1>6. PICK d2 : d2 = d1 \o messages OBVIOUS
<1>7. LinkIInv(c, r, u, d2) /\ d2 \in Seq(DownMessages)
  <2>1. CASE messages = <<>>
    <3>1. d2 = d1
      <4> HIDE DEF DownMessages
      <4> QED BY <1>5, <1>6, <2>1, NoneAfter
    <3> QED BY <1>5, <3>1
  <2>2. CASE messages = <<[type |-> "failure"]>>
    <3>1. PICK m \in DownMessages : m = [type |-> "failure"] BY DEF DownMessages
    <3>2. m.type # "authority" BY <3>1
    <3>3. Sent(d1, d2, m)
      <4> HIDE DEF DownMessages
      <4> QED BY <1>5, <1>6, <2>2, <3>1, OneAfter DEF Sent
    <3>4. LinkIInv(c, r, u, d2) BY <1>5, <3>2, <3>3, TellFits
    <3> QED BY <3>4 DEF LinkIInv, LinkTyped
  <2> QED BY <2>1, <2>2
<1>8. PICK m \in DownMessages : m = [type |-> "closed"] BY DEF DownMessages
<1>9. m.type = "closed" BY <1>8
<1>10. Sent(d2, b, m)
  <2>1. b = d2 \o <<m>> BY <1>4, <1>6, <1>8 DEF EndsAfter, RevokedThen
  <2> HIDE DEF DownMessages
  <2> QED BY <1>7, <2>1, OneAfter DEF Sent
<1>11. LinkIInv(c, r, u, b) BY <1>9, <1>7, <1>10, TellFits
<1>12. IsOver(b) /\ \E i \in DOMAIN b : b[i].type = "closed"
  BY <1>7, <1>9, <1>10, TellsMore
<1>13. t2 \in Sessions /\ t2.open = FALSE /\ t2.epoch = 0 /\ t2.active = FALSE /\ t2.held = {}
  BY <1>1, NoSessionFits
<1>14. t2.last = t.last BY <1>1 DEF NoConnection
<1>15. LinkIInv(c, t2, u, b) BY <1>3, <1>14, <1>11, <1>12, <1>13, EndFits DEF Revokes
<1> QED BY <1>12, <1>13, <1>15

\* What a step of the daemon must keep, when it leaves the page alone.
LEMMA SessionKeeps ==
  ASSUME WebIInv, NEW t, NEW u, NEW d, LinkIInv(conn, t, u, d),
         session' = t, up' = u, down' = d, conn' = conn,
         IsAsked(conn, up, down) => IsAsked(conn, u, d),
         panel' = panel \/ panel' = Moved(panel)
  PROVE  WebIInv'
<1>1. panel \in Panels /\ PanelFits(panel, conn) /\ WaitEnds(panel, conn, up, down) BY DEF WebIInv
<1>2. /\ panel' \in Panels /\ panel'.expanded = panel.expanded /\ panel'.window = panel.window
      /\ panel'.bound = panel.bound /\ panel'.attempt = panel.attempt
  BY <1>1, MovedTyped
<1>3. PanelFits(panel', conn) BY <1>1, <1>2 DEF PanelFits
<1>4. WaitEnds(panel', conn, u, d) BY <1>1, <1>2 DEF WaitEnds, Suspended
<1>5. LinkIInv(conn', session', up', down') /\ PanelFits(panel', conn')
      /\ WaitEnds(panel', conn', up', down')
  BY <1>3, <1>4
<1> QED BY <1>2, <1>5 DEF WebIInv

\* While the session is open or something is sent, the socket is open.
LEMMA SocketIsOpen ==
  ASSUME WebIInv, session.open = TRUE \/ up # <<>>
  PROVE  conn.phase = "open"
BY DEF WebIInv, LinkIInv, LinkFits

\* Control that is taken away is told.
LEMMA ControlIsTakenKeeps == ASSUME WebIInv, ControlIsTaken PROVE WebIInv'
<1>1. LinkIInv(conn, session, up, down) /\ session \in Sessions
  BY DEF WebIInv, LinkIInv, LinkTyped
<1>2. Revokes(session, Revoked(session)) BY <1>1, RevokedFits
<1>3. PICK t : t = Revoked(session) OBVIOUS
<1>4. PICK d : RevokedThen(session, down, d) BY DEF RevokedThen
<1>5. LinkIInv(conn, t, up, d) /\ Follows(down, d) BY <1>2, <1>3, <1>1, <1>4, TellsRevoked
<1>6. session' = t /\ down' = d /\ panel' = Moved(panel) /\ conn' = conn /\ up' = up
  BY <1>3, <1>4 DEF ControlIsTaken, RevokedThen
<1>7. IsAsked(conn, up, down) => IsAsked(conn, up, d) BY <1>5, StaysTold
<1> QED BY <1>5, <1>6, <1>7, SessionKeeps

\* A session that fails tells why before the socket closes.
LEMMA SessionFailsKeeps == ASSUME WebIInv, SessionFails PROVE WebIInv'
<1>1. LinkIInv(conn, session, up, down) /\ session \in Sessions
  BY DEF WebIInv, LinkIInv, LinkTyped
<1>2. conn.phase = "open" BY <1>1, SocketIsOpen DEF SessionFails, Sessions
<1>3. PICK messages : messages = <<[type |-> "failure"]>> OBVIOUS
<1>4. PICK d : EndsAfter(session, down, messages, d) BY DEF EndsAfter
<1>5. PICK t : t = [NoConnection EXCEPT !.last = session.last] OBVIOUS
<1>6. LinkIInv(conn, t, up, d) /\ IsOver(d) BY <1>1, <1>2, <1>3, <1>4, <1>5, EndsFits
<1>7. session' = t /\ down' = d /\ panel' = Moved(panel) /\ conn' = conn /\ up' = up
  BY <1>3, <1>4, <1>5 DEF SessionFails, Ends, EndsAfter
<1>8. IsAsked(conn, up, d) BY <1>6 DEF IsAsked
<1> QED BY <1>6, <1>7, <1>8, SessionKeeps

\* A claim that is answered is told.
LEMMA ClaimIsAnsweredKeeps == ASSUME WebIInv, ClaimIsAnswered PROVE WebIInv'
<1>1. /\ LinkIInv(conn, session, up, down) /\ session \in Sessions /\ down \in Seq(DownMessages)
      /\ session.epoch \in Nat
  BY DEF WebIInv, LinkIInv, LinkTyped, Sessions
<1>2. session.open = TRUE /\ session.epoch # 0 /\ session.active = FALSE
  BY <1>1 DEF ClaimIsAnswered, NoEpoch, Sessions
<1>3. PICK t : t = [session EXCEPT !.active = TRUE] OBVIOUS
<1>4. Answers(session, t) BY <1>1, <1>3 DEF Answers, Sessions
<1>5. PICK d : Sent(down, d, Authority(TRUE, session.epoch)) BY DEF Sent
<1>6. LinkIInv(conn, t, up, d) BY <1>1, <1>2, <1>4, <1>5, AnswerFits
<1>7. session' = t /\ down' = d /\ panel' = panel /\ conn' = conn /\ up' = up
  BY <1>2, <1>3, <1>5 DEF ClaimIsAnswered, Told, Sent
<1>8. Follows(down, d)
  <2>1. PICK m \in DownMessages : m = Authority(TRUE, session.epoch)
    BY <1>1 DEF Authority, DownMessages
  <2>2. Sent(down, d, m) BY <1>5, <2>1
  <2> QED BY <1>1, <2>2, TellsMore DEF Follows
<1>9. IsAsked(conn, up, down) => IsAsked(conn, up, d) BY <1>8, StaysTold
<1> QED BY <1>6, <1>7, <1>9, SessionKeeps

\* The page's mode is asked for after the first message is taken, or that was it.
LEMMA AskedLess ==
  ASSUME NEW c, NEW u \in Seq(UpMessages), NEW d, NEW v, Drops(u, v), IsAsked(c, u, d)
  PROVE  IsAsked(c, v, d) \/ (u[1].type = "view" /\ u[1].mode = c.desired)
<1>1. \A i \in DOMAIN u : i # 1 => i - 1 \in DOMAIN v /\ v[i - 1] = u[i] BY SaysLess
<1>2. CASE \E i \in DOMAIN u : u[i].type = "view" /\ u[i].mode = c.desired
  <2>1. PICK i \in DOMAIN u : u[i].type = "view" /\ u[i].mode = c.desired BY <1>2
  <2> QED BY <1>1, <2>1 DEF IsAsked
<1>3. CASE ~\E i \in DOMAIN u : u[i].type = "view" /\ u[i].mode = c.desired BY <1>3 DEF IsAsked
<1> QED BY <1>2, <1>3

\* #setMode of the session, with the message that asked for it.
LEMMA SessionModeKeeps ==
  ASSUME WebIInv, up # <<>>, session.open = TRUE, Head(up).type = "view",
         SessionMode(Head(up).mode), up' = Tail(up), UNCHANGED <<panel, conn>>
  PROVE  WebIInv'
<1>0. /\ LinkIInv(conn, session, up, down) /\ session \in Sessions /\ down \in Seq(DownMessages)
      /\ up \in Seq(UpMessages) /\ SessionFits(session)
  BY DEF WebIInv, LinkIInv, LinkTyped
<1>1. conn.phase = "open" BY SocketIsOpen
<1>2. PICK v : Drops(up, v) BY DEF Drops
<1>3. /\ 1 \in DOMAIN up /\ up[1] = Head(up) /\ up[1] \in UpMessages
      /\ \A e : GivesUp(up, e) /\ ~Says(up, 1, e, "release-control") => GivesUp(v, e)
  BY <1>0, <1>2, SaysLess
<1>4. PICK mode : mode = Head(up).mode OBVIOUS
<1>5. mode \in ViewModes /\ up[1].type = "view" /\ up[1].mode = mode
  BY <1>3, <1>4 DEF UpMessages
<1> DEFINE leaves == session.mode = "expanded" /\ mode # "expanded"
<1>6. PICK t : t = IF leaves THEN Revoked(session) ELSE session OBVIOUS
<1>7. PICK d1 : d1 = down \o (IF leaves THEN TellRevoked(session) ELSE <<>>) OBVIOUS
<1>8. /\ LinkIInv(conn, t, up, d1) /\ d1 \in Seq(DownMessages) /\ Follows(down, d1)
      /\ t \in Sessions /\ t.open = TRUE /\ (t.epoch = 0 \/ mode = "expanded")
  <2>1. CASE leaves
    <3>1. Revokes(session, t) BY <1>0, <1>6, <2>1, RevokedFits
    <3>2. RevokedThen(session, down, d1) BY <1>7, <2>1 DEF RevokedThen
    <3>3. LinkIInv(conn, t, up, d1) /\ d1 \in Seq(DownMessages) /\ Follows(down, d1)
      BY <1>0, <3>1, <3>2, TellsRevoked
    <3> QED BY <3>1, <3>3 DEF Revokes
  <2>2. CASE ~leaves
    <3>1. d1 = down
      <4>1. d1 = down \o <<>> BY <1>7, <2>2
      <4> HIDE DEF DownMessages
      <4> QED BY <1>0, <4>1, NoneAfter
    <3>2. t = session BY <1>6, <2>2
    <3>3. session.epoch # 0 => mode = "expanded" BY <1>0, <2>2 DEF SessionFits
    <3> QED BY <1>0, <3>1, <3>2, <3>3 DEF Follows
  <2> QED BY <2>1, <2>2
<1> DEFINE claims == mode = "expanded" /\ t.epoch = 0 /\ t.last < MaxEpochs
<1>9. PICK t3 : t3 = session' OBVIOUS
<1>10. t3 = [t EXCEPT !.mode = mode, !.epoch = IF claims THEN t.last + 1 ELSE @,
                      !.last = IF claims THEN @ + 1 ELSE @, !.next = IF claims THEN 1 ELSE @,
                      !.held = IF claims THEN {} ELSE @]
  BY <1>4, <1>6, <1>9 DEF SessionMode, NoEpoch
<1>11. t.active = TRUE => t.epoch # 0 BY <1>8 DEF LinkIInv, SessionFits
<1>12. LinkIInv(conn, t3, up, d1) /\ (t3.active = FALSE \/ mode = "expanded")
  <2>1. PICK t2 : t2 = [t EXCEPT !.mode = mode] OBVIOUS
  <2>2. /\ t2 \in Sessions /\ t2.open = t.open /\ t2.epoch = t.epoch /\ t2.active = t.active
        /\ t2.next = t.next /\ t2.held = t.held /\ t2.last = t.last /\ t2.mode = mode
    BY <1>5, <1>8, <2>1 DEF Sessions
  <2>3. LinkIInv(conn, t2, up, d1) BY <1>8, <2>2, ModeFits
  <2>4. CASE claims
    <3>1. t3 = [t EXCEPT !.mode = mode, !.epoch = t.last + 1, !.last = t.last + 1, !.next = 1,
                         !.held = {}]
      BY <1>8, <1>10, <2>4 DEF Sessions
    <3>2. t.active = FALSE BY <1>8, <2>4, Uncontrolled
    <3>3. PICK n \in Nat : n = t.last + 1 BY <1>8 DEF Sessions
    <3>4. Claims(t2, t3)
      <4>1. t3 = [t EXCEPT !.mode = mode, !.epoch = n, !.last = n, !.next = 1, !.held = {}]
        BY <3>1, <3>3
      <4>2. 1 \in Nat /\ {} \in SUBSET Buttons OBVIOUS
      <4>3. /\ t3 \in Sessions /\ t3.epoch = n /\ t3.last = n /\ t3.active = FALSE
            /\ t3.next = 1 /\ t3.held = {} /\ t3.open = TRUE /\ t3.mode = mode
        <5> HIDE DEF Buttons, ViewModes
        <5> QED BY <1>5, <1>8, <3>2, <4>1, <4>2 DEF Sessions
      <4> QED BY <2>2, <2>4, <3>3, <4>3 DEF Claims
    <3>5. t2.epoch = 0 /\ t2.open = TRUE BY <1>8, <2>2, <2>4
    <3> QED BY <2>3, <2>4, <3>4, <3>5, ClaimFits
  <2>5. CASE ~claims
    <3>1. t3 = t2 BY <1>8, <1>10, <2>1, <2>5 DEF Sessions
    <3>2. t2.active \in BOOLEAN BY <2>2 DEF Sessions
    <3> QED BY <1>8, <1>11, <2>2, <2>3, <3>1, <3>2
  <2> QED BY <2>4, <2>5
<1>13. PICK m \in DownMessages : m = ViewState(mode) BY <1>5 DEF ViewState, DownMessages
<1>14. m.type = "view-state" /\ m.mode = mode BY <1>13 DEF ViewState
<1>15. PICK d2 : Sent(d1, d2, m) BY DEF Sent
<1>16. LinkIInv(conn, t3, up, d2) BY <1>14, <1>1, <1>12, <1>15, TellFits
<1>17. down' = d2
  <2>1. down' = d1 \o <<m>> BY <1>4, <1>7, <1>13 DEF SessionMode
  <2> HIDE DEF DownMessages
  <2> QED BY <1>8, <1>15, <2>1, OneAfter DEF Sent
<1>18. Follows(down, d2) /\ \E i \in DOMAIN d2 : d2[i].type = "view-state" /\ d2[i].mode = mode
  BY <1>8, <1>15, TellsMore, <1>14 DEF Follows
<1>19. LinkIInv(conn, t3, v, d2)
  BY <1>5, <1>3, <1>16, <1>12, <1>2, TakenFits DEF Says, Input, LinkIInv, KnownAreBacked
<1>20. IsAsked(conn, up, down) => IsAsked(conn, v, d2)
  <2> SUFFICES ASSUME IsAsked(conn, up, down) PROVE IsAsked(conn, v, d2) OBVIOUS
  <2>1. IsAsked(conn, up, d2) BY <1>18, StaysTold
  <2>2. IsAsked(conn, v, d2) \/ up[1].mode = conn.desired BY <1>0, <1>2, <2>1, AskedLess
  <2> QED BY <1>5, <1>18, <2>2 DEF IsAsked
<1>21. up' = v /\ down' = d2 /\ session' = t3 /\ conn' = conn /\ panel' = panel
  BY <1>2, <1>9, <1>17 DEF Drops
<1> QED BY <1>19, <1>20, <1>21, SessionKeeps

\* A step of the daemon that took input, of which the page's mode is not a matter.
LEMMA InputStays ==
  ASSUME WebIInv, NEW v, Drops(up, v), up[1].type = "input", NEW d,
         Follows(down, d) \/ IsOver(d)
  PROVE  IsAsked(conn, up, down) => IsAsked(conn, v, d)
<1>1. up \in Seq(UpMessages) BY DEF WebIInv, LinkIInv, LinkTyped
<1> SUFFICES ASSUME IsAsked(conn, up, down) PROVE IsAsked(conn, v, d) OBVIOUS
<1>2. CASE IsOver(d) BY <1>2 DEF IsAsked
<1>3. CASE Follows(down, d)
  <2>1. IsAsked(conn, up, d) BY <1>3, StaysTold
  <2> QED BY <1>1, <2>1, AskedLess
<1> QED BY <1>2, <1>3

\* Input that the session refuses closes it.
LEMMA RefusedKeeps ==
  ASSUME WebIInv, up # <<>>, Head(up).type = "input", Ends(<<>>), up' = Tail(up),
         UNCHANGED <<panel, conn>>
  PROVE  WebIInv'
<1>0. LinkIInv(conn, session, up, down) /\ up \in Seq(UpMessages) BY DEF WebIInv, LinkIInv, LinkTyped
<1>1. conn.phase = "open" BY SocketIsOpen
<1>2. PICK v : Drops(up, v) BY DEF Drops
<1>3. up[1] = Head(up) BY <1>0, <1>2, SaysLess
<1>4. PICK messages : messages = <<>> OBVIOUS
<1>5. PICK d : EndsAfter(session, down, messages, d) BY DEF EndsAfter
<1>6. PICK t : t = [NoConnection EXCEPT !.last = session.last] OBVIOUS
<1>7. LinkIInv(conn, t, up, d) /\ IsOver(d) /\ t.active = FALSE
  BY <1>0, <1>1, <1>4, <1>5, <1>6, EndsFits
<1>8. LinkIInv(conn, t, v, d) BY <1>2, <1>7, TakenFits
<1>9. session' = t /\ down' = d /\ up' = v /\ conn' = conn /\ panel' = panel
  BY <1>2, <1>4, <1>5, <1>6 DEF Ends, EndsAfter, Drops
<1>10. IsAsked(conn, up, down) => IsAsked(conn, v, d) BY <1>7 DEF IsAsked
<1> QED BY <1>8, <1>9, <1>10, SessionKeeps

\* The session takes the control back that the page gives up, and says so.
LEMMA GivenUpKeeps ==
  ASSUME WebIInv, up # <<>>, Head(up).type = "input", Head(up).epoch = session.epoch,
         session.active, session' = Revoked(session), down' = down \o TellRevoked(session),
         up' = Tail(up), UNCHANGED <<panel, conn>>
  PROVE  WebIInv'
<1>0. /\ LinkIInv(conn, session, up, down) /\ up \in Seq(UpMessages) /\ session \in Sessions
      /\ SessionFits(session)
  BY DEF WebIInv, LinkIInv, LinkTyped
<1>1. PICK v : Drops(up, v) BY DEF Drops
<1>2. /\ up[1] = Head(up)
      /\ \A e : GivesUp(up, e) /\ ~Says(up, 1, e, "release-control") => GivesUp(v, e)
  BY <1>0, <1>1, SaysLess
<1>3. session.epoch # 0 BY <1>0 DEF Sessions, SessionFits
<1>4. PICK t : t = Revoked(session) OBVIOUS
<1>5. Revokes(session, t) BY <1>0, <1>4, RevokedFits
<1>6. PICK d : RevokedThen(session, down, d) BY DEF RevokedThen
<1>7. /\ LinkIInv(conn, t, up, d) /\ Follows(down, d)
      /\ \E i \in DOMAIN d : Withdraws(d, i, session.epoch)
  BY <1>0, <1>3, <1>5, <1>6, TellsRevoked
<1>8. LinkIInv(conn, t, v, d)
  <2>1. \/ conn.releasing = 0 \/ GivesUp(v, conn.releasing) \/ IsOver(d)
        \/ \E i \in DOMAIN d : Withdraws(d, i, conn.releasing)
    <3>1. CASE Says(up, 1, conn.releasing, "release-control")
      <4>1. conn.releasing = session.epoch BY <1>2, <3>1 DEF Says, Input
      <4> QED BY <1>7, <4>1
    <3>2. CASE ~Says(up, 1, conn.releasing, "release-control")
      BY <1>2, <1>7, <3>2 DEF LinkIInv, KnownAreBacked
    <3> QED BY <3>1, <3>2
  <2>2. t.active = FALSE BY <1>5 DEF Revokes
  <2> QED BY <1>1, <1>7, <2>1, <2>2, TakenFits
<1>9. session' = t /\ down' = d /\ up' = v /\ conn' = conn /\ panel' = panel
  BY <1>1, <1>4, <1>6 DEF RevokedThen, Drops
<1>10. IsAsked(conn, up, down) => IsAsked(conn, v, d) BY <1>1, <1>2, <1>7, InputStays
<1> QED BY <1>8, <1>9, <1>10, SessionKeeps

\* Which buttons and keys are down after input m.
LEMMA HeldTyped ==
  ASSUME session \in Sessions, NEW m, m.what \in Whats
  PROVE  /\ HeldAfter(m) \in SUBSET Buttons
         /\ "button" \in HeldAfter(m) =>
              m.what = "press" \/ ("button" \in session.held /\ m.what # "release")
<1>1. session.held \in SUBSET Buttons BY DEF Sessions
<1> QED BY <1>1 DEF HeldAfter, Buttons, Whats

\* Input that the session takes under its control.
LEMMA AcceptedKeeps ==
  ASSUME WebIInv, up # <<>>, Head(up).type = "input", Head(up).epoch = session.epoch,
         session.active, Head(up).what # "release-control",
         session' = [session EXCEPT !.next = @ + 1, !.held = HeldAfter(Head(up))],
         up' = Tail(up), UNCHANGED <<panel, conn, down>>
  PROVE  WebIInv'
<1>0. /\ LinkIInv(conn, session, up, down) /\ up \in Seq(UpMessages) /\ session \in Sessions
  BY DEF WebIInv, LinkIInv, LinkTyped
<1>1. PICK v : Drops(up, v) BY DEF Drops
<1>2. up[1] = Head(up) /\ up[1] \in UpMessages BY <1>0, <1>1, SaysLess
<1>3. up[1].what \in Whats BY <1>2 DEF UpMessages
<1>4. session.active = TRUE BY <1>0 DEF Sessions
<1>5. PICK h : h = HeldAfter(up[1]) OBVIOUS
<1>6. /\ h \in SUBSET Buttons
      /\ "button" \in h => up[1].what = "press" \/ ("button" \in session.held /\ up[1].what # "release")
  BY <1>0, <1>3, <1>5, HeldTyped
<1>7. PICK n \in Nat : n = session.next + 1 BY <1>0 DEF Sessions
<1>8. PICK t : t = [session EXCEPT !.next = n, !.held = h] OBVIOUS
<1>9. /\ t \in Sessions /\ t.next = n /\ t.held = h /\ t.epoch = session.epoch
      /\ t.active = session.active /\ t.open = session.open /\ t.mode = session.mode
      /\ t.last = session.last
  <2> HIDE DEF Buttons, ViewModes
  <2> QED BY <1>0, <1>6, <1>7, <1>8 DEF Sessions
<1>10. Accepts(session, t, up[1].what) BY <1>6, <1>7, <1>9 DEF Accepts
<1>11. Input(up, 1, session.epoch) BY <1>2 DEF Input
<1>12. LinkIInv(conn, t, v, down) BY <1>0, <1>1, <1>2, <1>4, <1>10, <1>11, AcceptFits
<1>13. session' = t /\ down' = down /\ up' = v /\ conn' = conn /\ panel' = panel
  BY <1>0, <1>1, <1>2, <1>5, <1>7, <1>8 DEF Drops, Sessions
<1>14. IsAsked(conn, up, down) => IsAsked(conn, v, down) BY <1>1, <1>2, InputStays DEF Follows
<1> QED BY <1>12, <1>13, <1>14, SessionKeeps

\* The daemon takes a message: a mode, or input that it refuses or takes.
LEMMA DaemonReceivesKeeps == ASSUME WebIInv, DaemonReceives PROVE WebIInv'
<1>0. /\ LinkIInv(conn, session, up, down) /\ up \in Seq(UpMessages) /\ session \in Sessions
      /\ LinkFits(conn, session, up, down) /\ session.open \in BOOLEAN
  BY DEF WebIInv, LinkIInv, LinkTyped, Sessions
<1>1. up # <<>> /\ up' = Tail(up) /\ UNCHANGED <<panel, conn>> BY DEF DaemonReceives
<1>2. CASE session.open = FALSE
  <2>1. UNCHANGED <<session, down>> BY <1>2 DEF DaemonReceives
  <2>2. conn.phase = "open" BY <1>1, SocketIsOpen
  <2>3. IsOver(down) BY <1>0, <1>2, <2>2 DEF LinkFits, IsOver
  <2>4. session.active = FALSE BY <1>0, <1>2, Uncontrolled DEF LinkIInv, SessionFits
  <2>5. PICK v : Drops(up, v) BY <1>1 DEF Drops
  <2>6. LinkIInv(conn, session, v, down) BY <1>0, <2>3, <2>4, <2>5, TakenFits
  <2>7. IsAsked(conn, v, down) BY <2>3 DEF IsAsked
  <2>8. session' = session /\ down' = down /\ up' = v /\ conn' = conn /\ panel' = panel
    BY <1>1, <2>1, <2>5 DEF Drops
  <2> QED BY <2>6, <2>7, <2>8, SessionKeeps
<1>3. CASE session.open = TRUE
  <2>1. \/ Head(up).type = "view" /\ SessionMode(Head(up).mode)
        \/ Head(up).type = "input" /\ TakesInput(Head(up))
    BY <1>3 DEF DaemonReceives
  <2>2. CASE Head(up).type = "view" /\ SessionMode(Head(up).mode)
    BY <1>1, <1>3, <2>2, SessionModeKeeps
  <2>3. CASE Head(up).type = "input" /\ TakesInput(Head(up))
    <3>1. CASE Refused(Head(up)) /\ Ends(<<>>) BY <1>1, <2>3, <3>1, RefusedKeeps
    <3>2. CASE /\ ~Refused(Head(up)) /\ Head(up).what = "release-control"
               /\ session' = Revoked(session) /\ down' = down \o TellRevoked(session)
      <4>1. session.active /\ Head(up).epoch = session.epoch BY <3>2 DEF Refused
      <4> QED BY <1>1, <2>3, <3>2, <4>1, GivenUpKeeps
    <3>3. CASE /\ ~Refused(Head(up)) /\ Head(up).what # "release-control"
               /\ session' = [session EXCEPT !.next = @ + 1, !.held = HeldAfter(Head(up))]
               /\ UNCHANGED down
      <4>1. session.active /\ Head(up).epoch = session.epoch BY <3>3 DEF Refused
      <4> QED BY <1>1, <2>3, <3>3, <4>1, AcceptedKeeps
    <3> QED BY <2>3, <3>1, <3>2, <3>3 DEF TakesInput
  <2> QED BY <2>1, <2>2, <2>3
<1> QED BY <1>0, <1>2, <1>3

\* The first message tells of a mode or of control.
TellsPage(d) == d[1].type \in {"view-state", "authority"}

\* What EpochsInOrder and KnownAreBacked say of the messages under way to the page alone.
GrantsBacked(t, d) ==
  \A i \in DOMAIN d : d[i].type = "authority" /\ d[i].active = TRUE => Backed(t, d, d[i].epoch)
Ordered(d) ==
  \A i, j \in DOMAIN d : i < j /\ d[i].type = "authority" /\ d[j].type = "authority" =>
    /\ d[i].epoch <= d[j].epoch
    /\ d[i].epoch = d[j].epoch => d[i].active = TRUE /\ d[j].active = FALSE
News(c, t, d) ==
  \A i \in DOMAIN d : d[i].type = "authority" =>
    /\ d[i].epoch > 0 /\ d[i].epoch <= t.last
    /\ \A k \in {c.authority, c.offered, c.releasing} :
         k <= d[i].epoch /\ (d[i].active = TRUE => k < d[i].epoch)

\* Message m about control is before those of b.
Before(m, b) ==
  \A i \in DOMAIN b : b[i].type = "authority" =>
    /\ m.epoch <= b[i].epoch
    /\ m.epoch = b[i].epoch => m.active = TRUE /\ b[i].active = FALSE

\* What is under way to the page without its first message.
LEMMA TellsLess ==
  ASSUME NEW c, NEW t, NEW u, NEW d, LinkIInv(c, t, u, d), NEW b, Drops(d, b), TellsPage(d)
  PROVE  /\ b \in Seq(DownMessages) /\ 1 \in DOMAIN d /\ d[1] = Head(d) /\ d[1] \in DownMessages
         /\ \A i \in DOMAIN b : i \in Nat /\ i > 0 /\ i + 1 \in DOMAIN d /\ b[i] = d[i + 1]
         /\ \A i \in DOMAIN d : i # 1 => i - 1 \in DOMAIN b /\ b[i - 1] = d[i]
         /\ (IsOver(d) => IsOver(b)) /\ (IsOver(b) => IsOver(d))
         /\ (\E i \in DOMAIN d : d[i].type = "closed") => \E i \in DOMAIN b : b[i].type = "closed"
         /\ \A e : \A i \in DOMAIN b : Withdraws(b, i, e) => Withdraws(d, i + 1, e)
         /\ \A e : \A i \in DOMAIN b : Grants(b, i, e) => Grants(d, i + 1, e)
         /\ \A e : Backed(t, d, e) /\ ~Withdraws(d, 1, e) => Backed(t, b, e)
         /\ GrantsBacked(t, b)
<1>0. d \in Seq(DownMessages) /\ EpochsInOrder(c, t, u, d) /\ KnownAreBacked(c, t, u, d)
  BY DEF LinkIInv, LinkTyped
<1>1. /\ b \in Seq(DownMessages) /\ 1 \in DOMAIN d /\ d[1] = Head(d) /\ d[1] \in DownMessages
      /\ \A i \in DOMAIN b : i \in Nat /\ i > 0 /\ i + 1 \in DOMAIN d /\ b[i] = d[i + 1]
      /\ \A i \in DOMAIN d : i # 1 => i - 1 \in DOMAIN b /\ b[i - 1] = d[i]
  <2> HIDE DEF DownMessages
  <2>1. d # <<>> /\ b = Tail(d) BY DEF Drops
  <2>2. /\ b \in Seq(DownMessages) /\ 1 \in DOMAIN d /\ d[1] = Head(d)
        /\ \A i \in DOMAIN b : i \in Nat /\ i > 0 /\ i + 1 \in DOMAIN d /\ b[i] = d[i + 1]
        /\ \A i \in DOMAIN d : i # 1 => i - 1 \in DOMAIN b /\ b[i - 1] = d[i]
    BY <1>0, <2>1, OneLess
  <2> QED BY <1>0, <2>2
<1>2. IsOver(d) => IsOver(b)
  <2> SUFFICES ASSUME IsOver(d) PROVE IsOver(b) OBVIOUS
  <2>1. PICK i \in DOMAIN d : d[i].type \in {"failure", "closed"} BY DEF IsOver
  <2>2. i # 1 BY <2>1 DEF TellsPage
  <2> QED BY <1>1, <2>1, <2>2 DEF IsOver
<1>3. IsOver(b) => IsOver(d) BY <1>1 DEF IsOver
<1>4. (\E i \in DOMAIN d : d[i].type = "closed") => \E i \in DOMAIN b : b[i].type = "closed"
  <2> SUFFICES ASSUME NEW i \in DOMAIN d, d[i].type = "closed"
               PROVE  \E j \in DOMAIN b : b[j].type = "closed"
    OBVIOUS
  <2>1. i # 1 BY DEF TellsPage
  <2> QED BY <1>1, <2>1
<1>5. \A e : \A i \in DOMAIN b : Withdraws(b, i, e) => Withdraws(d, i + 1, e)
  BY <1>1 DEF Withdraws
<1>6. \A e : \A i \in DOMAIN b : Grants(b, i, e) => Grants(d, i + 1, e) BY <1>1 DEF Grants
<1>7. ASSUME NEW e, Backed(t, d, e), ~Withdraws(d, 1, e) PROVE Backed(t, b, e)
  <2>1. CASE \E i \in DOMAIN d : Withdraws(d, i, e)
    <3>1. PICK i \in DOMAIN d : Withdraws(d, i, e) BY <2>1
    <3>2. i # 1 BY <1>7, <3>1
    <3>3. i - 1 \in DOMAIN b /\ Withdraws(b, i - 1, e) BY <1>1, <3>1, <3>2 DEF Withdraws
    <3> QED BY <3>3 DEF Backed
  <2>2. CASE ~\E i \in DOMAIN d : Withdraws(d, i, e) BY <1>2, <1>7, <2>2 DEF Backed
  <2> QED BY <2>1, <2>2
<1>8. ASSUME NEW i \in DOMAIN b, b[i].type = "authority", b[i].active = TRUE
      PROVE  Backed(t, b, b[i].epoch)
  <2>1. PICK k \in DOMAIN d : k = i + 1 BY <1>1
  <2>2. d[k] = b[i] /\ 1 < k BY <1>1, <2>1
  <2>3. Backed(t, d, b[i].epoch) BY <1>0, <1>8, <2>2 DEF KnownAreBacked
  <2>4. ~Withdraws(d, 1, b[i].epoch)
    <3> SUFFICES ASSUME Withdraws(d, 1, b[i].epoch) PROVE FALSE OBVIOUS
    <3>1. d[1].type = "authority" /\ d[1].epoch = d[k].epoch /\ d[1].active = FALSE
      BY <2>2 DEF Withdraws
    <3>2. d[1].active = TRUE BY <1>0, <1>1, <1>8, <2>2, <3>1 DEF EpochsInOrder
    <3> QED BY <3>1, <3>2
  <2> QED BY <1>7, <2>3, <2>4
<1> QED BY <1>1, <1>2, <1>3, <1>4, <1>5, <1>6, <1>7, <1>8 DEF GrantsBacked

\* The messages about control that follow the first.
LEMMA OrderLess ==
  ASSUME NEW c, NEW t, NEW u, NEW d, LinkIInv(c, t, u, d), NEW b, Drops(d, b), TellsPage(d)
  PROVE  Ordered(b) /\ News(c, t, b) /\ (d[1].type = "authority" => Before(d[1], b))
<1>0. EpochsInOrder(c, t, u, d) BY DEF LinkIInv
<1>1. /\ 1 \in DOMAIN d
      /\ \A i \in DOMAIN b : i \in Nat /\ i > 0 /\ i + 1 \in DOMAIN d /\ b[i] = d[i + 1]
  BY TellsLess
<1>2. ASSUME NEW i \in DOMAIN b, NEW j \in DOMAIN b, i < j, b[i].type = "authority",
             b[j].type = "authority"
      PROVE  /\ b[i].epoch <= b[j].epoch
             /\ b[i].epoch = b[j].epoch => b[i].active = TRUE /\ b[j].active = FALSE
  <2>1. PICK k \in DOMAIN d, l \in DOMAIN d : k = i + 1 /\ l = j + 1 BY <1>1
  <2>2. k < l /\ d[k] = b[i] /\ d[l] = b[j] BY <1>1, <1>2, <2>1
  <2> QED BY <1>0, <1>2, <2>2 DEF EpochsInOrder
<1>3. ASSUME NEW i \in DOMAIN b, b[i].type = "authority"
      PROVE  /\ b[i].epoch > 0 /\ b[i].epoch <= t.last
             /\ \A k \in {c.authority, c.offered, c.releasing} :
                  k <= b[i].epoch /\ (b[i].active = TRUE => k < b[i].epoch)
             /\ d[1].type = "authority" =>
                  /\ d[1].epoch <= b[i].epoch
                  /\ d[1].epoch = b[i].epoch => d[1].active = TRUE /\ b[i].active = FALSE
  <2>1. PICK k \in DOMAIN d : k = i + 1 BY <1>1
  <2>2. 1 < k /\ d[k] = b[i] BY <1>1, <2>1
  <2> QED BY <1>0, <1>1, <1>3, <2>2 DEF EpochsInOrder
<1> QED BY <1>2, <1>3 DEF Ordered, News, Before

\* The page takes a message that changes nothing of its control.
LEMMA SkipFits ==
  ASSUME NEW c, NEW t, NEW u, NEW d, LinkIInv(c, t, u, d), NEW b, Drops(d, b),
         \/ d[1].type = "view-state"
         \/ d[1].type = "authority" /\ \A e \in {c.authority, c.offered, c.releasing} : ~Withdraws(d, 1, e)
  PROVE  LinkIInv(c, t, u, b)
<1>0. /\ LinkTyped(c, t, u, d) /\ LinkFits(c, t, u, d) /\ SessionFits(t)
      /\ EpochsInOrder(c, t, u, d) /\ KnownAreBacked(c, t, u, d) /\ GrantsAreNews(c, t, u, d)
      /\ SequenceFits(c, t, u, d) /\ ButtonsFit(c, t, u, d)
  BY DEF LinkIInv
<1>1. TellsPage(d) BY DEF TellsPage
<1>2. /\ b \in Seq(DownMessages) /\ (IsOver(d) => IsOver(b))
      /\ \A i \in DOMAIN b : i + 1 \in DOMAIN d
      /\ \A i \in DOMAIN d : i # 1 => i - 1 \in DOMAIN b /\ b[i - 1] = d[i]
      /\ (\E i \in DOMAIN d : d[i].type = "closed") => \E i \in DOMAIN b : b[i].type = "closed"
      /\ \A e : \A i \in DOMAIN b : Withdraws(b, i, e) => Withdraws(d, i + 1, e)
      /\ \A e : \A i \in DOMAIN b : Grants(b, i, e) => Grants(d, i + 1, e)
      /\ \A e : Backed(t, d, e) /\ ~Withdraws(d, 1, e) => Backed(t, b, e)
      /\ GrantsBacked(t, b)
  BY <1>1, TellsLess
<1>3. d # <<>> BY DEF Drops
<1>4. \A e \in {c.authority, c.offered, c.releasing} : ~Withdraws(d, 1, e) BY DEF Withdraws
<1>5. LinkTyped(c, t, u, b) BY <1>0, <1>2 DEF LinkTyped
<1>6. LinkFits(c, t, u, b) BY <1>0, <1>2, <1>3 DEF LinkFits
<1>7. EpochsInOrder(c, t, u, b)
  <2>1. Ordered(b) /\ News(c, t, b) BY <1>1, OrderLess
  <2> QED BY <1>0, <2>1 DEF EpochsInOrder, Ordered, News
<1>8. KnownAreBacked(c, t, u, b)
  <2>1. (c.authority # 0 => Backed(t, b, c.authority)) /\ (c.offered # 0 => Backed(t, b, c.offered))
    BY <1>0, <1>2, <1>4 DEF KnownAreBacked
  <2>2. c.releasing # 0 => GivesUp(u, c.releasing) \/ IsOver(b)
                           \/ \E i \in DOMAIN b : Withdraws(b, i, c.releasing)
    <3>1. CASE \E i \in DOMAIN d : Withdraws(d, i, c.releasing)
      <4>1. PICK i \in DOMAIN d : Withdraws(d, i, c.releasing) BY <3>1
      <4>2. i # 1 BY <1>4, <4>1
      <4>3. i - 1 \in DOMAIN b /\ Withdraws(b, i - 1, c.releasing)
        BY <1>2, <4>1, <4>2 DEF Withdraws
      <4> QED BY <4>3
    <3>2. CASE ~\E i \in DOMAIN d : Withdraws(d, i, c.releasing)
      BY <1>0, <1>2, <3>2 DEF KnownAreBacked
    <3> QED BY <3>1, <3>2
  <2> QED BY <1>2, <2>1, <2>2 DEF KnownAreBacked, GrantsBacked
<1>9. GrantsAreNews(c, t, u, b) BY <1>0, <1>2 DEF GrantsAreNews
<1>10. SequenceFits(c, t, u, b) BY <1>0, <1>2 DEF SequenceFits
<1>11. ButtonsFit(c, t, u, b) BY <1>0, <1>2 DEF ButtonsFit, LetsGo
<1> QED BY <1>0, <1>5, <1>6, <1>7, <1>8, <1>9, <1>10, <1>11 DEF LinkIInv

\* What the daemon grants first is offered to the page.
Offers(c, c2, e) == c2 = [c EXCEPT !.offered = e]
Granted(m) == m.type = "authority" /\ m.active = TRUE
Ending(m) == m.type = "authority" /\ m.active = FALSE

\* An offer is backed by the daemon, and newer than all that the page knows.
LEMMA OfferFits ==
  ASSUME NEW c, NEW t, NEW u, NEW d, LinkIInv(c, t, u, d), NEW b, Drops(d, b),
         NEW m, m = d[1], Granted(m), NEW c2, Offers(c, c2, m.epoch)
  PROVE  /\ LinkIInv(c2, t, u, b) /\ c2.phase = c.phase /\ c2.desired = c.desired
         /\ c2.ready = c.ready /\ c2.shown = c.shown /\ c2.first = c.first /\ c2.resume = c.resume
<1>0. /\ LinkTyped(c, t, u, d) /\ LinkFits(c, t, u, d) /\ SessionFits(t)
      /\ EpochsInOrder(c, t, u, d) /\ KnownAreBacked(c, t, u, d) /\ GrantsAreNews(c, t, u, d)
      /\ SequenceFits(c, t, u, d) /\ ButtonsFit(c, t, u, d) /\ c \in Connections
  BY DEF LinkIInv, LinkTyped
<1>1. /\ m.type = "authority" /\ m.active = TRUE /\ m = d[1] BY DEF Granted
<1>2. TellsPage(d) BY <1>1 DEF TellsPage
<1>3. /\ b \in Seq(DownMessages) /\ 1 \in DOMAIN d /\ (IsOver(d) => IsOver(b))
      /\ \A i \in DOMAIN b : i + 1 \in DOMAIN d
      /\ \A i \in DOMAIN d : i # 1 => i - 1 \in DOMAIN b /\ b[i - 1] = d[i]
      /\ (\E i \in DOMAIN d : d[i].type = "closed") => \E i \in DOMAIN b : b[i].type = "closed"
      /\ \A e : \A i \in DOMAIN b : Withdraws(b, i, e) => Withdraws(d, i + 1, e)
      /\ \A e : \A i \in DOMAIN b : Grants(b, i, e) => Grants(d, i + 1, e)
      /\ \A e : Backed(t, d, e) /\ ~Withdraws(d, 1, e) => Backed(t, b, e)
      /\ GrantsBacked(t, b)
  BY <1>2, TellsLess
<1>4. d # <<>> BY DEF Drops
<1>5. \A e : ~Withdraws(d, 1, e) BY <1>1 DEF Withdraws
<1>6. m.epoch \in Nat /\ c.authority \in Nat /\ c.offered \in Nat /\ c.releasing \in Nat
      /\ t.last \in Nat
  <2>1. /\ c.authority \in Nat /\ c.offered \in Nat /\ c.releasing \in Nat /\ t.last \in Nat
        /\ \A i \in DOMAIN d : d[i].type = "authority" => d[i].epoch \in Nat
    BY <1>0, LinkTypes
  <2> QED BY <1>1, <1>3, <2>1
<1>7. /\ c2 \in Connections /\ c2.phase = c.phase /\ c2.desired = c.desired /\ c2.ready = c.ready
      /\ c2.shown = c.shown /\ c2.first = c.first /\ c2.resume = c.resume
      /\ c2.authority = c.authority /\ c2.offered = m.epoch /\ c2.seq = c.seq
      /\ c2.releasing = c.releasing /\ c2.held = c.held
  <2>1. PICK e \in Nat : e = m.epoch BY <1>6
  <2>2. c2 = [c EXCEPT !.offered = e] BY <2>1 DEF Offers
  <2> QED BY <1>0, <2>1, <2>2 DEF Connections
<1>8. LinkTyped(c2, t, u, b) BY <1>0, <1>3, <1>7 DEF LinkTyped
<1>9. LinkFits(c2, t, u, b) BY <1>0, <1>3, <1>4, <1>7 DEF LinkFits
<1>10. EpochsInOrder(c2, t, u, b)
  <2>1. Ordered(b) /\ News(c, t, b) /\ Before(m, b) BY <1>1, <1>2, OrderLess
  <2>2. c.authority < m.epoch /\ m.epoch <= t.last /\ c.releasing <= t.last
    BY <1>0, <1>1, <1>3 DEF EpochsInOrder
  <2>3. \A i \in DOMAIN b : b[i].type = "authority" => b[i].epoch \in Nat BY <1>8, LinkTypes
  <2>4. ASSUME NEW i \in DOMAIN b, b[i].type = "authority"
        PROVE  m.epoch <= b[i].epoch /\ (b[i].active = TRUE => m.epoch < b[i].epoch)
    BY <1>6, <2>1, <2>3, <2>4 DEF Before
  <2>5. ASSUME NEW i \in DOMAIN b, b[i].type = "authority"
        PROVE  /\ b[i].epoch > 0 /\ b[i].epoch <= t.last
               /\ \A k \in {c2.authority, c2.offered, c2.releasing} :
                    k <= b[i].epoch /\ (b[i].active = TRUE => k < b[i].epoch)
    BY <1>7, <2>1, <2>4, <2>5 DEF News
  <2>6. c2.authority <= c2.offered /\ c2.offered <= t.last /\ c2.releasing <= t.last
    BY <1>6, <1>7, <2>2
  <2>7. \A i \in DOMAIN u : u[i].type = "input" => u[i].epoch > 0 /\ u[i].epoch <= t.last
    BY <1>0 DEF EpochsInOrder
  <2> QED BY <2>1, <2>5, <2>6, <2>7 DEF EpochsInOrder, Ordered
<1>11. KnownAreBacked(c2, t, u, b)
  <2>1. c2.authority # 0 => Backed(t, b, c2.authority) BY <1>0, <1>3, <1>5, <1>7 DEF KnownAreBacked
  <2>2. Backed(t, b, c2.offered) BY <1>0, <1>1, <1>3, <1>5, <1>7 DEF KnownAreBacked
  <2>3. c2.releasing # 0 => GivesUp(u, c2.releasing) \/ IsOver(b)
                            \/ \E i \in DOMAIN b : Withdraws(b, i, c2.releasing)
    <3>1. CASE \E i \in DOMAIN d : Withdraws(d, i, c.releasing)
      <4>1. PICK i \in DOMAIN d : Withdraws(d, i, c.releasing) BY <3>1
      <4>2. i # 1 BY <1>5, <4>1
      <4>3. i - 1 \in DOMAIN b /\ Withdraws(b, i - 1, c.releasing)
        BY <1>3, <4>1, <4>2 DEF Withdraws
      <4> QED BY <1>7, <4>3
    <3>2. CASE ~\E i \in DOMAIN d : Withdraws(d, i, c.releasing)
      BY <1>0, <1>3, <1>7, <3>2 DEF KnownAreBacked
    <3> QED BY <3>1, <3>2
  <2> QED BY <1>3, <2>1, <2>2, <2>3 DEF KnownAreBacked, GrantsBacked
<1>12. Grants(d, 1, m.epoch) BY <1>1 DEF Grants
<1>13. GrantsAreNews(c2, t, u, b) BY <1>0, <1>3, <1>7, <1>12 DEF GrantsAreNews, Unknown
<1>14. SequenceFits(c2, t, u, b) BY <1>0, <1>3, <1>7, <1>12 DEF SequenceFits
<1>15. ButtonsFit(c2, t, u, b) BY <1>0, <1>3, <1>7 DEF ButtonsFit, LetsGo
<1> QED BY <1>0, <1>7, <1>8, <1>9, <1>10, <1>11, <1>13, <1>14, <1>15 DEF LinkIInv

\* The end of control is told, of whichever the page knows.
Withdrawing(c, c2) == c2 = Withdrawn(c)

\* The control that ends is not the one that the daemon grants now.
LEMMA WithdrawFits ==
  ASSUME NEW c, NEW t, NEW u, NEW d, LinkIInv(c, t, u, d), NEW b, Drops(d, b),
         NEW m, m = d[1], Ending(m), NEW c2, Withdrawing(c, c2)
  PROVE  /\ LinkIInv(c2, t, u, b) /\ c2.phase = c.phase /\ c2.desired = c.desired
         /\ c2.ready = c.ready /\ c2.shown = c.shown /\ c2.first = c.first /\ NoControl(c2)
<1>0. /\ LinkTyped(c, t, u, d) /\ LinkFits(c, t, u, d) /\ SessionFits(t)
      /\ EpochsInOrder(c, t, u, d) /\ GrantsAreNews(c, t, u, d)
      /\ SequenceFits(c, t, u, d) /\ ButtonsFit(c, t, u, d) /\ c \in Connections
  BY DEF LinkIInv, LinkTyped
<1>1. m.type = "authority" /\ m.active = FALSE /\ m = d[1] BY DEF Ending
<1>2. TellsPage(d) BY <1>1 DEF TellsPage
<1>3. /\ b \in Seq(DownMessages) /\ 1 \in DOMAIN d /\ (IsOver(d) => IsOver(b))
      /\ \A i \in DOMAIN b : i + 1 \in DOMAIN d
      /\ (\E i \in DOMAIN d : d[i].type = "closed") => \E i \in DOMAIN b : b[i].type = "closed"
      /\ \A e : \A i \in DOMAIN b : Withdraws(b, i, e) => Withdraws(d, i + 1, e)
      /\ \A e : \A i \in DOMAIN b : Grants(b, i, e) => Grants(d, i + 1, e)
      /\ GrantsBacked(t, b)
  BY <1>2, TellsLess
<1>4. d # <<>> BY DEF Drops
<1>5. /\ m.epoch \in Nat /\ c.authority \in Nat /\ t.last \in Nat /\ t.epoch \in Nat
  <2>1. /\ c.authority \in Nat /\ t.last \in Nat /\ t.epoch \in Nat
        /\ \A i \in DOMAIN d : d[i].type = "authority" => d[i].epoch \in Nat
    BY <1>0, LinkTypes
  <2> QED BY <1>1, <1>3, <2>1
<1>6. /\ c2 \in Connections /\ c2.phase = c.phase /\ c2.desired = c.desired /\ c2.ready = c.ready
      /\ c2.shown = c.shown /\ c2.first = c.first /\ NoControl(c2)
  BY <1>0 DEF Withdrawing, Withdrawn, NoEpoch, Connections, NoControl
<1>7. c2.authority = 0 /\ c2.offered = 0 /\ c2.releasing = 0 /\ c2.resume = FALSE
  BY <1>6 DEF NoControl
<1>8. LinkTyped(c2, t, u, b) BY <1>0, <1>3, <1>6 DEF LinkTyped
<1>9. LinkFits(c2, t, u, b) BY <1>0, <1>3, <1>4, <1>6, <1>7 DEF LinkFits
<1>10. EpochsInOrder(c2, t, u, b)
  <2>1. Ordered(b) /\ News(c, t, b) BY <1>2, OrderLess
  <2>2. \A i \in DOMAIN b : b[i].type = "authority" => b[i].epoch \in Nat BY <1>8, LinkTypes
  <2>3. ASSUME NEW i \in DOMAIN b, b[i].type = "authority"
        PROVE  /\ b[i].epoch > 0 /\ b[i].epoch <= t.last
               /\ \A k \in {c2.authority, c2.offered, c2.releasing} :
                    k <= b[i].epoch /\ (b[i].active = TRUE => k < b[i].epoch)
    BY <1>7, <2>1, <2>2, <2>3 DEF News
  <2>4. c2.authority <= c2.offered /\ c2.offered <= t.last /\ c2.releasing <= t.last
    BY <1>5, <1>7
  <2>5. \A i \in DOMAIN u : u[i].type = "input" => u[i].epoch > 0 /\ u[i].epoch <= t.last
    BY <1>0 DEF EpochsInOrder
  <2> QED BY <2>1, <2>3, <2>4, <2>5 DEF EpochsInOrder, Ordered
<1>11. KnownAreBacked(c2, t, u, b) BY <1>3, <1>7 DEF KnownAreBacked, GrantsBacked
<1>12. GrantsAreNews(c2, t, u, b) BY <1>0, <1>3, <1>7 DEF GrantsAreNews, Unknown
<1>13. SequenceFits(c2, t, u, b)
  <2> SUFFICES ASSUME t.active = TRUE PROVE SequenceFits(c2, t, u, b) BY DEF SequenceFits
  <2>1. c2.authority # t.epoch /\ c2.offered # t.epoch BY <1>0, <1>7 DEF SessionFits
  <2> QED BY <1>0, <1>3, <2>1 DEF SequenceFits
<1>14. ButtonsFit(c2, t, u, b)
  <2> SUFFICES ASSUME t.active = TRUE PROVE ButtonsFit(c2, t, u, b) BY DEF ButtonsFit
  <2>1. t.epoch # 0 /\ t.epoch = t.last BY <1>0 DEF SessionFits
  <2>2. c.authority <= m.epoch /\ m.epoch <= t.last BY <1>0, <1>1, <1>3 DEF EpochsInOrder
  <2>3. m.epoch # t.epoch BY <1>0, <1>3, <2>1, <1>1 DEF GrantsAreNews, Withdraws
  <2>4. c.authority # t.epoch BY <1>5, <2>1, <2>2, <2>3
  <2> QED BY <1>0, <1>3, <2>4 DEF ButtonsFit, LetsGo
<1> QED BY <1>0, <1>6, <1>8, <1>9, <1>10, <1>11, <1>12, <1>13, <1>14 DEF LinkIInv

\* What the page is still to receive of an answer to its mode, when that is not the first message.
LEMMA AnswerLess ==
  ASSUME NEW c, NEW t, NEW u, NEW d, LinkIInv(c, t, u, d), NEW b, Drops(d, b), TellsPage(d),
         IsAsked(c, u, d), ~(d[1].type = "view-state" /\ d[1].mode = c.desired)
  PROVE  IsAsked(c, u, b)
<1>1. /\ \A i \in DOMAIN d : i # 1 => i - 1 \in DOMAIN b /\ b[i - 1] = d[i]
      /\ (IsOver(d) => IsOver(b))
  BY TellsLess
<1>2. CASE \E i \in DOMAIN d : d[i].type = "view-state" /\ d[i].mode = c.desired
  <2>1. PICK i \in DOMAIN d : d[i].type = "view-state" /\ d[i].mode = c.desired BY <1>2
  <2>2. i # 1 BY <2>1
  <2>3. i - 1 \in DOMAIN b /\ b[i - 1] = d[i] BY <1>1, <2>2
  <2> QED BY <2>1, <2>3 DEF IsAsked
<1>3. CASE ~\E i \in DOMAIN d : d[i].type = "view-state" /\ d[i].mode = c.desired
  BY <1>1, <1>3 DEF IsAsked
<1> QED BY <1>2, <1>3

\* What a message of the daemon must keep on the page.
LEMMA ReceivesKeeps ==
  ASSUME WebIInv, NEW s \in Links, NEW b, LinkIInv(s.c, session, s.up, b), LeavesLink(s),
         down' = b, UNCHANGED <<session, panel>>, s.c.desired = conn.desired,
         WaitEnds(panel, s.c, s.up, b)
  PROVE  WebIInv'
<1>1. session' = session /\ down' = b /\ conn' = s.c /\ up' = s.up /\ panel' = panel BY DEF LeavesLink
<1>2. LinkIInv(conn', session', up', down') BY <1>1
<1>3. panel \in Panels /\ PanelFits(panel, s.c) BY DEF WebIInv, PanelFits
<1>4. PanelFits(panel', conn') /\ WaitEnds(panel', conn', up', down') BY <1>1, <1>3
<1> QED BY <1>1, <1>2, <1>3, <1>4 DEF WebIInv

\* The mode that the page is told is the one it wants, and its view is there or is being connected.
LEMMA OnViewStateKeeps ==
  ASSUME WebIInv, down # <<>>, down[1].type = "view-state", OnViewState(down[1].mode),
         down' = Tail(down), UNCHANGED <<panel, session, up>>
  PROVE  WebIInv'
<1>0. /\ LinkIInv(conn, session, up, down) /\ conn \in Connections /\ up \in Seq(UpMessages)
      /\ WaitEnds(panel, conn, up, down) /\ LinkFits(conn, session, up, down)
  BY DEF WebIInv, LinkIInv, LinkTyped
<1>1. PICK b : Drops(down, b) BY DEF Drops
<1>2. LinkIInv(conn, session, up, b) BY <1>0, <1>1, SkipFits
<1>3. conn.phase = "open" BY <1>0 DEF LinkFits
<1>4. TellsPage(down) BY DEF TellsPage
<1>5. PICK mode : mode = down[1].mode OBVIOUS
<1>6. mode \in ViewModes
  <2>1. down[1] \in DownMessages BY <1>0, <1>1, <1>4, TellsLess
  <2> HIDE DEF ViewModes
  <2> QED BY <1>5, <2>1 DEF DownMessages
<1>7. PICK c : c = [conn EXCEPT !.ack = mode] OBVIOUS
<1>8. /\ c \in Connections /\ c.phase = conn.phase /\ c.desired = conn.desired
      /\ c.authority = conn.authority /\ c.offered = conn.offered /\ c.seq = conn.seq
      /\ c.releasing = conn.releasing /\ c.held = conn.held /\ c.resume = conn.resume
      /\ c.shown = conn.shown /\ c.ready = conn.ready /\ c.first = conn.first
  <2> HIDE DEF ViewModes
  <2> QED BY <1>0, <1>6, <1>7 DEF Connections
<1>9. conn.resume = TRUE => conn.releasing # 0 BY <1>0 DEF LinkFits
<1>10. down' = b /\ up' = up /\ UNCHANGED <<panel, session>> BY <1>1 DEF Drops
<1>11. conn' = IF mode # c.desired THEN c
               ELSE IF mode = "preview"
                    THEN [c EXCEPT !.rfb = "none", !.shown = "preview", !.first = @ \/ ~c.framed]
               ELSE IF c.ready THEN Published([c EXCEPT !.shown = "expanded"])
               ELSE [c EXCEPT !.rfb = IF @ = "none" THEN "connecting" ELSE @, !.shown = "connecting",
                              !.first = TRUE]
  BY <1>5, <1>7 DEF OnViewState
<1>12. ASSUME NEW c2 \in Connections, conn' = c2, c2.phase = "open", c2.desired = conn.desired,
              LinkIInv(c2, session, up, b), WaitEnds(panel, c2, up, b)
       PROVE  WebIInv'
  <2>1. PICK s : s = [c |-> c2, up |-> up] OBVIOUS
  <2>2. s \in Links /\ s.c = c2 /\ s.up = up BY <1>0, <1>12, <2>1 DEF Links
  <2>3. LeavesLink(s) BY <1>10, <1>12, <2>2 DEF LeavesLink
  <2>4. /\ LinkIInv(s.c, session, s.up, b) /\ s.c.desired = conn.desired
        /\ WaitEnds(panel, s.c, s.up, b)
    BY <1>12, <2>2
  <2> QED BY <1>10, <2>2, <2>3, <2>4, ReceivesKeeps
<1>13. CASE mode # conn.desired
  <2>1. conn' = c BY <1>8, <1>11, <1>13
  <2>2. LinkIInv(c, session, up, b) BY <1>2, <1>3, <1>8, <1>9, SameControl
  <2>3. IsAsked(conn, up, down) => IsAsked(conn, up, b) BY <1>0, <1>1, <1>4, <1>5, <1>13, AnswerLess
  <2>4. WaitEnds(panel, c, up, b) BY <1>0, <1>8, <2>3 DEF WaitEnds, IsAsked
  <2> QED BY <1>3, <1>8, <1>12, <2>1, <2>2, <2>4
<1>14. CASE mode = conn.desired /\ mode = "preview"
  <2>1. conn' = [c EXCEPT !.rfb = "none", !.shown = "preview", !.first = @ \/ ~c.framed]
    BY <1>8, <1>11, <1>14
  <2>2. PICK f \in BOOLEAN : f = (c.first \/ ~c.framed) OBVIOUS
  <2>3. PICK c2 : c2 = [c EXCEPT !.rfb = "none", !.shown = "preview", !.first = f] OBVIOUS
  <2>4. conn' = c2 BY <2>1, <2>2, <2>3
  <2>5. /\ c2 \in Connections /\ c2.phase = c.phase /\ c2.desired = c.desired
        /\ c2.authority = c.authority /\ c2.offered = c.offered /\ c2.seq = c.seq
        /\ c2.releasing = c.releasing /\ c2.held = c.held /\ c2.resume = c.resume
        /\ c2.shown = "preview"
    BY <1>8, <2>2, <2>3 DEF Connections
  <2>6. LinkIInv(c2, session, up, b) BY <1>2, <1>3, <1>8, <1>9, <2>5, SameControl
  <2>7. WaitEnds(panel, c2, up, b) BY <2>5 DEF WaitEnds
  <2> QED BY <1>3, <1>8, <1>12, <2>4, <2>5, <2>6, <2>7
<1>15. CASE mode = conn.desired /\ mode # "preview" /\ conn.ready = TRUE
  <2>1. PICK k : k = [c EXCEPT !.shown = "expanded"] OBVIOUS
  <2>2. /\ k \in Connections /\ k.phase = c.phase /\ k.desired = c.desired
        /\ k.authority = c.authority /\ k.offered = c.offered /\ k.seq = c.seq
        /\ k.releasing = c.releasing /\ k.held = c.held /\ k.resume = c.resume
        /\ k.shown = "expanded"
    BY <1>8, <2>1 DEF Connections
  <2>3. LinkIInv(k, session, up, b) BY <1>2, <1>3, <1>8, <1>9, <2>2, SameControl
  <2>4. PICK c2 : Publishes(k, c2) BY DEF Publishes
  <2>5. LinkIInv(c2, session, up, b) /\ c2.phase = k.phase /\ c2.desired = k.desired
        /\ c2.shown = k.shown
    BY <2>3, <2>4, PublishedFits
  <2>6. conn' = c2 BY <1>8, <1>11, <1>15, <2>1, <2>4 DEF Publishes
  <2>7. c2 \in Connections BY <2>5 DEF LinkIInv, LinkTyped
  <2>8. WaitEnds(panel, c2, up, b) BY <2>2, <2>5 DEF WaitEnds
  <2> QED BY <1>3, <1>8, <1>12, <2>2, <2>5, <2>6, <2>7, <2>8
<1>16. CASE mode = conn.desired /\ mode # "preview" /\ conn.ready = FALSE
  <2>1. conn' = [c EXCEPT !.rfb = IF @ = "none" THEN "connecting" ELSE @, !.shown = "connecting",
                          !.first = TRUE]
    BY <1>8, <1>11, <1>16
  <2>2. PICK c2 : c2 = conn' OBVIOUS
  <2>3. /\ c2 \in Connections /\ c2.phase = c.phase /\ c2.desired = c.desired
        /\ c2.authority = c.authority /\ c2.offered = c.offered /\ c2.seq = c.seq
        /\ c2.releasing = c.releasing /\ c2.held = c.held /\ c2.resume = c.resume
        /\ c2.shown = "connecting" /\ c2.first = TRUE /\ c2.ready = c.ready
    BY <1>8, <2>1, <2>2 DEF Connections
  <2>4. LinkIInv(c2, session, up, b) BY <1>2, <1>3, <1>8, <1>9, <2>3, SameControl
  <2>5. conn.desired = "expanded" BY <1>0, <1>6, <1>16 DEF LinkFits, ViewModes
  <2>6. WaitEnds(panel, c2, up, b) BY <1>8, <1>16, <2>3, <2>5 DEF WaitEnds
  <2> QED BY <1>3, <1>8, <1>12, <2>2, <2>3, <2>4, <2>6
<1>17. conn.ready \in BOOLEAN BY <1>0 DEF Connections
<1> QED BY <1>13, <1>14, <1>15, <1>16, <1>17

\* What the page makes of a message about control: an offer, or the end of what it knows or not.
LEMMA OfferKeeps ==
  ASSUME WebIInv, down # <<>>, Granted(down[1]),
         Become([Link EXCEPT !.c = Published([conn EXCEPT !.offered = down[1].epoch])]),
         down' = Tail(down), UNCHANGED <<panel, session>>
  PROVE  WebIInv'
<1>0. /\ LinkIInv(conn, session, up, down) /\ conn \in Connections /\ up \in Seq(UpMessages)
      /\ WaitEnds(panel, conn, up, down)
  BY DEF WebIInv, LinkIInv, LinkTyped
<1>1. PICK b : Drops(down, b) BY DEF Drops
<1>2. PICK m : m = down[1] OBVIOUS
<1>3. PICK c : Offers(conn, c, m.epoch) BY DEF Offers
<1>4. /\ LinkIInv(c, session, up, b) /\ c.phase = conn.phase /\ c.desired = conn.desired
      /\ c.ready = conn.ready /\ c.shown = conn.shown /\ c.first = conn.first
      /\ c.resume = conn.resume BY <1>2, <1>0, <1>1, <1>3, OfferFits
<1>5. PICK c2 : Publishes(c, c2) BY DEF Publishes
<1>6. /\ LinkIInv(c2, session, up, b) /\ c2.phase = c.phase /\ c2.desired = c.desired
      /\ c2.ready = c.ready /\ c2.shown = c.shown /\ c2.first = c.first
      /\ c2 = c \/ c.ready = TRUE
  BY <1>4, <1>5, PublishedFits
<1>7. PICK s : s = [c |-> c2, up |-> up] OBVIOUS
<1>8. s.c = c2 /\ s.up = up BY <1>7
<1>9. s \in Links BY <1>6, <1>0, <1>7 DEF LinkIInv, LinkTyped, Links
<1>10. LeavesLink(s) BY <1>2, <1>3, <1>5, <1>8 DEF Become, Link, Offers, Publishes, LeavesLink
<1>11. down' = b BY <1>1 DEF Drops
<1>12. IsAsked(conn, up, down) => IsAsked(conn, up, b)
  BY <1>0, <1>1, AnswerLess DEF Granted, TellsPage
<1>13. WaitEnds(panel, c2, up, b) BY <1>0, <1>4, <1>6, <1>12 DEF WaitEnds, IsAsked
<1>14. LinkIInv(s.c, session, s.up, b) /\ s.c.desired = conn.desired /\ WaitEnds(panel, s.c, s.up, b)
  BY <1>4, <1>6, <1>8, <1>13
<1> QED BY <1>9, <1>10, <1>11, <1>14, ReceivesKeeps

\* The end of a control that the page does not know changes nothing.
LEMMA UnknownKeeps ==
  ASSUME WebIInv, down # <<>>, Ending(down[1]), ~Known(conn, down[1].epoch), Become(Link),
         down' = Tail(down), UNCHANGED <<panel, session>>
  PROVE  WebIInv'
<1>0. LinkIInv(conn, session, up, down) /\ WaitEnds(panel, conn, up, down) BY DEF WebIInv
<1>1. PICK b : Drops(down, b) BY DEF Drops
<1>2. TellsPage(down) /\ down[1].type = "authority" BY DEF Ending, TellsPage
<1>3. \A e \in {conn.authority, conn.offered, conn.releasing} : ~Withdraws(down, 1, e)
  BY DEF Known, Withdraws
<1>4. LinkIInv(conn, session, up, b) BY <1>0, <1>1, <1>2, <1>3, SkipFits
<1>5. IsAsked(conn, up, down) => IsAsked(conn, up, b) BY <1>0, <1>1, <1>2, AnswerLess
<1>6. WaitEnds(panel, conn, up, b) BY <1>0, <1>5 DEF WaitEnds
<1>7. Link \in Links /\ Link.c = conn /\ Link.up = up BY LinkOfPage
<1>8. PICK s : s = Link OBVIOUS
<1>9. s \in Links /\ s.c = conn /\ s.up = up /\ LeavesLink(s) /\ down' = b
  BY <1>1, <1>7, <1>8 DEF Become, LeavesLink, Drops
<1>10. LinkIInv(s.c, session, s.up, b) /\ s.c.desired = conn.desired /\ WaitEnds(panel, s.c, s.up, b)
  BY <1>4, <1>6, <1>9
<1> QED BY <1>9, <1>10, ReceivesKeeps

\* After the end of the control it knew the page asks again if it was to resume.
LEMMA WithdrawKeeps ==
  ASSUME WebIInv, down # <<>>, Ending(down[1]), NEW s, s = [Link EXCEPT !.c = Withdrawn(conn)],
         Become(IF conn.resume THEN Activate(s) ELSE s),
         down' = Tail(down), UNCHANGED <<panel, session>>
  PROVE  WebIInv'
<1>0. /\ LinkIInv(conn, session, up, down) /\ conn \in Connections /\ up \in Seq(UpMessages)
      /\ WaitEnds(panel, conn, up, down) /\ conn.resume \in BOOLEAN
      /\ LinkFits(conn, session, up, down)
  BY DEF WebIInv, LinkIInv, LinkTyped, Connections
<1>1. PICK b : Drops(down, b) BY DEF Drops
<1>2. PICK m : m = down[1] OBVIOUS
<1>3. PICK c : Withdrawing(conn, c) BY DEF Withdrawing
<1>4. /\ LinkIInv(c, session, up, b) /\ c.phase = conn.phase /\ c.desired = conn.desired
      /\ c.ready = conn.ready /\ c.shown = conn.shown /\ c.first = conn.first /\ NoControl(c)
  BY <1>2, <1>0, <1>1, <1>3, WithdrawFits
<1>5. c \in Connections BY <1>4 DEF LinkIInv, LinkTyped
<1>6. PICK r : r = [c |-> c, up |-> up] OBVIOUS
<1>7. r.c = c /\ r.up = up /\ r \in Links BY <1>0, <1>5, <1>6 DEF Links
<1>8. s = r BY <1>3, <1>6 DEF Link, Withdrawing
<1>9. down' = b BY <1>1 DEF Drops
<1>10. CASE conn.resume = TRUE
  <2>1. PICK s2 : Activates(r, s2) BY DEF Activates
  <2>2. LinkIInv(r.c, session, r.up, b) BY <1>4, <1>7
  <2>3. /\ s2 \in Links /\ LinkIInv(s2.c, session, s2.up, b) /\ s2.c.desired = r.c.desired
        /\ r.c.phase = "open" /\ r.c.releasing = 0 => IsAsked(s2.c, s2.up, b)
    BY <1>7, <2>1, <2>2, ActivateFits
  <2>4. conn.phase = "open" BY <1>0 DEF LinkFits
  <2>5. IsAsked(s2.c, s2.up, b) BY <1>4, <1>7, <2>3, <2>4 DEF NoControl
  <2>6. LeavesLink(s2) BY <1>8, <1>10, <2>1 DEF Become, LeavesLink, Activates
  <2>7. WaitEnds(panel, s2.c, s2.up, b) /\ s2.c.desired = conn.desired
    BY <1>4, <1>7, <2>3, <2>5 DEF WaitEnds
  <2> QED BY <1>9, <2>3, <2>6, <2>7, ReceivesKeeps
<1>11. CASE conn.resume = FALSE
  <2>1. LeavesLink(r) BY <1>8, <1>11 DEF Become, LeavesLink
  <2>2. TellsPage(down) /\ down[1].type # "view-state" BY DEF Ending, TellsPage
  <2>3. IsAsked(conn, up, down) => IsAsked(conn, up, b) BY <1>0, <1>1, <2>2, AnswerLess
  <2>4. WaitEnds(panel, c, up, b) BY <1>0, <1>4, <1>11, <2>3 DEF WaitEnds, IsAsked
  <2>5. /\ LinkIInv(r.c, session, r.up, b) /\ WaitEnds(panel, r.c, r.up, b)
        /\ r.c.desired = conn.desired
    BY <1>4, <1>7, <2>4
  <2> QED BY <1>7, <1>9, <2>1, <2>5, ReceivesKeeps
<1> QED BY <1>0, <1>10, <1>11

\* The page takes a message of the daemon.
LEMMA PageReceivesKeeps == ASSUME WebIInv, PageReceives PROVE WebIInv'
<1>1. down # <<>> BY DEF PageReceives
<1>2. PICK m : m = down[1] OBVIOUS
<1>3. m = Head(down) /\ m \in DownMessages
  <2>1. down \in Seq(DownMessages) BY DEF WebIInv, LinkIInv, LinkTyped
  <2> HIDE DEF DownMessages
  <2> QED BY <1>1, <1>2, <2>1
<1>4. CASE m.type = "view-state" /\ OnViewState(m.mode) /\ down' = Tail(down)
           /\ UNCHANGED <<panel, session, up>>
  BY <1>1, <1>2, <1>4, OnViewStateKeeps
<1>5. CASE m.type = "authority" /\ OnAuthority(m) /\ down' = Tail(down)
           /\ UNCHANGED <<panel, session>>
  <2>1. m.active \in BOOLEAN BY <1>3, <1>5 DEF DownMessages
  <2>2. CASE m.active = TRUE
    <3>1. Granted(down[1]) BY <1>2, <1>5, <2>2 DEF Granted
    <3>2. Become([Link EXCEPT !.c = Published([conn EXCEPT !.offered = down[1].epoch])])
      BY <1>2, <1>5, <2>2 DEF OnAuthority
    <3> QED BY <1>1, <1>5, <3>1, <3>2, OfferKeeps
  <2>3. CASE m.active = FALSE
    <3>1. Ending(down[1]) BY <1>2, <1>5, <2>3 DEF Ending
    <3>2. PICK s : s = [Link EXCEPT !.c = Withdrawn(conn)] OBVIOUS
    <3>3. \/ ~Known(conn, down[1].epoch) /\ Become(Link)
          \/ Become(IF conn.resume THEN Activate(s) ELSE s)
      BY <1>2, <1>5, <2>3, <3>2 DEF OnAuthority
    <3> QED BY <1>1, <1>5, <3>1, <3>2, <3>3, UnknownKeeps, WithdrawKeeps
  <2> QED BY <2>1, <2>2, <2>3
<1>6. CASE Fail BY <1>6, FailKeeps
<1>7. CASE RequestReconnect(panel)
  <2>1. panel \in Panels BY DEF WebIInv
  <2> QED BY <1>7, <2>1, ReattemptKeeps DEF RequestReconnect
<1> QED BY <1>3, <1>4, <1>5, <1>6, <1>7 DEF PageReceives

\* Every step keeps the invariant.
LEMMA WebStepKeeps == WebIInv /\ [WebNext]_webVars => WebIInv'
<1> SUFFICES ASSUME WebIInv, [WebNext]_webVars PROVE WebIInv' OBVIOUS
<1>1. CASE SessionAnswers \/ SocketOpens \/ SocketBreaks \/ DeadlinePasses \/ Retry
  BY <1>1, SessionAnswersKeeps, SocketOpensKeeps, SocketBreaksKeeps, DeadlinePassesKeeps, RetryKeeps
<1>2. CASE Expand \/ Collapse \/ Blur \/ Focus \/ Hide \/ Show
  BY <1>2, ExpandKeeps, CollapseKeeps, BlurKeeps, FocusKeeps, HideKeeps, ShowKeeps
<1>3. CASE RfbConnects \/ ExpandedConnected \/ RfbIsStable \/ RfbDisconnects \/ FrameArrives
  BY <1>3, RfbConnectsKeeps, ExpandedConnectedKeeps, RfbIsStableKeeps, RfbDisconnectsKeeps,
     FrameArrivesKeeps
<1>4. CASE \E x \in 0..Rendered : Pointer(x) \/ Press(x) \/ Release(x)
  BY <1>4, PointerKeeps, PressKeeps, ReleaseKeeps
<1>5. CASE KeyDown \/ KeyUp BY <1>5, KeyDownKeeps, KeyUpKeeps
<1>6. CASE DaemonReceives \/ ClaimIsAnswered \/ ControlIsTaken \/ SessionFails
  BY <1>6, DaemonReceivesKeeps, ClaimIsAnsweredKeeps, ControlIsTakenKeeps, SessionFailsKeeps
<1>7. CASE PageReceives BY <1>7, PageReceivesKeeps
<1>8. CASE UNCHANGED webVars
  <2>1. panel' = panel /\ conn' = conn /\ session' = session /\ up' = up /\ down' = down
    BY <1>8 DEF webVars
  <2>2. /\ panel \in Panels /\ PanelFits(panel, conn) /\ LinkIInv(conn, session, up, down)
        /\ WaitEnds(panel, conn, up, down)
    BY DEF WebIInv
  <2>3. /\ panel' \in Panels /\ PanelFits(panel', conn') /\ LinkIInv(conn', session', up', down')
        /\ WaitEnds(panel', conn', up', down')
    BY <2>1, <2>2
  <2> QED BY <2>3 DEF WebIInv
<1> QED BY <1>1, <1>2, <1>3, <1>4, <1>5, <1>6, <1>7, <1>8 DEF WebNext

\* The end of control and the answer to a mode, as the messages they are.
LEMMA MessagesAre ==
  /\ \A m \in DownMessages : /\ m.type = "authority" => m = Authority(m.active, m.epoch)
                             /\ m.type = "view-state" => m = ViewState(m.mode)
  /\ \A m \in UpMessages : m.type = "view" => m = ViewMessage(m.mode)
<1>1. ASSUME NEW m \in DownMessages, m.type = "authority" PROVE m = Authority(m.active, m.epoch)
  <2>1. m \in [type : {"authority"}, active : BOOLEAN, epoch : Nat] BY <1>1 DEF DownMessages
  <2> QED BY <2>1 DEF Authority
<1>2. ASSUME NEW m \in DownMessages, m.type = "view-state" PROVE m = ViewState(m.mode)
  <2>1. m \in [type : {"view-state"}, mode : ViewModes] BY <1>2 DEF DownMessages
  <2> QED BY <2>1 DEF ViewState
<1>3. ASSUME NEW m \in UpMessages, m.type = "view" PROVE m = ViewMessage(m.mode)
  <2>1. m \in [type : {"view"}, mode : ViewModes] BY <1>3 DEF UpMessages
  <2> QED BY <2>1 DEF ViewMessage
<1> QED BY <1>1, <1>2, <1>3

\* Where the end of control e is told, or the end of all, the property says so.
LEMMA WithdrawsEnds ==
  ASSUME WebIInv, NEW e, (\E i \in DOMAIN down : Withdraws(down, i, e)) \/ IsOver(down)
  PROVE  Ended(e)
<1>1. CASE IsOver(down) BY <1>1 DEF IsOver, Ended, Over
<1>2. CASE \E i \in DOMAIN down : Withdraws(down, i, e)
  <2>1. PICK i \in DOMAIN down : Withdraws(down, i, e) BY <1>2
  <2>2. down[i].type = "authority" /\ down[i].epoch = e /\ down[i].active = FALSE
    BY <2>1 DEF Withdraws
  <2>3. down[i] \in DownMessages BY LinkTypes DEF WebIInv, LinkIInv
  <2>4. down[i] = Authority(FALSE, e)
    <3>1. PICK m : m = down[i] OBVIOUS
    <3>2. m = Authority(m.active, m.epoch) BY <2>2, <2>3, <3>1, MessagesAre
    <3> QED BY <2>2, <3>1, <3>2
  <2> QED BY <2>4 DEF Ended, InDown
<1> QED BY <1>1, <1>2

\* The invariant types the state, and bounds every epoch by the last.
LEMMA WebIsTyped == ASSUME WebIInv PROVE WebTypeOK
<1>1. /\ panel \in Panels /\ PanelFits(panel, conn) /\ LinkTyped(conn, session, up, down)
      /\ SessionFits(session) /\ EpochsInOrder(conn, session, up, down)
      /\ conn \in Connections /\ session \in Sessions
  BY DEF WebIInv, LinkIInv, LinkTyped
<1>2. panel.window \in {"focused", "blurred", "hidden"} /\ panel.bound \in 0..panel.attempt
  BY <1>1 DEF Panels, PanelFits
<1>3. /\ conn.phase \in {"fetching", "opening", "open", "failed"}
      /\ conn.desired \in ViewModes /\ conn.ack \in ViewModes /\ session.mode \in ViewModes
      /\ session.held \subseteq Buttons
  <2> HIDE DEF ViewModes, Buttons
  <2> QED BY <1>1 DEF Connections, Sessions
<1>4. {conn.authority, conn.offered, conn.releasing, session.epoch} \subseteq 0..session.last
  <2>1. /\ conn.authority \in Nat /\ conn.offered \in Nat /\ conn.releasing \in Nat
        /\ session.epoch \in Nat /\ session.last \in Nat
    BY <1>1, LinkTypes
  <2> QED BY <1>1, <2>1 DEF EpochsInOrder, SessionFits
<1> QED BY <1>2, <1>3, <1>4 DEF WebTypeOK

\* The control that the page shows is backed by the daemon.
LEMMA PageIsBacked == ASSUME WebIInv PROVE ControlIsBacked
<1>1. KnownAreBacked(conn, session, up, down) BY DEF WebIInv, LinkIInv
<1>2. ASSUME conn.authority # 0
      PROVE  (session.active /\ session.epoch = conn.authority) \/ Ended(conn.authority)
  <2>1. Backed(session, down, conn.authority) BY <1>1, <1>2 DEF KnownAreBacked
  <2> QED BY <2>1, WithdrawsEnds DEF Backed
<1>3. ASSUME conn.releasing # 0 PROVE GivenUp(conn.releasing) \/ Ended(conn.releasing)
  <2>1. \/ GivesUp(up, conn.releasing) \/ IsOver(down)
        \/ \E i \in DOMAIN down : Withdraws(down, i, conn.releasing)
    BY <1>1, <1>3 DEF KnownAreBacked
  <2> QED BY <2>1, WithdrawsEnds DEF GivesUp, GivenUp, Says, Input
<1> QED BY <1>2, <1>3 DEF ControlIsBacked, NoEpoch

\* A pressed button is held by the page, or about to be let go.
LEMMA ButtonsAreLetGo == ASSUME WebIInv PROVE NothingStaysPressed
<1> SUFFICES ASSUME "button" \in session.held
             PROVE  \/ conn.authority = session.epoch /\ conn.held
                    \/ GivenUp(session.epoch) \/ Leaving \/ Over
                    \/ \E i \in DOMAIN up : /\ up[i].type = "input" /\ up[i].epoch = session.epoch
                                            /\ up[i].what = "release"
  BY DEF NothingStaysPressed
<1>1. SessionFits(session) /\ ButtonsFit(conn, session, up, down) BY DEF WebIInv, LinkIInv
<1>2. session.active = TRUE BY <1>1 DEF SessionFits
<1>3. LetsGo(conn, session, up, down, 0) BY <1>1, <1>2 DEF ButtonsFit
<1> QED BY <1>3 DEF LetsGo, GivesUp, GivenUp, Leaves, Leaving, IsOver, Over, Says, Input

\* The input on its way has the numbers that the daemon expects.
LEMMA InputArrivesInOrder == ASSUME WebIInv PROVE InputIsTaken
<1>1. LinkTyped(conn, session, up, down) /\ SequenceFits(conn, session, up, down)
  BY DEF WebIInv, LinkIInv
<1>2. session.active \in BOOLEAN BY <1>1 DEF LinkTyped, Sessions
<1> SUFFICES ASSUME NEW i \in DOMAIN up, up[i].type = "input", session.active,
                    up[i].epoch = session.epoch
             PROVE  LET before == {j \in 1..(i - 1) : up[j].type = "input" /\ up[j].epoch = up[i].epoch}
                    IN \/ \E j \in before : up[j].what = "release-control"
                       \/ up[i].fits /\ up[i].seq = session.next + Cardinality(before)
  BY DEF InputIsTaken
<1> DEFINE before == {j \in 1..(i - 1) : up[j].type = "input" /\ up[j].epoch = up[i].epoch}
<1>3. before = Ahead(up, i, session.epoch) BY DEF Ahead, Input
<1>4. up[i].fits = TRUE BY <1>1, LinkTypes
<1>5. Input(up, i, session.epoch) BY DEF Input
<1>6. \/ \E j \in 1..(i - 1) : Says(up, j, session.epoch, "release-control")
      \/ up[i].seq = session.next + Cardinality(Ahead(up, i, session.epoch))
  BY <1>1, <1>2, <1>5 DEF SequenceFits
<1>7. (\E j \in 1..(i - 1) : Says(up, j, session.epoch, "release-control"))
        => \E j \in before : up[j].what = "release-control"
  BY DEF Says, Input
<1> QED BY <1>3, <1>4, <1>6, <1>7

\* A page that shows that it connects has an answer coming.
LEMMA WaitingEnds == ASSUME WebIInv PROVE NeverSpins
<1> SUFFICES ASSUME conn.shown = "connecting", panel.window # "hidden",
                    conn.phase \notin {"fetching", "opening"}
             PROVE  \/ conn.first
                    \/ conn.resume /\ conn.releasing # NoEpoch
                    \/ \E i \in DOMAIN up : up[i] = ViewMessage(conn.desired)
                    \/ InDown(ViewState(conn.desired)) \/ Over
  BY DEF NeverSpins
<1>1. /\ WaitEnds(panel, conn, up, down) /\ LinkFits(conn, session, up, down)
      /\ LinkTyped(conn, session, up, down) /\ conn \in Connections
  BY DEF WebIInv, LinkIInv, LinkTyped
<1>2. conn.phase = "open" BY <1>1 DEF Connections, LinkFits
<1>3. (\A i \in DOMAIN up : up[i] \in UpMessages) /\ (\A i \in DOMAIN down : down[i] \in DownMessages)
  BY <1>1, LinkTypes
<1>4. CASE IsAsked(conn, up, down)
  <2>1. CASE \E i \in DOMAIN up : up[i].type = "view" /\ up[i].mode = conn.desired
    <3>1. PICK i \in DOMAIN up : up[i].type = "view" /\ up[i].mode = conn.desired BY <2>1
    <3>2. PICK m : m = up[i] OBVIOUS
    <3>3. m = ViewMessage(m.mode) BY <1>3, <3>1, <3>2, MessagesAre
    <3> QED BY <3>1, <3>2, <3>3
  <2>2. CASE \E i \in DOMAIN down : down[i].type = "view-state" /\ down[i].mode = conn.desired
    <3>1. PICK i \in DOMAIN down : down[i].type = "view-state" /\ down[i].mode = conn.desired
      BY <2>2
    <3>2. PICK m : m = down[i] OBVIOUS
    <3>3. m = ViewState(m.mode) BY <1>3, <3>1, <3>2, MessagesAre
    <3> QED BY <3>1, <3>2, <3>3 DEF InDown
  <2>3. CASE IsOver(down) BY <2>3 DEF IsOver, Over
  <2> QED BY <1>4, <2>1, <2>2, <2>3 DEF IsAsked
<1>5. CASE Suspended(panel) \/ conn.resume = TRUE \/ conn.first = TRUE
  BY <1>1, <1>5 DEF Suspended, LinkFits, NoEpoch
<1> QED BY <1>1, <1>2, <1>4, <1>5 DEF WaitEnds

\* The page and the daemon agree on who controls the Screen; the input of the page is taken in its
\* order; nothing stays pressed that nobody lets go; the page never waits for nothing.
THEOREM WebAgreesWithDaemon == WebSpec => []WebControlAgrees
<1>1. WebInit => WebIInv BY InitKeeps
<1>2. WebIInv /\ [WebNext]_webVars => WebIInv' BY WebStepKeeps
<1>3. WebIInv => WebControlAgrees
  BY WebIsTyped, PageIsBacked, ButtonsAreLetGo, InputArrivesInOrder, WaitingEnds
  DEF WebControlAgrees
<1> QED BY <1>1, <1>2, <1>3, PTL DEF WebSpec
=============================================================================
