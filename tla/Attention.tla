------------------------------ MODULE Attention ------------------------------
(* The unread output of one Bot: what the daemon counts (bots.ts), and the page *)
(* that shows one of the Bot's Threads and acknowledges what its user reached   *)
(* (TranscriptAttention.tsx, index.tsx).  The page learns the rows of a Thread  *)
(* and the count by two queries, each refetched at any time.                    *)
EXTENDS Naturals, Sequences, FiniteSetsExt

CONSTANTS Talks,      \* the Bot's Threads
          MaxRows,    \* bound: rows of all Threads
          MaxReads,   \* bound: acknowledgements sent
          MaxVisits   \* bound: how often the user selects a Thread or scrolls

ASSUME AttentionAssumption ==
  /\ {MaxRows, MaxReads, MaxVisits} \subseteq Nat
  /\ "none" \notin Talks

VARIABLES talks,    \* the Threads: how many rows, the response being written (0: none), those ended
          unread,   \* bot_state: how many, and the Thread of the last
          view,     \* the page: what it shows, where it is, and what it acknowledged
          reads,    \* the acknowledgements sent
          unseen,   \* ghost: ended responses the user has not reached since
          visits    \* ghost: how often the user acted

attentionVars == <<talks, unread, view, reads, unseen, visits>>

NoRead == [of |-> "none", rows |-> 0]
NothingUnread == [count |-> 0, of |-> "none"]
NoRows == [rows |-> 0, open |-> 0, ended |-> {}]

RowRecord == [rows : Nat, open : Nat, ended : SUBSET Nat]
UnreadRecord == [count : Nat, of : Talks \cup {"none"}]

ViewRecord ==
  [shows : Talks, known : [Talks -> RowRecord], unread : UnreadRecord, bottom : BOOLEAN,
   latest : BOOLEAN, frame : {"none", "follow", "look"}, key : [of : Talks \cup {"none"}, rows : Nat]]
ReadRecord ==
  [of : Talks, rows : Nat, phase : {"sent", "cleared", "lost", "done"}, shown : SUBSET Nat]

AttentionTypeOK ==
  /\ talks \in [Talks -> RowRecord]
  /\ \A h \in Talks : talks[h].open <= talks[h].rows /\ talks[h].ended \subseteq 1..talks[h].rows
  /\ unread \in UnreadRecord /\ (unread.of = "none" => unread.count = 0)
  /\ view \in ViewRecord /\ reads \in Seq(ReadRecord)
  /\ unseen \subseteq [of : Talks, row : Nat]

AttentionInit ==
  /\ talks = [h \in Talks |-> NoRows]
  /\ unread = NothingUnread
  /\ \E h \in Talks :
       view = [shows |-> h, known |-> [k \in Talks |-> NoRows], unread |-> NothingUnread,
               bottom |-> TRUE, latest |-> TRUE, frame |-> "none", key |-> NoRead]
  /\ reads = <<>>
  /\ unseen = {}
  /\ visits = 0

-----------------------------------------------------------------------------
(* The daemon.                                                                *)

RoomForRow == MapThenSumSet(LAMBDA h : talks[h].rows, Talks) < MaxRows

\* A message of the user, or a process row of a Turn.
RowAppended(h) ==
  /\ RoomForRow
  /\ talks' = [talks EXCEPT ![h].rows = @ + 1]
  /\ UNCHANGED <<unread, view, reads, unseen, visits>>

\* A response starts with a row of its own, which its text goes to.
ResponseStarts(h) ==
  /\ RoomForRow /\ talks[h].open = 0
  /\ talks' = [talks EXCEPT ![h].rows = @ + 1, ![h].open = talks[h].rows + 1]
  /\ UNCHANGED <<unread, view, reads, unseen, visits>>

\* A response that ends with a text is counted, and its Thread is the one to open.
ResponseEnds(h) ==
  /\ talks[h].open # 0
  /\ talks' = [talks EXCEPT ![h].open = 0, ![h].ended = @ \cup {talks[h].open}]
  /\ unread' = [count |-> unread.count + 1, of |-> h]
  /\ unseen' = unseen \cup {[of |-> h, row |-> talks[h].open]}
  /\ UNCHANGED <<view, reads, visits>>

\* clearUnread: whatever is counted, if the Thread is the one to open.
ReadArrives(i) ==
  /\ reads[i].phase = "sent"
  /\ \/ /\ unread' = IF unread.of = reads[i].of THEN NothingUnread ELSE unread
        /\ \E phase \in {"cleared", "lost"} : reads' = [reads EXCEPT ![i].phase = phase]
     \/ unread' = unread /\ reads' = [reads EXCEPT ![i].phase = "lost"]
  /\ UNCHANGED <<talks, view, unseen, visits>>

-----------------------------------------------------------------------------
(* The page.                                                                  *)

\* What the user has reached, once the page is v.
Reach(v) ==
  unseen' = {u \in unseen : ~(v.bottom /\ u.of = v.shows /\ u.row \in v.known[v.shows].ended)}

\* Mutant: what was acknowledged once in a Thread is not acknowledged again.
UnaskedThread(v, key) == v.key.of # key.of

\* readInFlightRef: a row is acknowledged once.
Unasked(v, key) == v.key # key

\* acknowledgeIfLatest: unread output of the Thread that is shown is acknowledged at its end, once
\* for every latest row.
Acknowledge(v) ==
  LET key == [of |-> v.shows, rows |-> v.known[v.shows].rows]
      asks == /\ v.bottom /\ v.unread.count > 0 /\ v.unread.of = v.shows
              /\ key.rows > 0 /\ Unasked(v, key)
  IN /\ view' = [v EXCEPT !.latest = v.bottom, !.key = IF asks THEN key ELSE @]
     /\ IF asks THEN /\ Len(reads) < MaxReads
                     /\ reads' = Append(reads, [of |-> key.of, rows |-> key.rows, phase |-> "sent",
                                                shown |-> v.known[key.of].ended])
        ELSE UNCHANGED reads
     /\ Reach(v)

\* Every rendering runs the effects again, as onRead is another function each time: the frame they
\* request follows the end of the Thread if the page was there last. What is new may lie below the
\* window.
Rerender(v) ==
  \E bottom \in {FALSE, view.bottom} :
    LET w == [v EXCEPT !.frame = IF v.latest THEN "follow" ELSE "look", !.bottom = bottom]
    IN view' = w /\ Reach(w)

\* The rows of the Thread that is shown are fetched.
RowsHeard ==
  /\ view.known[view.shows] # talks[view.shows]
  /\ Rerender([view EXCEPT !.known[view.shows] = talks[view.shows]])
  /\ UNCHANGED <<talks, unread, reads, visits>>

\* The Bots are fetched.
BotsHeard ==
  /\ view.unread # unread
  /\ Rerender([view EXCEPT !.unread = unread])
  /\ UNCHANGED <<talks, unread, reads, visits>>

\* The frame: the window is moved to the end, or looked at where it is.
Frame ==
  /\ view.frame # "none"
  /\ Acknowledge([view EXCEPT !.frame = "none", !.bottom = (view.frame = "follow") \/ @])
  /\ UNCHANGED <<talks, unread, visits>>

\* The user scrolls.
Scroll ==
  /\ visits < MaxVisits /\ visits' = visits + 1
  /\ Acknowledge([view EXCEPT !.bottom = ~@])
  /\ UNCHANGED <<talks, unread>>

\* The user opens another Thread: the page starts at its end, with nothing acknowledged.
OpenTalk(h) ==
  /\ visits < MaxVisits /\ visits' = visits + 1
  /\ h # view.shows
  /\ Rerender([view EXCEPT !.shows = h, !.latest = TRUE, !.key = NoRead])
  /\ UNCHANGED <<talks, unread, reads>>

\* The acknowledgement is answered. One that failed may be sent again.
ReadAnswered(i) ==
  /\ reads[i].phase \in {"cleared", "lost"}
  /\ reads' = [reads EXCEPT ![i].phase = "done"]
  /\ view' = IF reads[i].phase = "lost" /\ view.key = [of |-> reads[i].of, rows |-> reads[i].rows]
             THEN [view EXCEPT !.key = NoRead] ELSE view
  /\ UNCHANGED <<talks, unread, unseen, visits>>

AttentionNext ==
  \/ \E h \in Talks : RowAppended(h) \/ ResponseStarts(h) \/ ResponseEnds(h) \/ OpenTalk(h)
  \/ \E i \in DOMAIN reads : ReadArrives(i) \/ ReadAnswered(i)
  \/ RowsHeard \/ BotsHeard \/ Frame \/ Scroll

AttentionSpec == AttentionInit /\ [][AttentionNext]_attentionVars

-----------------------------------------------------------------------------
(* Properties.                                                                *)

\* What an acknowledgement tells of was reached by the user: the count it clears may hold other
\* output, of another Thread or newer than what the page had fetched, but none it left below.
ReadWasReached ==
  \A i \in DOMAIN reads :
    reads[i].phase = "sent" =>
      ~\E u \in unseen : u.of = reads[i].of /\ u.row \in reads[i].shown

\* The page knows all and nothing is under way.
AllHeard ==
  /\ view.frame = "none" /\ view.unread = unread /\ view.known[view.shows] = talks[view.shows]
  /\ \A i \in DOMAIN reads : reads[i].phase = "done"

\* A user who is at the end of an unread Thread has read it, unless the acknowledgement of its last
\* row was spent while the row was still being written, or it failed.
EndIsRead ==
  AllHeard /\ view.bottom /\ unread.count > 0 /\ unread.of = view.shows /\ view.key # NoRead =>
    /\ view.key.rows = view.known[view.shows].rows
    /\ \E i \in DOMAIN reads :
         /\ reads[i].of = view.key.of /\ reads[i].rows = view.key.rows
         /\ view.known[view.shows].ended \ reads[i].shown # {}

AttentionIsHonest == AttentionTypeOK /\ ReadWasReached /\ EndIsRead
=============================================================================
