---------------------------- MODULE EventReplay ----------------------------
(* How a browser page follows the daemon: the durable event log with its      *)
(* cursors, the socket that replays it after a cursor and then streams, the   *)
(* page's pump that invalidates cached queries and notifies, and the queries. *)
(*                                                                            *)
(* Every event stands for one change of what the queries read, so the cursor  *)
(* of the latest one is the version a query answers with. Start-up recovery   *)
(* announces nothing, and route() has no case for some events (bot.avatar_*,  *)
(* thread.updated, agent.event_rejected): what only those tell is shown after *)
(* the next poll or the next event that is routed.                            *)
EXTENDS Naturals, Sequences, FiniteSets

CONSTANTS Topics,         \* Bots that changes are about, and that may be deleted
          NoTopic,        \* of the event of a deletion, which no deletion removes
          MaxChanges,   \* bound: events that are appended
          MaxRetries,   \* the reconnects after which the pump forgets its cursor; 5 in the code
          MaxDrops      \* bound: connections that are lost or refused, and fetches that fail

ASSUME ReplayAssumption == /\ NoTopic \notin Topics
                           /\ {MaxChanges, MaxRetries, MaxDrops} \subseteq Nat

VARIABLES log,       \* the rows of the events table, the last cursor given, and that of the
                     \* last event that route() has a case for (ghost)
          pump,      \* the pump: its cursor, whether it notifies, its retries and its socket
          channel,   \* what the socket carries to the page
          cache,     \* a cached query and the fetch that is in flight for it
          told       \* ghost: the last cursor when the page was opened, whether an event up to it
                     \* was notified, and drops

replayVars == <<log, pump, channel, cache, told>>

NoCursor == 0
NoFetch == [state |-> "idle", version |-> 0]

ReplayInit ==
  \E before \in 0..2, b \in Topics :
    /\ log = [events |-> {[cursor |-> i, bot |-> b, completed |-> TRUE, routed |-> TRUE] : i \in 1..before},
              last |-> before, shown |-> before]
    /\ pump = [cursor |-> NoCursor, notifies |-> FALSE, retries |-> 0, socket |-> "closed"]
    /\ channel = <<>>
    /\ cache = [version |-> 0, stale |-> TRUE, fetch |-> NoFetch]
    /\ told = [early |-> FALSE, opened |-> before, drops |-> 0]

Written(message) == IF pump.socket = "subscribed" THEN Append(channel, message) ELSE channel
EventMessage(e) == [type |-> "event", event |-> e]

\* Every handler of the daemon appends what it changed, in the same step; listeners send at once.
AppendEvent(b, completed, routed, kept) ==
  LET e == [cursor |-> log.last + 1, bot |-> b, completed |-> completed, routed |-> routed] IN
  /\ log.last < MaxChanges
  /\ log' = [events |-> kept \cup {e}, last |-> e.cursor,
             shown |-> IF routed THEN e.cursor ELSE log.shown]
  /\ channel' = Written(EventMessage(e))
  /\ UNCHANGED <<pump, cache, told>>

\* The event of a Turn that completed is routed.
Change(b, completed, routed) ==
  (completed => routed) /\ AppendEvent(b, completed, routed, log.events)

\* The commit of a deletion removes the Bot's events and announces that it is gone.
BotIsDeleted(b) ==
  /\ \E e \in log.events : e.bot = b
  /\ AppendEvent(NoTopic, FALSE, TRUE, {e \in log.events : e.bot # b})

-----------------------------------------------------------------------------
(* The socket. *)

\* The pump connects with the cursor of that moment, and notifies at once if it has one.
Connect ==
  /\ pump.socket = "closed"
  /\ pump' = [pump EXCEPT !.socket = "connecting", !.notifies = pump.cursor # NoCursor]
  /\ UNCHANGED <<log, channel, cache, told>>

\* The rows in the ascending order of their cursors.
Upto(es, e) == {g \in es : g.cursor <= e.cursor}
Ascending(es) == [i \in 1..Cardinality(es) |-> CHOOSE e \in es : Cardinality(Upto(es, e)) = i]

After(last) == {e \in log.events : e.cursor > last}
Replay(last) == Ascending(After(last))

\* A page whose cursor is before the oldest row that is left cannot be caught up by a replay.
BehindRetention(last) == log.events # {} /\ \A e \in log.events : last + 1 < e.cursor

\* What follows a replay; the daemon subscribes the socket before it handles anything else.
Subscribed(p) == [p EXCEPT !.socket = "subscribed", !.retries = 0]

Hello ==
  /\ pump.socket = "connecting"
  /\ channel' = (IF BehindRetention(pump.cursor) THEN <<[type |-> "snapshot_required"]>>
                 ELSE [i \in DOMAIN Replay(pump.cursor) |-> EventMessage(Replay(pump.cursor)[i])])
                \o <<[type |-> "hello"]>>
  /\ pump' = Subscribed(pump)
  /\ UNCHANGED <<log, cache, told>>

\* Mutant: a query that is being fetched will be fresh.
InvalidatedLazily == [cache EXCEPT !.stale = cache.fetch.state = "idle"]

\* invalidateQueries: the query is stale, and a fetch in flight is given up for a new one.
Invalidated == [cache EXCEPT !.stale = TRUE, !.fetch = NoFetch]

\* route(): the queries that show what changed, or none if it has no case for the event.
Routed(e) == IF e.routed THEN Invalidated ELSE cache

\* Only a Turn that completed is notified, and none before the replay has been caught up.
Notifies(e) == pump.notifies /\ e.completed

OnEvent(e) ==
  /\ pump' = [pump EXCEPT !.cursor = e.cursor]
  /\ cache' = Routed(e)
  /\ told' = [told EXCEPT !.early = @ \/ (Notifies(e) /\ e.cursor <= told.opened)]

\* Mutant: the pump starts over, but what the page shows is kept.
OnSnapshotRequiredKeeping ==
  /\ pump' = [pump EXCEPT !.cursor = NoCursor, !.notifies = FALSE]
  /\ UNCHANGED <<cache, told>>

OnSnapshotRequired ==
  /\ pump' = [pump EXCEPT !.cursor = NoCursor, !.notifies = FALSE]
  /\ cache' = Invalidated
  /\ UNCHANGED told

OnCaughtUp == pump' = [pump EXCEPT !.notifies = TRUE] /\ UNCHANGED <<cache, told>>

ReceiveMessage ==
  /\ channel # <<>>
  /\ LET m == Head(channel) IN
       \/ m.type = "event" /\ OnEvent(m.event)
       \/ m.type = "snapshot_required" /\ OnSnapshotRequired
       \/ m.type = "hello" /\ OnCaughtUp
  /\ channel' = Tail(channel)
  /\ UNCHANGED log

\* The socket is refused or lost, with what it carried: after enough retries the pump starts over.
SocketCloses ==
  LET again == pump.retries + 1 IN
  /\ pump.socket # "closed" /\ told.drops < MaxDrops
  /\ pump' = [pump EXCEPT !.socket = "closed", !.retries = IF again > MaxRetries THEN @ ELSE again,
                          !.cursor = IF again > MaxRetries THEN NoCursor ELSE @]
  /\ cache' = IF again > MaxRetries THEN Invalidated ELSE cache
  /\ channel' = <<>>
  /\ told' = [told EXCEPT !.drops = @ + 1]
  /\ UNCHANGED log

-----------------------------------------------------------------------------
(* The query: fetched when stale and when it is polled. *)

Fetch ==
  /\ cache.fetch.state = "idle"
  /\ cache' = [cache EXCEPT !.fetch.state = "asked"]
  /\ UNCHANGED <<log, pump, channel, told>>

FetchReads ==
  /\ cache.fetch.state = "asked"
  /\ cache' = [cache EXCEPT !.fetch = [state |-> "answered", version |-> log.last]]
  /\ UNCHANGED <<log, pump, channel, told>>

FetchAnswers ==
  /\ cache.fetch.state = "answered"
  /\ cache' = [version |-> cache.fetch.version, stale |-> FALSE, fetch |-> NoFetch]
  /\ UNCHANGED <<log, pump, channel, told>>

FetchFails ==
  /\ cache.fetch.state # "idle" /\ told.drops < MaxDrops
  /\ cache' = [cache EXCEPT !.fetch = NoFetch]
  /\ told' = [told EXCEPT !.drops = @ + 1]
  /\ UNCHANGED <<log, pump, channel>>

ReplayNext ==
  \/ \E b \in Topics : BotIsDeleted(b) \/ \E completed, routed \in BOOLEAN : Change(b, completed, routed)
  \/ Connect \/ Hello \/ ReceiveMessage \/ SocketCloses
  \/ Fetch \/ FetchReads \/ FetchAnswers \/ FetchFails

\* A browser reconnects, a page handles its messages, and a stale query is fetched.
ReplayFairness ==
  /\ WF_replayVars(Connect \/ Hello \/ ReceiveMessage)
  /\ WF_replayVars((cache.stale /\ Fetch) \/ FetchReads \/ FetchAnswers)

ReplaySpec == ReplayInit /\ [][ReplayNext]_replayVars /\ ReplayFairness

-----------------------------------------------------------------------------
(* Properties. *)

ReplayTypeOK ==
  /\ pump.cursor \in 0..log.last /\ pump.retries \in 0..MaxRetries
  /\ pump.socket \in {"closed", "connecting", "subscribed"}
  /\ cache.version \in 0..log.last /\ cache.fetch.state \in {"idle", "asked", "answered"}

\* What happened before a page was opened is never notified, unless a socket was lost in the
\* middle of its first replay: the next one starts with a cursor, and notifies the rest.
HistoryIsSilent == told.drops = 0 => ~told.early

\* A change whose event is routed and that the page does not show yet will reach it without any
\* poll: the query is stale or its fetch reads it, its event or a snapshot is under way, or the
\* next connection replays it. No loss of a socket, deletion, answer or event that is not routed
\* hides it.
NothingMissed ==
  /\ ReplayTypeOK /\ HistoryIsSilent
  /\ cache.version < log.shown =>
       \/ cache.stale
       \/ cache.fetch.state = "answered" /\ cache.fetch.version >= log.shown
       \/ pump.socket = "subscribed" /\ \E i \in DOMAIN channel :
            \/ channel[i].type = "snapshot_required"
            \/ channel[i].type = "event" /\ channel[i].event.cursor = log.shown
       \/ pump.socket # "subscribed" /\ pump.cursor < log.shown
            /\ (BehindRetention(pump.cursor)
                  \/ \E e \in After(pump.cursor) : e.cursor = log.shown /\ e.routed)

\* Once changes and failures end, the page shows all that routed events have told.
PageCatchesUp == <>[](cache.version >= log.shown)
=============================================================================
