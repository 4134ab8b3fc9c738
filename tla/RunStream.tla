----------------------------- MODULE RunStream ------------------------------
(***************************************************************************)
(* A page follows a run. The run's goroutines (its loop, and the copiers of *)
(* a tool's stdout and stderr) stamp an event, journal it and then hand it  *)
(* to SSEBroadcaster, which copies its subscribers and sends without        *)
(* waiting. The page loads the run, remembers the newest stamp as a cursor, *)
(* subscribes, reads what the journal has beyond the cursor, and then lives *)
(* on its channel; EventSource comes back by itself with the old cursor.    *)
(* Some events (failures, interruptions) are journaled and never emitted.   *)
(*                                                                         *)
(* Bounds: StreamWriters, MaxEvents, MaxConnections; ChannelSize is 8 in the code.*)
(***************************************************************************)
EXTENDS Naturals, Sequences, FiniteSetsExt, SequencesExt, Sorted

CONSTANTS StreamWriters, MaxEvents, ChannelSize, MaxConnections

ASSUME RunStreamAssumption ==
  /\ MaxEvents \in Nat /\ ChannelSize \in Nat \ {0} /\ MaxConnections \in Nat

VARIABLES
  writer,     \* per writer: the event it works on, how far it is, the channel it copied
  journaled,  \* the committed events
  page,       \* [pc, cursor, conn, backlog] of the page and its request handler
  channel,    \* the subscription's channel
  delivered,  \* what this connection has written to the page
  overflowed  \* what this connection's channel had no room for

runStreamVars == <<writer, journaled, page, channel, delivered, overflowed>>

Stamped == journaled \cup {writer[w].event : w \in {x \in StreamWriters : writer[x].pc = "stamped"}}
NotWriting == [pc |-> "idle", event |-> [at |-> 0, by |-> "", silent |-> FALSE], to |-> 0]

RunStreamInit ==
  /\ writer = [w \in StreamWriters |-> NotWriting]
  /\ journaled = {}
  /\ page = [pc |-> "away", cursor |-> 0, backlog |-> <<>>, conn |-> 0]
  /\ channel = <<>> /\ delivered = <<>> /\ overflowed = {}

Registered == page.pc \in {"history", "live"}

-----------------------------------------------------------------------------
(* The run's goroutines.                                                   *)

\* The time is taken before the transaction.
Stamp(w) ==
  /\ writer[w].pc = "idle" /\ Cardinality(Stamped) < MaxEvents
  /\ \E silent \in BOOLEAN :
       writer' = [writer EXCEPT ![w].pc = "stamped",
         ![w].event = [at |-> Cardinality(Stamped) + 1, by |-> w, silent |-> silent]]
  /\ UNCHANGED <<journaled, page, channel, delivered, overflowed>>

\* AppendEvent. What ends a run otherwise than well is never emitted.
Commit(w) ==
  /\ writer[w].pc = "stamped"
  /\ journaled' = journaled \cup {writer[w].event}
  /\ writer' = [writer EXCEPT ![w] = IF @.event.silent THEN NotWriting ELSE [writer[w] EXCEPT !.pc = "committed"]]
  /\ UNCHANGED <<page, channel, delivered, overflowed>>

\* Emit, under the lock.
CopySubscribers(w) ==
  /\ writer[w].pc = "committed"
  /\ writer' = [writer EXCEPT ![w].pc = "sending", ![w].to = IF Registered THEN page.conn ELSE 0]
  /\ UNCHANGED <<journaled, page, channel, delivered, overflowed>>

\* Mutant: the channel has one place more than its make says.
RoomForOneMore == Len(channel) <= ChannelSize

Room == Len(channel) < ChannelSize

\* Emit, outside the lock: a full channel loses the event.
SendEvent(w) ==
  /\ writer[w].pc = "sending"
  /\ writer' = [writer EXCEPT ![w] = NotWriting]
  /\ \/ /\ writer[w].to = page.conn /\ Registered /\ Room
        /\ channel' = Append(channel, writer[w].event) /\ UNCHANGED overflowed
     \/ /\ writer[w].to = page.conn /\ Registered /\ ~Room
        /\ overflowed' = overflowed \cup {writer[w].event} /\ UNCHANGED channel
     \/ /\ ~(writer[w].to = page.conn /\ Registered)
        /\ UNCHANGED <<channel, overflowed>>
  /\ UNCHANGED <<journaled, page, delivered>>

-----------------------------------------------------------------------------
(* The page and handleRunEvents.                                           *)

\* The page's detail, with the cursor of the last event by time.
LoadPage ==
  /\ page.pc = "away" /\ journaled # {}
  /\ page' = [page EXCEPT !.pc = "loaded", !.cursor = Max({e.at : e \in journaled})]
  /\ UNCHANGED <<writer, journaled, channel, delivered, overflowed>>

SubscribePage ==
  /\ page.pc = "loaded" /\ page.conn < MaxConnections
  /\ page' = [page EXCEPT !.pc = "history", !.conn = @ + 1]
  /\ channel' = <<>> /\ delivered' = <<>> /\ overflowed' = {}
  /\ UNCHANGED <<writer, journaled>>

\* Mutant: everything in the journal counts as known to the page.
SplitNothing(cursor) == {}

\* splitRunEventHistory with compareRunEventCursor: the part to send again.
SplitRunEventHistory(cursor) == {e \in journaled : e.at > cursor}

InTime(events) == SortedBy(events, {d \in events \X events : d[1].at < d[2].at})

\* loadRunEventsForNode.
LoadHistory ==
  /\ page.pc = "history"
  /\ page' = [page EXCEPT !.pc = "live",
                !.backlog = InTime(SplitRunEventHistory(page.cursor))]
  /\ UNCHANGED <<writer, journaled, channel, delivered, overflowed>>

WriteBackfill ==
  /\ page.pc = "live" /\ page.backlog # <<>>
  /\ delivered' = Append(delivered, Head(page.backlog))
  /\ page' = [page EXCEPT !.backlog = Tail(@)]
  /\ UNCHANGED <<writer, journaled, channel, overflowed>>

\* Mutant: only what came through the channel is remembered.
SeenNothing == {}

Seen == ToSet(delivered)

\* Mutant: the channel is served while the backfill is being written.
TurnOfAny == page.pc = "live"

TurnOfChannel == page.pc = "live" /\ page.backlog = <<>>

WriteLive ==
  /\ TurnOfChannel /\ channel # <<>>
  /\ channel' = Tail(channel)
  /\ delivered' = IF Head(channel) \in Seen THEN delivered ELSE Append(delivered, Head(channel))
  /\ UNCHANGED <<writer, journaled, page, overflowed>>

\* The connection ends: the browser asks again with the same address, or the
\* page is left.
Unsubscribe ==
  /\ Registered
  /\ \/ page' = [page EXCEPT !.pc = "loaded", !.backlog = <<>>]
     \/ page' = [page EXCEPT !.pc = "away", !.cursor = 0, !.backlog = <<>>]
  /\ channel' = <<>> /\ delivered' = <<>> /\ overflowed' = {}
  /\ UNCHANGED <<writer, journaled>>

-----------------------------------------------------------------------------

RunStreamNext ==
  \/ \E w \in StreamWriters : Stamp(w) \/ Commit(w) \/ CopySubscribers(w) \/ SendEvent(w)
  \/ LoadPage \/ SubscribePage \/ LoadHistory \/ WriteBackfill \/ WriteLive \/ Unsubscribe

RunStreamSpec == RunStreamInit /\ [][RunStreamNext]_runStreamVars

-----------------------------------------------------------------------------
(* Properties.                                                             *)

Events == [at : 1..MaxEvents, by : StreamWriters, silent : BOOLEAN]

\* Every variable has its type; the channel keeps its size (Emit's select).
RunStreamTypeOK ==
  /\ \A w \in StreamWriters : writer[w].pc \in {"idle", "stamped", "committed", "sending"}
  /\ journaled \subseteq Events /\ overflowed \subseteq Events
  /\ page.pc \in {"away", "loaded", "history", "live"}
  /\ {page.cursor, page.conn} \subseteq 0..(MaxEvents + MaxConnections)
  /\ ToSet(channel) \cup ToSet(delivered) \cup ToSet(page.backlog) \subseteq Events
  /\ Len(channel) <= ChannelSize

\* An event that is both in the history and in the channel, because it was
\* journaled before the one was read and emitted after the other was
\* registered, is written once (handleRunEvents' seen).
NothingTwice == IsInjective(delivered)

\* A connection sees the events of a goroutine beyond the cursor in the order
\* in which it journaled them, across the seam between backfill and channel.
WritersInOrder ==
  \A i, j \in 1..Len(delivered) :
    i < j /\ delivered[i].by = delivered[j].by /\ delivered[j].at > page.cursor
      => delivered[i].at < delivered[j].at

\* The writer has journaled the event and still has to send it here.
OnItsWay(e) == \E w \in StreamWriters :
  /\ writer[w].event = e
  /\ writer[w].pc = "committed" \/ (writer[w].pc = "sending" /\ writer[w].to = page.conn)

\* Nothing beyond the cursor falls between the page's detail, the history and
\* the channel: a live connection has written it, or will, unless the channel
\* was full or the event is one that nobody emits.
NothingMissed ==
  page.pc = "live" =>
    \A e \in journaled : e.at > page.cursor =>
      \/ e \in ToSet(page.backlog) \cup ToSet(delivered) \cup ToSet(channel) \cup overflowed
      \/ OnItsWay(e) \/ e.silent
=============================================================================
