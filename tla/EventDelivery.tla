--------------------------- MODULE EventDelivery ----------------------------
(***************************************************************************)
(* How a browser tab learns that a Job has changed: EventHub and _stream   *)
(* (events.py) on the server, useApiEvents (api/events.ts) and useJobBoard *)
(* (jobs/useJobs.ts) in the tab.                                           *)
(*                                                                         *)
(* An event only makes the tab read the Jobs again.  Queues drop their     *)
(* oldest event when they are full, connections break unnoticed, a tab may *)
(* find no free subscription, and a read may be overtaken by a change.     *)
(***************************************************************************)
EXTENDS Naturals, Sequences, FiniteSets

CONSTANTS
  Tabs,
  QueueSize,       \* QUEUE_SIZE
  MaxSubscribers,  \* MAX_SUBSCRIBERS
  MaxChanges,      \* bound: changes of the Jobs
  MaxBreaks        \* bound: connections that break

ASSUME QueueAssumption == QueueSize \in Nat \ {0}
ASSUME SubscribersAssumption == MaxSubscribers \in Nat \ {0}

VARIABLES
  version,     \* the state of the server's Jobs: the number of changes so far
  slots,       \* server: the subscriptions, [a set of Tabs -> queue of events]
  socket,      \* [Tabs -> "closed" or "open"], as the tab sees it
  connected,   \* Tabs that have been connected before: connectedBefore
  firstSeen,   \* [Tabs -> version when it first connected]
  board,       \* [Tabs -> the version the tab shows]
  reading,     \* [Tabs -> "no", "asked" or "found"]
  found,       \* [Tabs -> the version a read has found]
  unread,      \* Tabs whose last read failed: the query shows its error
  breaks

deliveryVars == <<version, slots, socket, connected, firstSeen, board, reading, found,
                  unread, breaks>>

Versions == 0 .. MaxChanges

DeliveryTypeOK ==
  /\ version \in Versions
  /\ DOMAIN slots \subseteq Tabs
  /\ \A t \in DOMAIN slots : Len(slots[t]) <= QueueSize
  /\ socket \in [Tabs -> {"closed", "open"}]
  /\ board \in [Tabs -> Versions]
  /\ connected \subseteq Tabs /\ unread \subseteq Tabs

\* The tab is mounted: the Jobs are asked for, and the connection is tried.
DeliveryInit ==
  /\ version = 0
  /\ slots = <<>>
  /\ socket = [t \in Tabs |-> "closed"]
  /\ connected = {}
  /\ firstSeen = [t \in Tabs |-> 0]
  /\ board = [t \in Tabs |-> 0]
  /\ reading = [t \in Tabs |-> "asked"]
  /\ found = [t \in Tabs |-> 0]
  /\ unread = {}
  /\ breaks = 0

-----------------------------------------------------------------------------
(* The server.                                                             *)

\* Mutant: a full queue is emptied, the new event with it.
EmptiedWhenFull(q, e) == IF Len(q) = QueueSize THEN <<>> ELSE Append(q, e)

\* _broadcast to one queue: the oldest event makes room.
Queued(q, e) == Append(IF Len(q) = QueueSize THEN Tail(q) ELSE q, e)

\* A Job changes: committed, and then published to every subscription.
Change ==
  /\ version < MaxChanges
  /\ version' = version + 1
  /\ slots' = [t \in DOMAIN slots |-> Queued(slots[t], version + 1)]
  /\ UNCHANGED <<socket, connected, firstSeen, board, reading, unread, found, breaks>>

\* A refetch cancels the one under way: what that would have found is not used.
Refetch(t) == reading' = [reading EXCEPT ![t] = "asked"]

\* accept and subscribe, if there is room and the subscription of a former
\* connection of this tab is gone (a model of one queue for each tab); the tab
\* reads again if this is not its first connection.
Connect(t) ==
  /\ socket[t] = "closed"
  /\ t \notin DOMAIN slots
  /\ Cardinality(DOMAIN slots) < MaxSubscribers
  /\ slots' = [u \in DOMAIN slots \cup {t} |-> IF u = t THEN <<>> ELSE slots[u]]
  /\ socket' = [socket EXCEPT ![t] = "open"]
  /\ connected' = connected \cup {t}
  /\ firstSeen' = IF t \in connected THEN firstSeen ELSE [firstSeen EXCEPT ![t] = version]
  /\ IF t \in connected THEN Refetch(t) ELSE UNCHANGED reading
  /\ UNCHANGED <<version, board, unread, found, breaks>>

\* _stream sends the oldest event; the tab invalidates its query.
Deliver(t) ==
  /\ t \in DOMAIN slots
  /\ socket[t] = "open"
  /\ slots[t] # <<>>
  /\ slots' = [slots EXCEPT ![t] = Tail(@)]
  /\ Refetch(t)
  /\ UNCHANGED <<version, socket, connected, firstSeen, board, unread, found, breaks>>

\* _stream only sends: it notices a broken connection when an event or the
\* heartbeat cannot be sent, and gives the subscription back.
Unsubscribe(t) ==
  /\ t \in DOMAIN slots
  /\ socket[t] = "closed"
  /\ slots' = [u \in DOMAIN slots \ {t} |-> slots[u]]
  /\ UNCHANGED <<version, socket, connected, firstSeen, board, reading, unread, found, breaks>>

\* SEND_TIMEOUT_SECONDS: the tab does not take what it is sent.
SendTimesOut(t) ==
  /\ t \in DOMAIN slots
  /\ socket[t] = "open"
  /\ breaks < MaxBreaks
  /\ breaks' = breaks + 1
  /\ slots' = [u \in DOMAIN slots \ {t} |-> slots[u]]
  /\ socket' = [socket EXCEPT ![t] = "closed"]
  /\ UNCHANGED <<version, connected, firstSeen, board, reading, unread, found>>

-----------------------------------------------------------------------------
(* The tab.                                                                *)

\* onclose; the tab tries again after a delay.
Break(t) ==
  /\ socket[t] = "open"
  /\ breaks < MaxBreaks
  /\ breaks' = breaks + 1
  /\ socket' = [socket EXCEPT ![t] = "closed"]
  /\ UNCHANGED <<version, slots, connected, firstSeen, board, reading, unread, found>>

\* The first of the lists fetchJobBoard reads.
Read(t) ==
  /\ reading[t] = "asked"
  /\ reading' = [reading EXCEPT ![t] = "found"]
  /\ found' = [found EXCEPT ![t] = version]
  /\ UNCHANGED <<version, slots, socket, connected, firstSeen, board, unread, breaks>>

\* The answers arrive; the lists are of this version or a later one.
Show(t) ==
  /\ reading[t] = "found"
  /\ board' = [board EXCEPT ![t] = found[t]]
  /\ reading' = [reading EXCEPT ![t] = "no"]
  /\ unread' = unread \ {t}
  /\ UNCHANGED <<version, slots, socket, connected, firstSeen, found, breaks>>

\* The read and its one retry fail: the query keeps its data and its error.
ReadFails(t) ==
  /\ reading[t] # "no"
  /\ breaks < MaxBreaks
  /\ breaks' = breaks + 1
  /\ reading' = [reading EXCEPT ![t] = "no"]
  /\ unread' = unread \cup {t}
  /\ UNCHANGED <<version, slots, socket, connected, firstSeen, board, found>>

DeliveryNext ==
  \/ Change
  \/ \E t \in Tabs :
       \/ Connect(t)
       \/ Deliver(t)
       \/ Unsubscribe(t)
       \/ SendTimesOut(t)
       \/ Break(t)
       \/ Read(t)
       \/ Show(t)
       \/ ReadFails(t)

DeliverySpec == DeliveryInit /\ [][DeliveryNext]_deliveryVars

-----------------------------------------------------------------------------
(* Properties.                                                             *)

Settled(t) == socket[t] = "open" /\ slots[t] = <<>> /\ reading[t] = "no" /\ t \notin unread

\* A connected tab that has nothing more to receive and to read shows the Jobs
\* as they are, however many events its queue has dropped and however often it
\* was disconnected; but not a change that came after its first read and before
\* its first connection, until the next one.
BoardCurrent ==
  \A t \in Tabs : t \in DOMAIN slots /\ Settled(t) =>
    board[t] = version \/ version = firstSeen[t]

\* A tab that is connected is subscribed: it is never connected and deaf.
ConnectedIsSubscribed == \A t \in Tabs : socket[t] = "open" => t \in DOMAIN slots

DeliverySafe ==
  /\ BoardCurrent
  /\ ConnectedIsSubscribed
  /\ Cardinality(DOMAIN slots) <= MaxSubscribers
=============================================================================
