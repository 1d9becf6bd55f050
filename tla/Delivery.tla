------------------------------ MODULE Delivery ------------------------------
(***************************************************************************)
(* From the channel of the signals to the websockets: SignalWebSocketManager*)
(* (listener thread, broadcast, replay), RealtimeIntegritySequencer,        *)
(* RealtimeReplayBuffer and the /ws/signals route.                          *)
(*                                                                         *)
(* A stream is a type of event, and belongs to one group of the filters.    *)
(* Broadcasts run on one event loop and are suspended only in send_text:    *)
(* the lock is held over no await, and a client that is passed over takes   *)
(* no step of its own.  Sends to one connection end in the order in which   *)
(* they were begun.                                                         *)
(***************************************************************************)
EXTENDS Integers, FiniteSets, Sequences, SequencesExt

CONSTANTS
    Messages,      \* what is published, in turn: [name, id, stream]; id is the payload's event_id
    Clients,
    Filter,        \* stream filters of a client: the streams it asked for, {} for all
    RecentLimit,   \* recent_limit: event ids remembered
    BufferLimit,   \* max_events_per_stream
    MaxPending,    \* bound: messages waiting or being broadcast
    MaxReconnects  \* bound: times the listener loses its connection

ASSUME DeliveryAssumption ==
    /\ Messages \in Seq(ToSet(Messages)) /\ IsFiniteSet(Clients)
    /\ RecentLimit \in Nat \ {0} /\ BufferLimit \in Nat \ {0}
    /\ MaxPending \in Nat \ {0} /\ MaxReconnects \in Nat

VARIABLES
    dvListening,  \* the listener is subscribed
    dvInbox,      \* broadcasts handed to the event loop
    dvSequence,   \* _sequence_by_stream
    dvRecent,     \* _recent_event_ids, oldest first
    dvBuffer,     \* _events_by_stream, oldest first
    dvRegistered, \* _connections
    dvJoined,     \* the place of a connection in their order
    dvOpen,       \* the peer's end: new, open or closed
    dvHandled,    \* the route's coroutine of the connection is in its loop
    dvCasts,      \* broadcasts that await a send: [event, to, stale]
    dvTurn,       \* history: envelopes drawn so far
    dvGot,        \* history: what a client received by broadcast, with whether it was registered
    dvOwed,       \* history: events broadcast since a client registered
    dvDropped,    \* history: clients taken out of the map
    dvReconnects, \* history: connections lost by the listener
    dvPublished   \* history: how many of the messages are published

dvVars == <<dvListening, dvInbox, dvSequence, dvRecent, dvBuffer, dvRegistered, dvJoined, dvOpen, dvHandled,
            dvCasts, dvTurn, dvGot, dvOwed, dvDropped, dvReconnects, dvPublished>>
dvPeers == <<dvJoined, dvOpen, dvHandled>>
dvHistory == <<dvGot, dvOwed, dvDropped>>
dvNumbered == <<dvSequence, dvTurn, dvRecent, dvBuffer>>
dvChannel == <<dvListening, dvInbox, dvReconnects, dvPublished>>

Streams == {m.stream : m \in ToSet(Messages)}
Numbers == 1..Len(Messages)
Event == [name : {m.name : m \in ToSet(Messages)}, id : {m.id : m \in ToSet(Messages)},
          stream : Streams, number : Numbers, turn : Numbers]

DvTypeOK ==
    /\ dvListening \in BOOLEAN /\ dvReconnects \in 0..MaxReconnects
    /\ dvPublished \in 0..Len(Messages) /\ ToSet(dvInbox) \subseteq ToSet(Messages)
    /\ dvSequence \in [Streams -> 0..Len(Messages)]
    /\ Len(dvRecent) <= RecentLimit
    /\ \A s \in Streams : Len(dvBuffer[s]) <= BufferLimit /\ ToSet(dvBuffer[s]) \subseteq Event
    /\ dvRegistered \subseteq Clients /\ dvDropped \subseteq Clients /\ dvJoined \in [Clients -> Nat]
    /\ dvOpen \in [Clients -> {"new", "open", "closed"}] /\ dvHandled \in [Clients -> BOOLEAN]
    /\ \A b \in dvCasts : b.event \in Event /\ {b.to, b.stale} \subseteq SUBSET Clients
    /\ dvOwed \in [Clients -> SUBSET Event]

DvInit ==
    /\ dvListening = TRUE /\ dvInbox = <<>> /\ dvReconnects = 0 /\ dvPublished = 0
    /\ dvSequence = [s \in Streams |-> 0] /\ dvBuffer = [s \in Streams |-> <<>>] /\ dvRecent = <<>>
    /\ dvTurn = 0 /\ dvCasts = {} /\ dvRegistered = {} /\ dvJoined = [c \in Clients |-> 0]
    /\ dvOpen = [c \in Clients |-> "new"] /\ dvHandled = [c \in Clients |-> FALSE]
    /\ dvGot = [c \in Clients |-> <<>>] /\ dvOwed = [c \in Clients |-> {}] /\ dvDropped = {}

Interested(c, event) == Filter[c] = {} \/ event.stream \in Filter[c]
LastFew(seq, n) == IF Len(seq) > n THEN SubSeq(seq, Len(seq) - n + 1, Len(seq)) ELSE seq

-----------------------------------------------------------------------------
(* The channel and the listener thread                                      *)

(* A message published while the listener is away is gone. *)
PublishMessage ==
    /\ dvPublished < Len(Messages) /\ Len(dvInbox) + Cardinality(dvCasts) < MaxPending
    /\ dvPublished' = dvPublished + 1
    /\ dvInbox' = IF dvListening THEN Append(dvInbox, Messages[dvPublished + 1]) ELSE dvInbox
    /\ UNCHANGED <<dvListening, dvReconnects, dvNumbered, dvCasts, dvRegistered, dvPeers, dvHistory>>

LoseChannel ==
    /\ dvListening /\ dvReconnects < MaxReconnects
    /\ dvListening' = FALSE /\ dvReconnects' = dvReconnects + 1
    /\ UNCHANGED <<dvInbox, dvPublished, dvNumbered, dvCasts, dvRegistered, dvPeers, dvHistory>>

Resubscribe ==
    /\ ~dvListening
    /\ dvListening' = TRUE
    /\ UNCHANGED <<dvInbox, dvReconnects, dvPublished, dvNumbered, dvCasts, dvRegistered, dvPeers, dvHistory>>

-----------------------------------------------------------------------------
(* The connections                                                          *)

(* accept and connect *)
ConnectClient(c) ==
    /\ dvOpen[c] = "new"
    /\ dvOpen' = [dvOpen EXCEPT ![c] = "open"] /\ dvHandled' = [dvHandled EXCEPT ![c] = TRUE]
    /\ dvRegistered' = dvRegistered \cup {c}
    /\ dvJoined' = [dvJoined EXCEPT ![c] = Cardinality({d \in Clients : dvOpen[d] # "new"}) + 1]
    /\ UNCHANGED <<dvNumbered, dvCasts, dvChannel, dvHistory>>

PeerCloses(c) ==
    /\ dvOpen[c] = "open"
    /\ dvOpen' = [dvOpen EXCEPT ![c] = "closed"]
    /\ UNCHANGED <<dvRegistered, dvJoined, dvHandled, dvNumbered, dvCasts, dvChannel, dvHistory>>

(* disconnect *)
Disconnect(clients) == dvRegistered' = dvRegistered \ clients /\ dvDropped' = dvDropped \cup clients

(* receive_text raises in the handler. *)
HandlerEnds(c) ==
    /\ dvHandled[c] /\ dvOpen[c] = "closed"
    /\ dvHandled' = [dvHandled EXCEPT ![c] = FALSE]
    /\ Disconnect({c})
    /\ UNCHANGED <<dvOpen, dvJoined, dvNumbered, dvCasts, dvChannel, dvGot, dvOwed>>

-----------------------------------------------------------------------------
(* broadcast                                                                *)

Remember(id) == LastFew(Append(dvRecent, id), RecentLimit)

(* Mutant: nothing leaves the buffer. *)
BufferedForever(buffer, event) == Append(buffer, event)

Buffered(buffer, event) == LastFew(Append(buffer, event), BufferLimit)

(* The filters of a connection that was dropped meanwhile are gone. *)
Skips(c, event) == c \in dvRegistered /\ ~Interested(c, event)

(* The loop passes over the clients that are not interested: what is left    *)
(* of its list is empty, or begins with a client to send to.                 *)
Ahead(to, event) == {c \in to : \E d \in to : ~Skips(d, event) /\ dvJoined[d] <= dvJoined[c]}

(* envelope: a number is drawn before a duplicate is recognised.  The event *)
(* is buffered and the recipients are copied before the first send.         *)
BeginBroadcast ==
    /\ dvInbox # <<>>
    /\ dvInbox' = Tail(dvInbox)
    /\ LET m     == Head(dvInbox)
           event == [name |-> m.name, id |-> m.id, stream |-> m.stream,
                     number |-> dvSequence[m.stream] + 1, turn |-> dvTurn + 1]
           to    == Ahead(dvRegistered, event)
       IN  /\ dvSequence' = [dvSequence EXCEPT ![m.stream] = @ + 1] /\ dvTurn' = dvTurn + 1
           /\ IF m.id \in ToSet(dvRecent)
              THEN UNCHANGED <<dvRecent, dvBuffer, dvCasts, dvOwed>>
              ELSE /\ dvRecent' = Remember(m.id)
                   /\ dvBuffer' = [dvBuffer EXCEPT ![m.stream] = Buffered(@, event)]
                   /\ dvCasts' = dvCasts \cup {[event |-> event, to |-> c, stale |-> {}] : c \in {to} \ {{}}}
                   /\ dvOwed' = [c \in Clients |-> IF c \in dvRegistered /\ Interested(c, event)
                                                THEN dvOwed[c] \cup {event} ELSE dvOwed[c]]
    /\ UNCHANGED <<dvListening, dvReconnects, dvPublished, dvRegistered, dvPeers, dvGot, dvDropped>>

(* c is the client that b awaits, and no older broadcast awaits it. *)
IsNext(b, c) == c \in b.to /\ \A d \in b.to : dvJoined[c] <= dvJoined[d]
InTurn(b, c) == IsNext(b, c) /\ \A a \in dvCasts : a.event.turn < b.event.turn => ~IsNext(a, c)

(* b goes on after c, which failed or not.  After the last client those that *)
(* failed are disconnected.                                                  *)
Advance(b, c, failed) ==
    LET to    == Ahead(b.to \ {c}, b.event)
        stale == b.stale \cup failed
    IN  IF to # {}
        THEN /\ dvCasts' = (dvCasts \ {b}) \cup {[event |-> b.event, to |-> to, stale |-> stale]}
             /\ UNCHANGED <<dvRegistered, dvDropped>>
        ELSE dvCasts' = dvCasts \ {b} /\ Disconnect(stale)

Receives(c, event) ==
    /\ dvOpen[c] = "open"
    /\ dvGot' = [dvGot EXCEPT ![c] = Append(@, event)]

(* Mutant: sends are not waited for one after the other. *)
SendOutOfTurn(b, c) ==
    /\ IsNext(b, c) /\ Receives(c, b.event)
    /\ Advance(b, c, {})
    /\ UNCHANGED <<dvNumbered, dvPeers, dvChannel, dvOwed>>

SendText(b, c) ==
    /\ InTurn(b, c) /\ Receives(c, b.event)
    /\ Advance(b, c, {})
    /\ UNCHANGED <<dvNumbered, dvPeers, dvChannel, dvOwed>>

(* Mutant: a failed send is tried again. *)
SendRetries(b, c) ==
    /\ InTurn(b, c)
    /\ dvCasts' = (dvCasts \ {b}) \cup {[b EXCEPT !.stale = @ \cup {c}]}
    /\ UNCHANGED <<dvNumbered, dvRegistered, dvPeers, dvChannel, dvHistory>>

(* The send timed out or raised: whatever the state of the peer, which may   *)
(* have got the message all the same.                                        *)
SendFails(b, c) ==
    /\ InTurn(b, c) /\ (Receives(c, b.event) \/ UNCHANGED dvGot)
    /\ Advance(b, c, {c})
    /\ UNCHANGED <<dvNumbered, dvPeers, dvChannel, dvOwed>>

-----------------------------------------------------------------------------
(* replay: what the buffer holds of a range of numbers.                     *)
Replay(stream, from, to) == {e \in ToSet(dvBuffer[stream]) : from <= e.number /\ e.number <= to}

DvNext ==
    \/ PublishMessage \/ LoseChannel \/ Resubscribe \/ BeginBroadcast
    \/ \E c \in Clients : ConnectClient(c) \/ PeerCloses(c) \/ HandlerEnds(c)
    \/ \E b \in dvCasts, c \in Clients : SendText(b, c) \/ SendFails(b, c)

(* The oldest broadcast goes on. *)
StepBroadcast ==
    \E b \in dvCasts, c \in Clients :
        /\ \A a \in dvCasts : b.event.turn <= a.event.turn
        /\ SendText(b, c) \/ SendFails(b, c)

(* The loop runs what is ready: a send ends within its timeout. *)
DvFairness == WF_dvVars(StepBroadcast)

DvSpec == DvInit /\ [][DvNext]_dvVars /\ DvFairness

-----------------------------------------------------------------------------
Received(c) == ToSet(dvGot[c])
UnderWay(c) == {b.event : b \in {x \in dvCasts : c \in x.to \cup x.stale}}

(* A client that is still registered has missed nothing: what was broadcast *)
(* since it connected it has got, or is about to get; a send that fails     *)
(* costs the registration.                                                  *)
RegisteredMissedNothing ==
    \A c \in dvRegistered : dvOwed[c] \subseteq Received(c) \cup UnderWay(c)

(* Replay protection: an event id reaches a client twice only after         *)
(* RecentLimit others were broadcast in between.                            *)
TwiceOnlyWhenForgotten ==
    \A c \in Clients : \A i, j \in DOMAIN dvGot[c] :
        dvGot[c][i].turn < dvGot[c][j].turn /\ dvGot[c][i].id = dvGot[c][j].id =>
            dvGot[c][j].turn - dvGot[c][i].turn > RecentLimit

(* A client receives a stream in the order of its numbers until some client *)
(* was taken out of the map: then a broadcast that no longer waits for it   *)
(* may overtake.                                                            *)
InOrderUntilDrop ==
    dvDropped = {} => \A c \in Clients : \A i, j \in DOMAIN dvGot[c] :
        i < j /\ dvGot[c][i].stream = dvGot[c][j].stream => dvGot[c][i].number < dvGot[c][j].number

(* A client with filters gets other streams only after it was dropped, which *)
(* forgets its filters while a broadcast still has it among the recipients. *)
FiltersHold ==
    \A c \in Clients : (\E e \in Received(c) : ~Interested(c, e)) => c \in dvDropped

(* A client that misses a number it should have got can have it replayed,   *)
(* as long as the buffer reaches back that far.                             *)
GapsReplayable ==
    \A c \in Clients : \A e \in dvOwed[c] \ Received(c) :
        dvSequence[e.stream] - e.number < BufferLimit => e \in Replay(e.stream, e.number, e.number)

(* What a client receives is in order, is its own and comes once, and what  *)
(* it did not receive it can ask for.                                       *)
StreamsIntact ==
    /\ RegisteredMissedNothing /\ TwiceOnlyWhenForgotten /\ InOrderUntilDrop
    /\ FiltersHold /\ GapsReplayable

(* A broadcast that began ends, whatever its recipients do.                 *)
BroadcastsEnd == []<>(dvCasts = {})
=============================================================================
