--------------------------------- MODULE Hub ---------------------------------
(***************************************************************************)
(* The websocket hub of the API server (internal/api/websocket.go).  The    *)
(* hub's goroutine broadcasts under the read lock; each client has a        *)
(* handler, which writes, and a reader goroutine, which notices that the    *)
(* peer left.  Closing a channel that is closed panics and takes the whole  *)
(* process down.  Messages are numbered in the order they come.             *)
(***************************************************************************)
EXTENDS Integers, Sequences, FiniteSets, SequencesExt

CONSTANTS
    Clients,     \* connections there may be at a time
    SendCap,     \* capacity of a client's send channel (32 in the code)
    MaxMessages, \* bound: messages
    NoMessage    \* no broadcast is going on

ASSUME SendCapAssumption == SendCap \in Nat \ {0}
ASSUME NoMessageAssumption == NoMessage \notin Nat

VARIABLES
    registered, \* the clients of the hub's map
    handler,    \* client -> "off", "open", "leaving"
    reader,     \* client -> "off", "reading", "closing"
    peer,       \* client -> is its peer there?
    done,       \* client -> is its done channel closed?
    send,       \* client -> its send channel
    got,        \* client -> messages written to its peer
    joined,     \* history: client -> messages broadcast before it was registered
    last,       \* number of the last message taken from the subscription
    current,    \* the message being broadcast, or NoMessage
    todo,       \* clients the broadcast has not reached
    panicked

hubVars == <<registered, handler, reader, peer, done, send, got, joined, last, current, todo, panicked>>
socketVars == <<handler, reader, peer, done, send, got, joined>>

HubInit ==
    /\ registered = {}
    /\ handler = [c \in Clients |-> "off"]
    /\ reader = [c \in Clients |-> "off"]
    /\ peer = [c \in Clients |-> FALSE]
    /\ done = [c \in Clients |-> FALSE]
    /\ send = [c \in Clients |-> <<>>]
    /\ got = [c \in Clients |-> <<>>]
    /\ joined = [c \in Clients |-> 0]
    /\ last = 0 /\ current = NoMessage /\ todo = {}
    /\ panicked = FALSE

\* register and unregister wait for the broadcast to release the lock.
Unlocked == current = NoMessage

\* handleWebsocket up to the loop: upgrade, register, start the reader.
Connect(c) ==
    /\ handler[c] = "off" /\ reader[c] = "off" /\ Unlocked
    /\ handler' = [handler EXCEPT ![c] = "open"]
    /\ reader' = [reader EXCEPT ![c] = "reading"]
    /\ peer' = [peer EXCEPT ![c] = TRUE]
    /\ done' = [done EXCEPT ![c] = FALSE]
    /\ send' = [send EXCEPT ![c] = <<>>]
    /\ got' = [got EXCEPT ![c] = <<>>]
    /\ joined' = [joined EXCEPT ![c] = last]
    /\ registered' = registered \cup {c}
    /\ UNCHANGED <<last, current, todo, panicked>>

\* run takes a message and broadcast takes the read lock.
StartBroadcast ==
    /\ Unlocked /\ last < MaxMessages
    /\ last' = last + 1
    /\ current' = last + 1
    /\ todo' = registered
    /\ UNCHANGED <<registered, socketVars, panicked>>

\* Variant: the message is dropped for a slow client, and the client is kept.
SendOrDropSkips(c) ==
    /\ send' = IF Len(send[c]) < SendCap THEN [send EXCEPT ![c] = Append(@, current)] ELSE send
    /\ UNCHANGED <<done, panicked>>

\* The select of broadcast: a client with a full channel is told to go, though
\* it stays registered until its handler has returned.
SendOrDrop(c) ==
    \/ /\ Len(send[c]) < SendCap
       /\ send' = [send EXCEPT ![c] = Append(@, current)]
       /\ UNCHANGED <<done, panicked>>
    \/ /\ Len(send[c]) >= SendCap
       /\ done' = [done EXCEPT ![c] = TRUE]
       /\ panicked' = done[c]
       /\ UNCHANGED send

\* The broadcast goes over the map in any order.
BroadcastTo(c) ==
    /\ c \in todo
    /\ SendOrDrop(c)
    /\ todo' = todo \ {c}
    /\ UNCHANGED <<registered, handler, reader, peer, got, joined, last, current>>

EndBroadcast ==
    /\ current # NoMessage /\ todo = {}
    /\ current' = NoMessage
    /\ UNCHANGED <<registered, socketVars, last, todo, panicked>>

\* The handler writes the next message, which fails if the peer has left.
Write(c) ==
    /\ handler[c] = "open" /\ send[c] # <<>>
    /\ send' = [send EXCEPT ![c] = Tail(@)]
    /\ \/ /\ peer[c]
          /\ got' = [got EXCEPT ![c] = Append(@, Head(send[c]))]
          /\ UNCHANGED handler
       \/ /\ ~peer[c]
          /\ handler' = [handler EXCEPT ![c] = "leaving"]
          /\ UNCHANGED got
    /\ UNCHANGED <<registered, reader, peer, done, joined, last, current, todo, panicked>>

\* The loop returns: done is closed, a write ran into its deadline, or a ping
\* found no peer.  The context of a hijacked request ends only when the handler
\* returns, so it never ends the loop.
LeaveLoop(c) ==
    /\ handler[c] = "open"
    /\ handler' = [handler EXCEPT ![c] = "leaving"]
    /\ UNCHANGED <<registered, reader, peer, done, send, got, joined, last, current, todo, panicked>>

SeeDone(c) == done[c] /\ LeaveLoop(c)

PingFails(c) == ~peer[c] /\ LeaveLoop(c)

DeadlinePasses(c) == send[c] # <<>> /\ LeaveLoop(c)

\* Variant: the deferred unregister is missing.
RegisteredAfterKeeps(c) == registered

RegisteredAfter(c) == registered \ {c}

\* The deferred calls: unregister, then the connection is closed.
Leave(c) ==
    /\ handler[c] = "leaving" /\ Unlocked
    /\ registered' = RegisteredAfter(c)
    /\ handler' = [handler EXCEPT ![c] = "off"]
    /\ peer' = [peer EXCEPT ![c] = FALSE]
    /\ UNCHANGED <<reader, done, send, got, joined, last, current, todo, panicked>>

\* The reader's connection fails; it looks whether done is closed.
ReaderFails(c) ==
    /\ reader[c] = "reading" /\ ~peer[c]
    /\ reader' = [reader EXCEPT ![c] = IF done[c] THEN "off" ELSE "closing"]
    /\ UNCHANGED <<registered, handler, peer, done, send, got, joined, last, current, todo, panicked>>

\* And closes it, if it was not closed a moment ago.
ReaderCloses(c) ==
    /\ reader[c] = "closing"
    /\ reader' = [reader EXCEPT ![c] = "off"]
    /\ done' = [done EXCEPT ![c] = TRUE]
    /\ panicked' = done[c]
    /\ UNCHANGED <<registered, handler, peer, send, got, joined, last, current, todo>>

\* The dashboard closes the connection.
PeerLeaves(c) ==
    /\ peer[c]
    /\ peer' = [peer EXCEPT ![c] = FALSE]
    /\ UNCHANGED <<registered, handler, reader, done, send, got, joined, last, current, todo, panicked>>

\* What the goroutines of the hub and of a client do by themselves.
Broadcasting == ~panicked /\ ((\E c \in Clients : BroadcastTo(c)) \/ EndBroadcast)
Serving(c) ==
    /\ ~panicked
    /\ Write(c) \/ SeeDone(c) \/ PingFails(c) \/ Leave(c) \/ ReaderFails(c) \/ ReaderCloses(c)

HubNext ==
    \/ Broadcasting
    \/ \E c \in Clients : Serving(c)
    \/ /\ ~panicked
       /\ StartBroadcast \/ \E c \in Clients : Connect(c) \/ PeerLeaves(c) \/ DeadlinePasses(c)

-----------------------------------------------------------------------------

\* A dashboard that was not told to go has been sent, or has waiting, every
\* message broadcast since it connected, each once and in order, although its
\* handler, the broadcast and other clients come and go in between; one that
\* was told to go may miss messages but never sees one twice or out of order
\* (websocket.go:104-127 and 158-201).
NoGapUnlessDropped ==
    \A c \in registered :
        LET seen == got[c] \o send[c]
            upTo == IF c \in todo THEN last - 1 ELSE last
        IN  /\ \A i, j \in DOMAIN seen : i < j => seen[i] < seen[j]
            /\ ~done[c] /\ handler[c] = "open" => seen = [i \in 1 .. upTo - joined[c] |-> joined[c] + i]

\* A client that was told to go, or whose peer has left, leaves the hub, unless
\* a second close of its done channel has brought down the process
\* (websocket.go:108-127 and 163-201).
ClientsLeave ==
    \A c \in Clients :
        (c \in registered /\ (done[c] \/ ~peer[c])) ~> (c \notin registered \/ panicked)

=============================================================================
