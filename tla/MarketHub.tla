----------------------------- MODULE MarketHub -----------------------------
(***************************************************************************)
(* The hub (internal/market/hub.go) and its websocket clients, behind the  *)
(* depth feed.  The hub's goroutine registers, unregisters and broadcasts, *)
(* and waits for nobody: a client whose buffer is full is dropped.  Each   *)
(* client has a goroutine that writes to its connection and one that reads *)
(* from it until the connection is gone.  The ticker feed broadcasts       *)
(* prices through the same hub.                                            *)
(***************************************************************************)
EXTENDS DepthFeed

CONSTANTS
    Clients,
    Buffer  \* how many messages a client's Send channel holds

ASSUME BufferAssumption == Buffer \in Nat \ {0}

VARIABLES
    clients,  \* the hub's map
    send,     \* what is in a client's Send channel
    closings, \* how often it was closed: the second time panics, and the hub ends
    conn,     \* "none", "open" or "gone"
    writer,   \* is WritePump running?
    reader,   \* ReadPump: "off", "on", or "leaving": it asks to be unregistered
    seen      \* the last depth written to the connection, or NoDepth

pumps == <<conn, writer, reader, seen>>
hubVars == <<clients, send, closings, pumps>>

Ticker == [version |-> NoVersion, levels |-> <<"prices">>]

HubInit ==
    /\ FeedInit
    /\ clients = {}
    /\ send = [c \in Clients |-> <<>>]
    /\ closings = [c \in Clients |-> 0]
    /\ conn = [c \in Clients |-> "none"]
    /\ writer = [c \in Clients |-> FALSE]
    /\ reader = [c \in Clients |-> "off"]
    /\ seen = [c \in Clients |-> NoDepth]

-----------------------------------------------------------------------------
\* The hub's goroutine.

\* A connection is upgraded and registered, and its two goroutines start.
Register(c) ==
    /\ conn[c] = "none"
    /\ clients' = clients \cup {c}
    /\ conn' = [conn EXCEPT ![c] = "open"]
    /\ writer' = [writer EXCEPT ![c] = TRUE]
    /\ reader' = [reader EXCEPT ![c] = "on"]
    /\ UNCHANGED <<send, closings, seen>>

Close(cs) == closings' = [c \in Clients |-> closings[c] + (IF c \in cs THEN 1 ELSE 0)]

\* Faulty: the channel is closed, whether or not the hub still has the client.
UnregisterAny(c) ==
    /\ reader[c] = "leaving"
    /\ reader' = [reader EXCEPT ![c] = "off"]
    /\ clients' = clients \ {c}
    /\ Close({c})
    /\ UNCHANGED <<send, conn, writer, seen>>

\* The reader has ended.  A client that was dropped before is not in the map.
Unregister(c) ==
    /\ reader[c] = "leaving"
    /\ reader' = [reader EXCEPT ![c] = "off"]
    /\ clients' = clients \ {c}
    /\ Close({c} \cap clients)
    /\ UNCHANGED <<send, conn, writer, seen>>

\* Faulty: a message a client has no room for is skipped.
DeliverSkipping(message) ==
    LET full == {c \in clients : Len(send[c]) = Buffer} IN
    /\ send' = [c \in Clients |-> IF c \in clients \ full
                                  THEN Append(send[c], message) ELSE send[c]]
    /\ UNCHANGED <<clients, closings, pumps>>

\* A message goes to every client that has room for it; the others are dropped.
Deliver(message) ==
    LET full == {c \in clients : Len(send[c]) = Buffer} IN
    /\ send' = [c \in Clients |-> IF c \in clients \ full
                                  THEN Append(send[c], message) ELSE send[c]]
    /\ clients' = clients \ full
    /\ Close(full)
    /\ UNCHANGED pumps

BroadcastDepth == Broadcast /\ Deliver(outgoing)
BroadcastTicker == Deliver(Ticker) /\ UNCHANGED <<vars, feedVars>>

-----------------------------------------------------------------------------
\* The goroutines of a client.

\* WritePump writes what is left in a closed channel, too.
Write(c) ==
    LET message == Head(send[c]) IN
    /\ writer[c] /\ send[c] # <<>> /\ conn[c] = "open"
    /\ send' = [send EXCEPT ![c] = Tail(@)]
    /\ seen' = [seen EXCEPT ![c] = IF message = Ticker THEN @ ELSE message]
    /\ UNCHANGED <<clients, closings, conn, writer, reader>>

\* Faulty: it returns without closing the connection.
WriterReturns(c) ==
    /\ writer[c]
    /\ (closings[c] > 0 /\ send[c] = <<>>) \/ conn[c] = "gone"
    /\ writer' = [writer EXCEPT ![c] = FALSE]
    /\ UNCHANGED <<clients, send, closings, conn, reader, seen>>

\* It ends, and closes the connection, when the channel is closed and empty,
\* and when a message or a ping cannot be written.
WriterEnds(c) ==
    /\ writer[c]
    /\ (closings[c] > 0 /\ send[c] = <<>>) \/ conn[c] = "gone"
    /\ writer' = [writer EXCEPT ![c] = FALSE]
    /\ conn' = [conn EXCEPT ![c] = "gone"]
    /\ UNCHANGED <<clients, send, closings, reader, seen>>

\* ReadMessage answers an error once the connection is gone.
ReaderEnds(c) ==
    /\ reader[c] = "on" /\ conn[c] = "gone"
    /\ reader' = [reader EXCEPT ![c] = "leaving"]
    /\ UNCHANGED <<clients, send, closings, conn, writer, seen>>

\* The client leaves, or answers no ping in time.
Disconnect(c) ==
    /\ conn[c] = "open"
    /\ conn' = [conn EXCEPT ![c] = "gone"]
    /\ UNCHANGED <<clients, send, closings, writer, reader, seen>>

ClientStep(c) ==
    \/ Register(c) \/ Unregister(c) \/ Write(c) \/ WriterEnds(c) \/ ReaderEnds(c)
    \/ Disconnect(c)

HubNext ==
    \/ Next /\ UNCHANGED <<feedVars, hubVars>>
    \/ Poll /\ UNCHANGED hubVars
    \/ BroadcastDepth \/ BroadcastTicker
    \/ (\E c \in Clients : ClientStep(c)) /\ UNCHANGED <<vars, feedVars>>

allVars == <<vars, feedVars, hubVars>>

\* The ticker fires again and again, the hub always reads on and serves who
\* waits, and goroutines go on; nobody has to connect or to leave.
HubSpec ==
    /\ HubInit /\ [][HubNext]_allVars
    /\ WF_allVars(PlaceSteps /\ UNCHANGED <<feedVars, hubVars>>)
    /\ WF_allVars(Poll /\ UNCHANGED hubVars)
    /\ WF_allVars(BroadcastDepth)
    /\ \A c \in Clients :
          /\ WF_allVars(Unregister(c) /\ UNCHANGED <<vars, feedVars>>)
          /\ WF_allVars(Write(c) /\ UNCHANGED <<vars, feedVars>>)
          /\ WF_allVars(WriterEnds(c) /\ UNCHANGED <<vars, feedVars>>)
          /\ WF_allVars(ReaderEnds(c) /\ UNCHANGED <<vars, feedVars>>)

-----------------------------------------------------------------------------
\* A Send channel is closed once, though both the broadcast and the reader's
\* end close it, and nothing is sent on it afterwards: either would end the
\* hub's goroutine, and the whole server with it.
ClosedOnce ==
    \A c \in Clients : /\ closings[c] <= 1
                       /\ c \in clients => closings[c] = 0

\* No gaps: a connected client of the hub that has got any depth is up to date
\* with what was broadcast last but for what its own buffer holds.  A client
\* too slow for that is not left behind silently: it is dropped.
NoGaps ==
    \A c \in clients :
        LET depths == {i \in DOMAIN send[c] : send[c][i] # Ticker}
        IN  conn[c] = "open" =>
              IF depths = {} THEN seen[c] \in {NoDepth, shown}
              ELSE \E i \in depths : send[c][i] = shown /\ \A j \in depths : j <= i

\* When no more orders come, a client that stays connected and has got any
\* depth ends up with the book as it is.
ClientsCatchUp ==
    <>[](\A c \in Clients : conn[c] = "open" => seen[c] \in {NoDepth, Snapshot})

\* No goroutine stays behind: whoever was dropped, or is gone, is forgotten by
\* the hub, and both its goroutines end.
LeaversAreForgotten ==
    \A c \in Clients :
        (conn[c] = "gone" \/ closings[c] > 0) ~>
            (c \notin clients /\ ~writer[c] /\ reader[c] = "off")

\* The feed does not fall behind for good: when no more orders come, what was
\* shown last is the book as it is.
FeedCatchesUp == <>[](shown = Snapshot)

\* Everybody is served in the end: the feed and whoever stays catch up with the
\* book, and whoever left or was dropped leaves nothing behind.
EveryoneIsServed == FeedCatchesUp /\ ClientsCatchUp /\ LeaversAreForgotten
=============================================================================
