------------------------------ MODULE Simplenet ------------------------------
(***************************************************************************)
(* Networked events: nodes of type nDevice. Every node is a server, which  *)
(* notifies its output events to subscribed clients, and a client of every *)
(* other node. Nodes find one another by UDP broadcasts, connect by TCP    *)
(* and subscribe. Per node there is an application thread (Start, Stop,    *)
(* WriteOutput, ReadInput, Reset, ...) and a listen thread, NDeviceListen, *)
(* that polls its sockets in a loop.                                       *)
(*                                                                         *)
(* A TCP connection is a triple <<client, server, nr>>; each of its ends   *)
(* is open until its process closes it or dies. Reading from a connection  *)
(* whose other end is closed yields the data under way, then eof, unless   *)
(* the connection was reset and the data are lost; writing to it may       *)
(* succeed (the data is gone) or fail. A host that vanishes leaves its     *)
(* ends open, but nobody reads from them.                                  *)
(*                                                                         *)
(* A round of the listen thread is cut at the points where another thread  *)
(* or node can make a difference: one step per stage and per ready socket. *)
(* The wait mutex and condition of the input buffer are in InputWait.      *)
(***************************************************************************)
EXTENDS Integers, Sequences, FiniteSets

CONSTANTS
    Node,           \* the network, mNetworkNodes of every node
    Event,
    Inputs,         \* Inputs[n], the input events of n
    Outputs,        \* Outputs[n], the output events of n
    Hardwired,      \* nodes whose address is configured at all other nodes
    GreetFails,     \* TRUE: accept(), or the greeting of a closed peer, may fail
    HostFails,      \* TRUE: a host may vanish without closing its connections
    MaxConn,        \* bound: connections from one node to another
    MaxWrite,       \* bound: output events written by one node
    MaxLoss,        \* bound: datagrams lost
    MaxCrash,       \* bound: crashes
    MaxStop,        \* bound: calls of Stop()
    MaxReset        \* bound: calls of Reset()

ASSUME NodeAssumption  == IsFiniteSet(Node) /\ Hardwired \subseteq Node
ASSUME EventAssumption == /\ Inputs \in [Node -> SUBSET Event]
                          /\ Outputs \in [Node -> SUBSET Event]
                          /\ Event \cap {"Hello", "Subscribed", "Fragment"} = {}
ASSUME BoundAssumption ==
    {MaxConn, MaxWrite, MaxLoss, MaxCrash, MaxStop, MaxReset} \subseteq Nat

Conn == {c \in Node \X Node \X (1..MaxConn) : c[1] # c[2]}
Client(c) == c[1]
Server(c) == c[2]

Peers(n) == Node \ {n}

mListenSocket    == <<"tcp">>
mBroadcastSocket == <<"udp">>

Request(n) == [type |-> "Request", node |-> n]
Advert(n)  == [type |-> "Advert", node |-> n]
Datagram   == [type : {"Request", "Advert"}, node : Node]

\* Messages to a server and to a client. A fragment is the part of a
\* notification that a dying server managed to send.
ToServerMsg == {"Subscribe", "ResetRequest"}
Plain(t)      == [type |-> t, no |-> 0]
Notify(e, k)  == [type |-> e, no |-> k]
ToClientMsg   == [type : Event \cup {"Hello", "Subscribed", "Fragment"}, no : 0..MaxWrite]

VARIABLES
    \* state of the devices
    mState,         \* operating state
    mAddress,       \* mAddress[n]: the servers whose address n knows
    mServerSocket,  \* mServerSocket[n][m]: nr of the connection from n to server m, 0 if none
    mLineBuffer,    \* mLineBuffer[n][m]: what n received from m and has not interpreted
    clients,        \* connections in mOutputClientStates with an open socket
    mConnected,     \* ... those with a subscription
    mEvents,        \* mEvents[c]: the events subscribed on c
    pInputBuffer,   \* input events, tagged with source and number
    mResetRequest,  \* nodes with a pending reset request
    mStopListen,    \* nodes whose listen thread is asked to terminate
    mMutexLost,     \* nodes whose mMutex is locked for good
    \* local state of the listen threads
    pc,
    todo,           \* servers still to be tried in this round
    ready,          \* sockets reported by select() and not handled yet
    due,            \* nodes with a request broadcast due
    \* the network
    clientEnd,      \* connections whose client end is open
    serverEnd,      \* connections whose server end is open
    backlog,        \* connections not accepted yet
    made,           \* made[n][m]: connections n has made to m so far
    toServer, toClient, \* data under way, per connection
    udp,            \* udp[n]: datagrams waiting at n
    \* history and budgets
    written,        \* written[m]: number of events written by m
    heard,          \* heard[n][m]: number of the last event of m buffered at n
    losses, crashes, stops, resets

device  == <<mState, mAddress, mServerSocket, mLineBuffer, clients, mConnected,
             mEvents, pInputBuffer, mResetRequest, mStopListen, mMutexLost>>
thread  == <<pc, todo, ready, due>>
tcp     == <<clientEnd, serverEnd, backlog, made, toServer, toClient>>
history == <<written, heard>>
budget  == <<losses, crashes, stops, resets>>
vars    == <<device, thread, tcp, udp, history, budget>>

ThreadPc == {"off", "scan", "connect", "select", "handle", "eof", "stopped"}

NetworkTypeOK ==
    /\ mState \in [Node -> {"Down", "StartUp", "Up"}]
    /\ mAddress \in [Node -> SUBSET Node]
    /\ mServerSocket \in [Node -> [Node -> 0..MaxConn]]
    /\ mLineBuffer \in [Node -> [Node -> Seq(ToClientMsg)]]
    /\ clients \subseteq Conn
    /\ mConnected \subseteq Conn
    /\ mEvents \in [Conn -> SUBSET Event]
    /\ mResetRequest \subseteq Node
    /\ mStopListen \subseteq Node
    /\ mMutexLost \subseteq Node
    /\ pc \in [Node -> ThreadPc]
    /\ todo \in [Node -> SUBSET Node]
    /\ \A n \in Node : mServerSocket[n][n] = 0 /\ n \notin todo[n]
    /\ ready \in [Node -> SUBSET (Conn \cup {mListenSocket, mBroadcastSocket})]
    /\ due \subseteq Node
    /\ clientEnd \subseteq Conn
    /\ serverEnd \subseteq Conn
    /\ backlog \subseteq Conn
    /\ made \in [Node -> [Node -> 0..MaxConn]]
    /\ toServer \in [Conn -> Seq(ToServerMsg)]
    /\ toClient \in [Conn -> Seq(ToClientMsg)]
    /\ udp \in [Node -> Seq(Datagram)]
    /\ written \in [Node -> 0..MaxWrite]
    /\ losses \in 0..MaxLoss
    /\ crashes \in 0..MaxCrash
    /\ stops \in 0..MaxStop
    /\ resets \in 0..MaxReset

TypeOK ==
    /\ NetworkTypeOK
    /\ pInputBuffer \in [Node -> Seq(Node \X (1..MaxWrite))]
    /\ heard \in [Node -> [Node -> 0..MaxWrite]]

Init ==
    /\ mState = [n \in Node |-> "Down"]
    /\ mAddress = [n \in Node |-> {}]
    /\ mServerSocket = [n \in Node |-> [m \in Node |-> 0]]
    /\ mLineBuffer = [n \in Node |-> [m \in Node |-> <<>>]]
    /\ clients = {}
    /\ mConnected = {}
    /\ mEvents = [c \in Conn |-> {}]
    /\ pInputBuffer = [n \in Node |-> <<>>]
    /\ mResetRequest = {}
    /\ mStopListen = {}
    /\ mMutexLost = {}
    /\ pc = [n \in Node |-> "off"]
    /\ todo = [n \in Node |-> {}]
    /\ ready = [n \in Node |-> {}]
    /\ due = {}
    /\ clientEnd = {}
    /\ serverEnd = {}
    /\ backlog = {}
    /\ made = [n \in Node |-> [m \in Node |-> 0]]
    /\ toServer = [c \in Conn |-> <<>>]
    /\ toClient = [c \in Conn |-> <<>>]
    /\ udp = [n \in Node |-> <<>>]
    /\ written = [n \in Node |-> 0]
    /\ heard = [n \in Node |-> [m \in Node |-> 0]]
    /\ losses = 0 /\ crashes = 0 /\ stops = 0 /\ resets = 0

------------------------------------------------------------------------------
(* Sockets and datagrams.                                                  *)

Listening(m) == mState[m] # "Down"      \* the listen and the udp socket of m are open

Socket(n, m) == <<n, m, mServerSocket[n][m]>>
ServerSockets(n) == {Socket(n, m) : m \in {k \in Node : mServerSocket[n][k] > 0}}
ClientSockets(n) == {c \in clients : Server(c) = n}

\* What select() reports to n.
FaultReadable(n) ==                                          \* not asked for the udp socket
    {mListenSocket : c \in {b \in backlog : Server(b) = n}}
    \cup {c \in ServerSockets(n) : toClient[c] # <<>> \/ c \notin serverEnd}
    \cup {c \in ClientSockets(n) : toServer[c] # <<>> \/ c \notin clientEnd}
Readable(n) ==
    {mListenSocket : c \in {b \in backlog : Server(b) = n}}
    \cup {mBroadcastSocket : i \in 1..Len(udp[n])}
    \cup {c \in ServerSockets(n) : toClient[c] # <<>> \/ c \notin serverEnd}
    \cup {c \in ClientSockets(n) : toServer[c] # <<>> \/ c \notin clientEnd}

\* sendto() with the broadcast address: msg is added to what waits at the other nodes,
\* less a few losses. Equal datagrams that wait are one; n ignores its own ones.
Sendto(n, msg, waiting) ==
    LET reached    == {m \in Peers(n) : Listening(m)}
        add(queue) == IF \E i \in 1..Len(queue) : queue[i] = msg
                      THEN queue ELSE Append(queue, msg)
    IN  \E R \in SUBSET reached :
        /\ losses' = losses + Cardinality(reached \ R)
        /\ losses' <= MaxLoss
        /\ udp' = [m \in Node |-> IF m \in R THEN add(waiting[m]) ELSE waiting[m]]

\* Append msg to the channels of connections C, as far as the end that reads is open.
\* syncSend() is one write here. (Its loop for a write that takes only a part would
\* send the head again, since it does not advance.)
Send(channel, C, open, msg) ==
    [c \in Conn |-> IF c \in C \cap open THEN Append(channel[c], msg) ELSE channel[c]]
SendToServer(C, msg) == toServer' = Send(toServer, C, serverEnd', msg)
SendToClient(C, msg) == toClient' = Send(toClient, C, clientEnd', msg)

\* Close ends, losing what has not been read.
Emptied(channel, C)  == [c \in Conn |-> IF c \in C THEN <<>> ELSE channel[c]]
FaultCloseClientEnds(C) == UNCHANGED <<clientEnd, toClient>>     \* not closed
CloseClientEnds(C) == clientEnd' = clientEnd \ C /\ toClient' = Emptied(toClient, C)
CloseServerEnds(C) == serverEnd' = serverEnd \ C /\ toServer' = Emptied(toServer, C)

------------------------------------------------------------------------------
(* The listen thread.                                                      *)

\* Servers that are missing, and the number of clients that are; the clients are
\* trusted by number.
Unknown(n)        == Peers(n) \ mAddress[n]
FaultMissingServers(n) == Unknown(n)                         \* an address taken for a connection
MissingServers(n) == Unknown(n) \cup {m \in Peers(n) : mServerSocket[n][m] = 0}
MissingClients(n) == Cardinality(Node) - (Cardinality(ClientSockets(n) \cap mConnected) + 1)

\* Update the state by what is missing, ask for unknown servers if a broadcast is due,
\* and determine the servers to connect with.
Scan(n) ==
    LET servermis == MissingServers(n)
        clientmis == MissingClients(n)
        state     == CASE (servermis # {} \/ clientmis > 0) /\ mState[n] = "Up" -> "StartUp"
                       [] servermis = {} /\ clientmis = 0 /\ mState[n] = "StartUp" -> "Up"
                       [] OTHER -> mState[n]
        request   == Unknown(n) # {} /\ state = "StartUp" /\ n \in due
    IN  /\ pc[n] = "scan"
        /\ (request \/ state # mState[n]) => n \notin mMutexLost
        /\ mState' = [mState EXCEPT ![n] = state]
        /\ IF request
           THEN Sendto(n, Request(n), udp) /\ due' = due \ {n}
           ELSE UNCHANGED <<udp, losses, due>>
        /\ todo' = [todo EXCEPT ![n] = servermis \ Unknown(n)]
        /\ pc' = [pc EXCEPT ![n] = IF servermis \subseteq Unknown(n) THEN "select" ELSE "connect"]
        /\ UNCHANGED <<mAddress, mServerSocket, mLineBuffer, clients, mConnected, mEvents,
                       pInputBuffer, mResetRequest, mStopListen, mMutexLost, ready, tcp,
                       history, crashes, stops, resets>>

\* Connect to server m, if it is there, and send the subscription. The exchange of
\* greetings before fails if the server goes meanwhile: as if it had not been there.
Connect(n, m) ==
    /\ pc[n] = "connect"
    /\ m \in todo[n]
    /\ todo' = [todo EXCEPT ![n] = @ \ {m}]
    /\ pc' = [pc EXCEPT ![n] = IF todo[n] = {m} THEN "select" ELSE "connect"]
    /\ IF Listening(m)
       THEN LET k == made[n][m] + 1
                c == <<n, m, k>>
            IN  /\ k <= MaxConn
                /\ made' = [made EXCEPT ![n][m] = k]
                /\ mServerSocket' = [mServerSocket EXCEPT ![n][m] = k]
                /\ clientEnd' = clientEnd \cup {c}
                /\ serverEnd' = serverEnd \cup {c}
                /\ backlog' = backlog \cup {c}
                /\ SendToServer({c}, "Subscribe")
       ELSE UNCHANGED <<made, mServerSocket, clientEnd, serverEnd, backlog, toServer>>
    /\ UNCHANGED <<mState, mAddress, mLineBuffer, clients, mConnected, mEvents, pInputBuffer,
                   mResetRequest, mStopListen, mMutexLost, ready, due, toClient, udp,
                   history, budget>>

\* The end of the listen thread: close the client and the server sockets, and
\* the sockets in also.
Terminate(n, also) ==
    /\ clients' = clients \ ClientSockets(n)
    /\ mConnected' = mConnected \ ClientSockets(n)
    /\ CloseServerEnds(ClientSockets(n) \cup also)
    /\ CloseClientEnds(ServerSockets(n))
    /\ backlog' = backlog \ also
    /\ mServerSocket' = [mServerSocket EXCEPT ![n] = [m \in Node |-> 0]]
    /\ ready' = [ready EXCEPT ![n] = {}]
    /\ pc' = [pc EXCEPT ![n] = "stopped"]
    /\ UNCHANGED <<mState, mAddress, mLineBuffer, mEvents, pInputBuffer, mResetRequest,
                   mStopListen, mMutexLost, todo, due, made, udp, history, budget>>

\* select() returns with the ready sockets, or with none after its timeout; then
\* mStopListen is read under mMutex.
Select(n) ==
    /\ pc[n] = "select"
    /\ n \notin mMutexLost
    /\ IF n \in mStopListen
       THEN Terminate(n, {})
       ELSE /\ ready' = [ready EXCEPT ![n] = Readable(n)]
            /\ pc' = [pc EXCEPT ![n] = IF Readable(n) = {} THEN "scan" ELSE "handle"]
            /\ UNCHANGED <<device, todo, due, tcp, udp, history, budget>>

\* Source s has been handled: go on with the other ones, or with the next round.
Handled(n, s) ==
    /\ ready' = [ready EXCEPT ![n] = @ \ {s}]
    /\ pc' = [pc EXCEPT ![n] = IF ready[n] = {s} THEN "scan" ELSE "handle"]

\* Sockets are handled in this order: listen, udp, servers, clients.
AcceptTurn(n) == pc[n] = "handle" /\ mListenSocket \in ready[n]
UdpTurn(n)    == pc[n] = "handle" /\ mListenSocket \notin ready[n] /\ mBroadcastSocket \in ready[n]
ServerTurn(n) == pc[n] = "handle" /\ {mListenSocket, mBroadcastSocket} \cap ready[n] = {}
ClientTurn(n) == ServerTurn(n) /\ \A c \in ready[n] : Server(c) = n

\* Accept a connection, greet, and record the client, not yet subscribed.
Accept(n) ==
    /\ AcceptTurn(n)
    /\ n \notin mMutexLost
    /\ \E c \in backlog :
        /\ Server(c) = n
        /\ backlog' = backlog \ {c}
        /\ clients' = clients \cup {c}
        /\ mConnected' = mConnected \ {c}
        /\ mEvents' = [mEvents EXCEPT ![c] = {}]
        /\ UNCHANGED clientEnd
        /\ SendToClient({c}, Plain("Hello"))
    /\ Handled(n, mListenSocket)
    /\ UNCHANGED <<mState, mAddress, mServerSocket, mLineBuffer, pInputBuffer, mResetRequest,
                   mStopListen, mMutexLost, todo, due, serverEnd, made, toServer, udp,
                   history, budget>>

\* accept() fails, or the greeting, since the client has gone already: the loop is
\* left, with the connection closed if its client has gone, or still waiting.
AcceptFails(n) ==
    LET gone == {c \in backlog \ clientEnd : Server(c) = n}
    IN  /\ GreetFails
        /\ AcceptTurn(n)
        /\ n \notin mMutexLost
        /\ \E also \in {{}} \cup {{c} : c \in gone} : Terminate(n, also)

\* A datagram. A request is answered by an advert; if it comes from a server not
\* connected, a request of n is due as well. An advert gives an address if there is none.
HandleUdp(n) ==
    /\ UdpTurn(n)
    /\ udp[n] # <<>>
    /\ LET m       == Head(udp[n]).node
           waiting == [udp EXCEPT ![n] = Tail(@)]
       IN  IF Head(udp[n]) = Request(m)
           THEN /\ n \notin mMutexLost
                /\ Sendto(n, Advert(n), waiting)
                /\ due' = IF mServerSocket[n][m] = 0 THEN due \cup {n} ELSE due
                /\ UNCHANGED mAddress
           ELSE /\ mAddress' = [mAddress EXCEPT ![n] = @ \cup {m}]
                /\ udp' = waiting
                /\ UNCHANGED <<due, losses>>
    /\ Handled(n, mBroadcastSocket)
    /\ UNCHANGED <<mState, mServerSocket, mLineBuffer, clients, mConnected, mEvents,
                   pInputBuffer, mResetRequest, mStopListen, mMutexLost, todo, tcp, history,
                   crashes, stops, resets>>

\* A line buffer is interpreted, and cleared, if it ends with the end of a line. A
\* fragment followed by other data is a syntax error, which discards the rest.
Complete(buffer)  == buffer[Len(buffer)].type # "Fragment"
FaultRemaining(buffer) == buffer                             \* never cleared
Remaining(buffer) == IF Complete(buffer) THEN <<>> ELSE buffer
Interpreted(buffer) ==
    LET good == {k \in 0..Len(buffer) : \A i \in 1..k : buffer[i].type # "Fragment"}
    IN  IF Complete(buffer) THEN SubSeq(buffer, 1, CHOOSE k \in good : \A l \in good : l <= k)
        ELSE <<>>

\* The elements of s at positions I, in their order.
Subsequence(s, I) ==
    [k \in 1..Cardinality(I) |-> s[CHOOSE i \in I : Cardinality({j \in I : j <= i}) = k]]

\* The input events among the messages, as they are buffered.
FaultInputEvents(n, m, messages) ==                          \* other messages taken for events
    [i \in 1..Len(messages) |-> <<m, messages[i].no>>]
InputEvents(n, m, messages) ==
    LET input  == {i \in 1..Len(messages) : messages[i].type \in Inputs[n]}
        events == Subsequence(messages, input)
    IN  [i \in 1..Len(events) |-> <<m, events[i].no>>]

\* Receive some of the data sent by server m.
ReadServer(n, m) ==
    LET c == Socket(n, m)
    IN  /\ ServerTurn(n)
        /\ c \in ready[n]
        /\ \E j \in 1..Len(toClient[c]) :
            LET buffer == mLineBuffer[n][m] \o SubSeq(toClient[c], 1, j)
                events == InputEvents(n, m, Interpreted(buffer))
            IN  /\ toClient' = [toClient EXCEPT ![c] = SubSeq(@, j + 1, Len(@))]
                /\ mLineBuffer' = [mLineBuffer EXCEPT ![n][m] = Remaining(buffer)]
                /\ pInputBuffer' = [pInputBuffer EXCEPT ![n] = @ \o events]
                /\ heard' = [heard EXCEPT ![n][m] =
                                IF events = <<>> THEN @ ELSE events[Len(events)][2]]
        /\ Handled(n, c)
        /\ UNCHANGED <<mState, mAddress, mServerSocket, clients, mConnected, mEvents,
                       mResetRequest, mStopListen, mMutexLost, todo, due, clientEnd,
                       serverEnd, backlog, made, toServer, udp, written, budget>>

\* Eof from server m: the socket is closed ...
EofServer(n, m) ==
    LET c == Socket(n, m)
    IN  /\ ServerTurn(n)
        /\ c \in ready[n]
        /\ toClient[c] = <<>> /\ c \notin serverEnd
        /\ CloseClientEnds({c})
        /\ ready' = [ready EXCEPT ![n] = @ \ {c}]
        /\ pc' = [pc EXCEPT ![n] = "eof"]
        /\ UNCHANGED <<device, todo, due, serverEnd, backlog, made, toServer, udp, history,
                       budget>>

\* ... and only then marked as such; mMutex is not taken.
FaultClearSocket(n, m) ==                                    \* never marked
    /\ pc[n] = "eof"
    /\ mServerSocket[n][m] > 0 /\ Socket(n, m) \notin clientEnd
    /\ pc' = [pc EXCEPT ![n] = IF ready[n] = {} THEN "scan" ELSE "handle"]
    /\ UNCHANGED <<device, todo, ready, due, tcp, udp, history, budget>>
ClearSocket(n, m) ==
    /\ pc[n] = "eof"
    /\ mServerSocket[n][m] > 0 /\ Socket(n, m) \notin clientEnd
    /\ mServerSocket' = [mServerSocket EXCEPT ![n][m] = 0]
    /\ pc' = [pc EXCEPT ![n] = IF ready[n] = {} THEN "scan" ELSE "handle"]
    /\ UNCHANGED <<mState, mAddress, mLineBuffer, clients, mConnected, mEvents, pInputBuffer,
                   mResetRequest, mStopListen, mMutexLost, todo, ready, due, tcp, udp, history,
                   budget>>

\* The events a client gets on its subscription.
FaultSubscribed(c) == Inputs[Client(c)]                      \* not restricted to outputs
Subscribed(c) == Inputs[Client(c)] \cap Outputs[Server(c)]

\* Receive and execute some of the commands of client c. If the reply to a
\* subscription cannot be sent, the rest is dropped.
ReadClient(n, c) ==
    /\ ClientTurn(n)
    /\ c \in ready[n] \cap clients
    /\ \E j \in 1..Len(toServer[c]), dropped \in BOOLEAN :
        LET cmds       == {toServer[c][i] : i \in 1..j}
            subscribes == "Subscribe" \in cmds
        IN  /\ dropped => subscribes /\ c \notin clientEnd
            /\ toServer' = [toServer EXCEPT ![c] = SubSeq(@, j + 1, Len(@))]
            /\ IF subscribes
               THEN /\ n \notin mMutexLost
                    /\ mEvents' = [mEvents EXCEPT ![c] = Subscribed(c)]
                    /\ mConnected' = mConnected \cup {c}
                    /\ UNCHANGED clientEnd
                    /\ SendToClient({c}, Plain("Subscribed"))
               ELSE UNCHANGED <<mEvents, mConnected, clientEnd, toClient>>
            /\ mResetRequest' = IF "ResetRequest" \in cmds /\ ~dropped
                                THEN mResetRequest \cup {n} ELSE mResetRequest
    /\ Handled(n, c)
    /\ UNCHANGED <<mState, mAddress, mServerSocket, mLineBuffer, clients, pInputBuffer,
                   mStopListen, mMutexLost, todo, due, serverEnd, backlog, made, udp, history,
                   budget>>

\* Eof from client c.
EofClient(n, c) ==
    /\ ClientTurn(n)
    /\ c \in ready[n] \cap clients
    /\ toServer[c] = <<>> /\ c \notin clientEnd
    /\ n \notin mMutexLost
    /\ CloseServerEnds({c})
    /\ clients' = clients \ {c}
    /\ mConnected' = mConnected \ {c}
    /\ Handled(n, c)
    /\ UNCHANGED <<mState, mAddress, mServerSocket, mLineBuffer, mEvents, pInputBuffer,
                   mResetRequest, mStopListen, mMutexLost, todo, due, clientEnd, backlog, made,
                   toClient, udp, history, budget>>

\* More than 5 sec have passed since the last request broadcast. This is of no
\* consequence once all addresses are known.
FaultBroadcastDue(n) ==                                      \* one request for all times
    /\ pc[n] \notin {"off", "stopped"}
    /\ UNCHANGED vars
BroadcastDue(n) ==
    /\ pc[n] \notin {"off", "stopped"}
    /\ ~ Peers(n) \subseteq mAddress[n]
    /\ due' = due \cup {n}
    /\ UNCHANGED <<device, pc, todo, ready, tcp, udp, history, budget>>

------------------------------------------------------------------------------
(* The application.                                                        *)

\* Clear the states of servers and clients, open the listen and the udp socket, and
\* create the listen thread. (Its exceptions for sockets or threads that the
\* operating system refuses are left out.)
Start(n) ==
    /\ mState[n] = "Down"
    /\ mState' = [mState EXCEPT ![n] = "StartUp"]
    /\ mAddress' = [mAddress EXCEPT ![n] = Hardwired \ {n}]
    /\ mServerSocket' = [mServerSocket EXCEPT ![n] = [m \in Node |-> 0]]
    /\ mLineBuffer' = [mLineBuffer EXCEPT ![n] = [m \in Node |-> <<>>]]
    /\ clients' = clients \ ClientSockets(n)
    /\ mConnected' = mConnected \ ClientSockets(n)
    /\ pInputBuffer' = [pInputBuffer EXCEPT ![n] = <<>>]
    /\ mResetRequest' = mResetRequest \ {n}
    /\ mStopListen' = mStopListen \ {n}
    /\ pc' = [pc EXCEPT ![n] = "scan"]
    /\ due' = due \cup {n}
    /\ UNCHANGED <<mEvents, mMutexLost, todo, ready, tcp, udp, history, budget>>

\* Stop() asks the listen thread to terminate; its datagram only wakes select() ...
StopRequest(n) ==
    /\ mState[n] # "Down"
    /\ n \notin mStopListen \cup mMutexLost
    /\ stops < MaxStop
    /\ stops' = stops + 1
    /\ mStopListen' = mStopListen \cup {n}
    /\ UNCHANGED <<mState, mAddress, mServerSocket, mLineBuffer, clients, mConnected, mEvents,
                   pInputBuffer, mResetRequest, mMutexLost, thread, tcp, udp, history, losses,
                   crashes, resets>>

\* ... joins it, closes the listen and the udp socket, and resets the device.
StopJoin(n) ==
    LET waiting == {c \in backlog : Server(c) = n}
    IN  /\ n \in mStopListen
        /\ pc[n] = "stopped"
        /\ CloseServerEnds(waiting)
        /\ backlog' = backlog \ waiting
        /\ udp' = [udp EXCEPT ![n] = <<>>]
        /\ mState' = [mState EXCEPT ![n] = "Down"]
        /\ pInputBuffer' = [pInputBuffer EXCEPT ![n] = <<>>]
        /\ mResetRequest' = mResetRequest \ {n}
        /\ pc' = [pc EXCEPT ![n] = "off"]
        /\ UNCHANGED <<mAddress, mServerSocket, mLineBuffer, clients, mConnected, mEvents,
                       mStopListen, mMutexLost, todo, ready, due, clientEnd, made, toClient,
                       history, budget>>

\* The application of n is not inside Stop(), where it would do nothing else.
Running(n) == mState[n] # "Down" /\ n \notin mStopListen

FaultSubscribers(n, e) == {c \in ClientSockets(n) : mEvents[c] = {}}   \* the others skipped
Subscribers(n, e) == {c \in ClientSockets(n) : mEvents[c] = {} \/ e \in mEvents[c]}

\* Notify the subscribers of output event e. A client that is gone may fail the
\* loop, which then skips the clients behind it.
WriteOutput(n, e) ==
    /\ Running(n)
    /\ n \notin mMutexLost
    /\ e \in Outputs[n]
    /\ written[n] < MaxWrite
    /\ written' = [written EXCEPT ![n] = @ + 1]
    /\ \E R \in SUBSET Subscribers(n, e) :
        /\ R # Subscribers(n, e) => \E c \in Subscribers(n, e) \ R : c \notin clientEnd
        /\ UNCHANGED clientEnd
        /\ SendToClient(R, Notify(e, written'[n]))
    /\ UNCHANGED <<device, thread, serverEnd, backlog, made, toServer, udp, heard, budget>>

\* Clear buffer and request, send a reset request to all servers. If that fails,
\* the exception leaves mMutex locked. It may fail with a server that is gone, and
\* does with a socket that the listen thread has closed but not cleared.
Reset(n) ==
    LET servers == ServerSockets(n)
    IN  /\ Running(n)
        /\ n \notin mMutexLost
        /\ resets < MaxReset
        /\ resets' = resets + 1
        /\ pInputBuffer' = [pInputBuffer EXCEPT ![n] = <<>>]
        /\ mResetRequest' = mResetRequest \ {n}
        /\ UNCHANGED serverEnd
        /\ \/ /\ servers \subseteq clientEnd
              /\ SendToServer(servers, "ResetRequest")
              /\ UNCHANGED mMutexLost
           \/ \E c \in servers, R \in SUBSET servers :
              /\ c \notin R /\ c \notin clientEnd \cap serverEnd
              /\ R \subseteq clientEnd
              /\ SendToServer(R, "ResetRequest")
              /\ mMutexLost' = mMutexLost \cup {n}
        /\ UNCHANGED <<mState, mAddress, mServerSocket, mLineBuffer, clients, mConnected,
                       mEvents, mStopListen, thread, clientEnd, backlog, made, toClient, udp,
                       history, losses, crashes, stops>>

\* Get the first buffered event.
ReadInput(n) ==
    /\ Running(n)
    /\ pInputBuffer[n] # <<>>
    /\ pInputBuffer' = [pInputBuffer EXCEPT ![n] = Tail(@)]
    /\ UNCHANGED <<mState, mAddress, mServerSocket, mLineBuffer, clients, mConnected, mEvents,
                   mResetRequest, mStopListen, mMutexLost, thread, tcp, udp, history, budget>>

\* Query and clear the reset request.
ResetRequest(n) ==
    /\ Running(n)
    /\ n \in mResetRequest
    /\ mResetRequest' = mResetRequest \ {n}
    /\ UNCHANGED <<mState, mAddress, mServerSocket, mLineBuffer, clients, mConnected, mEvents,
                   pInputBuffer, mStopListen, mMutexLost, thread, tcp, udp, history, budget>>

------------------------------------------------------------------------------
(* The environment.                                                        *)

\* The process of n ends: killed, by SIGPIPE from send(), or by the exception that
\* leaves the listen thread when a subscription cannot be sent. A notification may
\* be cut. The host closes the sockets, unless it vanishes as well.
Crash(n) ==
    LET waiting == {c \in backlog : Server(c) = n}
        owned   == ClientSockets(n) \cup waiting
    IN  /\ mState[n] # "Down"
        /\ crashes < MaxCrash
        /\ crashes' = crashes + 1
        /\ mState' = [mState EXCEPT ![n] = "Down"]
        /\ mAddress' = [mAddress EXCEPT ![n] = {}]
        /\ mServerSocket' = [mServerSocket EXCEPT ![n] = [m \in Node |-> 0]]
        /\ mLineBuffer' = [mLineBuffer EXCEPT ![n] = [m \in Node |-> <<>>]]
        /\ clients' = clients \ owned
        /\ mConnected' = mConnected \ owned
        /\ pInputBuffer' = [pInputBuffer EXCEPT ![n] = <<>>]
        /\ mResetRequest' = mResetRequest \ {n}
        /\ mStopListen' = mStopListen \ {n}
        /\ mMutexLost' = mMutexLost \ {n}
        /\ pc' = [pc EXCEPT ![n] = "off"]
        /\ todo' = [todo EXCEPT ![n] = {}]
        /\ ready' = [ready EXCEPT ![n] = {}]
        /\ due' = due \ {n}
        /\ backlog' = backlog \ waiting
        /\ udp' = [udp EXCEPT ![n] = <<>>]
        /\ \/ /\ HostFails
              /\ UNCHANGED <<clientEnd, serverEnd, toClient, toServer>>
           \/ \E cut \in {{}} \cup {{c} : c \in ClientSockets(n) \cap clientEnd} :
              /\ clientEnd' = clientEnd \ ServerSockets(n)
              /\ toClient' = Send(Emptied(toClient, ServerSockets(n)), cut, clientEnd,
                                  Plain("Fragment"))
              /\ CloseServerEnds(owned)
        /\ UNCHANGED <<mEvents, made, history, losses, stops, resets>>

\* Connection c is reset: data from an end that is closed now are lost, or data
\* to a host that has vanished are answered by a reset.
PeerReset(c) ==
    /\ \/ /\ c \in clientEnd \ serverEnd /\ toClient[c] # <<>>
          /\ toClient' = Emptied(toClient, {c})
          /\ UNCHANGED <<clientEnd, serverEnd, toServer>>
       \/ /\ c \in serverEnd \ clientEnd /\ toServer[c] # <<>>
          /\ toServer' = Emptied(toServer, {c})
          /\ UNCHANGED <<clientEnd, serverEnd, toClient>>
       \/ /\ c \in clientEnd /\ mServerSocket[Client(c)][Server(c)] # c[3]
          /\ toClient[c] # <<>>
          /\ CloseClientEnds({c})
          /\ UNCHANGED <<serverEnd, toServer>>
       \/ /\ c \in serverEnd \ (clients \cup backlog)
          /\ toServer[c] # <<>>
          /\ CloseServerEnds({c})
          /\ UNCHANGED <<clientEnd, toClient>>
    /\ UNCHANGED <<device, thread, backlog, made, udp, history, budget>>

------------------------------------------------------------------------------

Listen(n) ==
    \/ Scan(n) \/ Select(n) \/ Accept(n) \/ AcceptFails(n) \/ HandleUdp(n)
    \/ \E m \in Node : Connect(n, m) \/ ReadServer(n, m) \/ EofServer(n, m) \/ ClearSocket(n, m)
    \/ \E c \in Conn : ReadClient(n, c) \/ EofClient(n, c)

Application(n) ==
    \/ Start(n) \/ StopRequest(n) \/ StopJoin(n) \/ Reset(n) \/ ReadInput(n) \/ ResetRequest(n)
    \/ \E e \in Event : WriteOutput(n, e)

Next ==
    \/ \E n \in Node : Listen(n) \/ Application(n) \/ BroadcastDue(n) \/ Crash(n)
    \/ \E c \in Conn : PeerReset(c)

Spec == Init /\ [][Next]_vars

\* The listen threads run, the 5 sec between broadcasts pass, Stop() is joined, and
\* every node is started, and started again after a crash or a stop.
Fairness ==
    \A n \in Node : /\ WF_vars(Listen(n))
                    /\ WF_vars(BroadcastDue(n))
                    /\ WF_vars(Start(n))
                    /\ WF_vars(StopJoin(n))

FairSpec == Spec /\ Fairness
------------------------------------------------------------------------------
(* Properties.                                                             *)

\* No socket is forgotten or closed twice: the client ends that are open are those
\* named in mInputServerStates, the server ends those in the listen queue or in
\* mOutputClientStates; a listen thread that has ended leaves none behind. A server
\* socket is recorded but closed only within the handling of eof.
SocketsRecorded ==
    /\ \A n \in Node :
        /\ \A c \in clientEnd : Client(c) = n => c \in ServerSockets(n)
        /\ pc[n] # "eof" => ServerSockets(n) \subseteq clientEnd
        /\ Cardinality(ServerSockets(n) \ clientEnd) <= 1
        /\ pc[n] \in {"off", "stopped"} => ServerSockets(n) = {} /\ ClientSockets(n) = {}
        /\ pc[n] = "off" => \A c \in serverEnd : Server(c) # n
    /\ serverEnd = backlog \cup clients
    /\ backlog \cap clients = {}

\* A subscription is under way.
Asks(commands) == \E i \in 1..Len(commands) : commands[i] = "Subscribe"

\* No subscription is lost: a client that is connected and accepted either has its
\* subscription, on the events that are inputs of the one and outputs of the other
\* node, or the request is under way.
SubscriptionKept ==
    \A c \in clients \cap clientEnd :
        IF c \in mConnected
        THEN mEvents[c] = Inputs[Client(c)] \cap Outputs[Server(c)]
        ELSE mEvents[c] = {} /\ Asks(toServer[c])

\* What n has from m and may still get: buffered events, the line buffer, and data
\* under way on the current connection; the numbers of the events of m, and 0 for the
\* rest.
Arriving(n, m) ==
    mLineBuffer[n][m] \o (IF mServerSocket[n][m] = 0 THEN <<>> ELSE toClient[Socket(n, m)])
Pipeline(n, m) ==
    LET arriving == Arriving(n, m)
    IN  [i \in 1..Len(pInputBuffer[n]) |->
            IF pInputBuffer[n][i][1] = m THEN pInputBuffer[n][i][2] ELSE 0]
        \o [i \in 1..Len(arriving) |->
                IF arriving[i].type \in Event THEN arriving[i].no ELSE 0]

\* Events of a server are neither duplicated nor reordered on their way into the
\* input buffer, across any number of connections.
EventsInOrder ==
    \A n \in Node, m \in Node :
        LET p == Pipeline(n, m)
        IN  \A i \in 1..Len(p) :
                p[i] # 0 => p[i] <= written[m] /\ \A j \in 1..i-1 : p[j] < p[i]

\* Whatever fails, events are delivered at most once and in the order of execution.
Abstract == INSTANCE EventNetwork WITH sent <- written, got <- heard
RefinesEventNetwork == Abstract!Spec

\* Once the losses, crashes and stops are over, all nodes get up and stay up: no order
\* of broadcasts, connections and ends of connections leaves a server unknown, a
\* subscription missing or a client counted for good.
AllUp == <>[](\A n \in Node : mState[n] = "Up")

\* An event that is executed while the node is up reaches all nodes it is an input of,
\* unless a node crashes or stops.
UpMeansHeard ==
    \A n \in Node, m \in Node, k \in 1..MaxWrite :
        n # m /\ Outputs[m] \subseteq Inputs[n]
            => [](mState[m] = "Up" /\ written[m] < k
                    => [](written[m] >= k => <>(heard[n][m] >= k \/ crashes + stops > 0)))

\* A node that is up, but not connected in both directions with all other nodes,
\* learns of it: it leaves this state, or the connections are restored.
Linked(n) ==
    \A m \in Peers(n) :
        /\ mState[m] # "Down"
        /\ Socket(n, m) \in clients \cap clientEnd
        /\ Socket(m, n) \in clients \cap clientEnd
UpMeansLinked == \A n \in Node : mState[n] = "Up" /\ ~Linked(n) ~> mState[n] # "Up" \/ Linked(n)

\* Every request that a node receives is answered, if the node is not stopped.
Waiting(n, m)    == \E i \in 1..Len(udp[n]) : udp[n][i] = Request(m)
RequestsAnswered == \A n \in Node, m \in Node : Waiting(n, m) ~> ~Waiting(n, m)
==============================================================================
