--------------------------- MODULE SimplenetProofs ---------------------------
(* Theorems about Simplenet, for any number of nodes and any bounds.        *)
EXTENDS Simplenet, FiniteSetTheorems, TLAPS

\* Channels and sockets keep their types.
LEMMA SendType ==
  ASSUME NEW M, NEW channel \in [Conn -> Seq(M)], NEW C, NEW open, NEW msg \in M
  PROVE  Send(channel, C, open, msg) \in [Conn -> Seq(M)]
BY DEF Send

\* Closing the end of connections keeps the type of a channel.
LEMMA EmptiedType ==
  ASSUME NEW M, NEW channel \in [Conn -> Seq(M)], NEW C
  PROVE  Emptied(channel, C) \in [Conn -> Seq(M)]
BY DEF Emptied

\* Splitting a sequence at a place where recv() stopped.
LEMMA RestType ==
  ASSUME NEW M, NEW s \in Seq(M), NEW j \in 1..Len(s)
  PROVE  /\ SubSeq(s, 1, j) \in Seq(M)
         /\ SubSeq(s, j + 1, Len(s)) \in Seq(M)
         /\ Len(SubSeq(s, j + 1, Len(s))) = Len(s) - j
         /\ \A i \in 1..(Len(s) - j) : SubSeq(s, j + 1, Len(s))[i] = s[j + i]
OBVIOUS

\* A connection is its client, its server and its number.
LEMMA ConnType ==
  ASSUME NEW c \in Conn
  PROVE  /\ Client(c) \in Node /\ Server(c) \in Node /\ c[3] \in 1..MaxConn
         /\ c = <<Client(c), Server(c), c[3]>>
BY DEF Conn, Client, Server

\* Two nodes and a number make a connection.
LEMMA Triple ==
  ASSUME NEW n \in Node, NEW m \in Node, n # m, NEW k \in 1..MaxConn
  PROVE  <<n, m, k>> \in Conn
BY DEF Conn

\* A broadcast keeps the types, also if some of the datagrams are lost.
LEMMA SendtoType ==
  ASSUME NEW n, NEW msg \in Datagram, NEW waiting \in [Node -> Seq(Datagram)],
         losses \in 0..MaxLoss, Sendto(n, msg, waiting)
  PROVE  udp' \in [Node -> Seq(Datagram)] /\ losses' \in 0..MaxLoss
<1>1. PICK R \in SUBSET {m \in Peers(n) : Listening(m)} :
        /\ losses' = losses + Cardinality({m \in Peers(n) : Listening(m)} \ R)
        /\ losses' <= MaxLoss
  BY DEF Sendto
<1>2. Cardinality({m \in Peers(n) : Listening(m)} \ R) \in Nat
  BY FS_CardinalityType, FS_Subset, NodeAssumption DEF Peers
<1>3. udp' \in [Node -> Seq(Datagram)]
  BY DEF Sendto
<1> QED
  BY <1>1, <1>2, <1>3, BoundAssumption

\* What the nodes send is well typed.
LEMMA MessageTypes ==
  /\ Plain("Hello") \in ToClientMsg /\ Plain("Subscribed") \in ToClientMsg
  /\ Plain("Fragment") \in ToClientMsg
  /\ \A e \in Event, k \in 0..MaxWrite : Notify(e, k) \in ToClientMsg
  /\ "Subscribe" \in ToServerMsg /\ "ResetRequest" \in ToServerMsg
  /\ \A n \in Node : Request(n) \in Datagram /\ Advert(n) \in Datagram
BY BoundAssumption DEF Plain, Notify, ToClientMsg, ToServerMsg, Request, Advert, Datagram

\* Functions and nested functions keep their types under an update.
LEMMA Update ==
  ASSUME NEW S, NEW T, NEW f \in [S -> T], NEW x \in S, NEW v \in T
  PROVE  [f EXCEPT ![x] = v] \in [S -> T]
OBVIOUS

\* A socket is taken off those that are ready.
LEMMA ReadyType ==
  ASSUME NetworkTypeOK, NEW n \in Node, NEW s, ready' = [ready EXCEPT ![n] = @ \ {s}]
  PROVE  ready' \in [Node -> SUBSET (Conn \cup {mListenSocket, mBroadcastSocket})]
BY DEF NetworkTypeOK

\* The end of the handler of a socket keeps the types.
LEMMA HandledType ==
  ASSUME NetworkTypeOK, NEW n \in Node, NEW s, Handled(n, s)
  PROVE  /\ ready' \in [Node -> SUBSET (Conn \cup {mListenSocket, mBroadcastSocket})]
         /\ pc' \in [Node -> ThreadPc]
<1>1. ready' \in [Node -> SUBSET (Conn \cup {mListenSocket, mBroadcastSocket})]
  BY ReadyType DEF Handled
<1>2. pc' \in [Node -> ThreadPc]
  BY Update DEF Handled, NetworkTypeOK, ThreadPc
<1> QED
  BY <1>1, <1>2

\* A server that sends to clients keeps the type of the channels.
LEMMA ToClientType ==
  ASSUME toClient \in [Conn -> Seq(ToClientMsg)], NEW C, NEW msg \in ToClientMsg,
         SendToClient(C, msg)
  PROVE  toClient' \in [Conn -> Seq(ToClientMsg)]
BY SendType DEF SendToClient

\* A client that sends to servers keeps the type of the channels.
LEMMA ToServerType ==
  ASSUME toServer \in [Conn -> Seq(ToServerMsg)], NEW C, NEW msg \in ToServerMsg,
         SendToServer(C, msg)
  PROVE  toServer' \in [Conn -> Seq(ToServerMsg)]
BY SendType DEF SendToServer

\* The end of the listen thread keeps the types.
LEMMA TerminateType ==
  ASSUME NetworkTypeOK, NEW n \in Node, NEW also \in SUBSET Conn, Terminate(n, also)
  PROVE  NetworkTypeOK'
<1>0. UNCHANGED <<mState, mAddress, mLineBuffer, mEvents, mResetRequest, mStopListen,
               mMutexLost, todo, due, made, udp, written, losses, crashes, stops, resets>>
  BY DEF Terminate, CloseClientEnds, CloseServerEnds, device, thread, tcp, history,
     budget
<1>1. /\ clients' \subseteq Conn
      /\ mConnected' \subseteq Conn
      /\ clientEnd' \subseteq Conn
      /\ serverEnd' \subseteq Conn
      /\ backlog' \subseteq Conn
  BY DEF Terminate, CloseClientEnds, CloseServerEnds, NetworkTypeOK
<1>2. mServerSocket' \in [Node -> [Node -> 0..MaxConn]]
  BY BoundAssumption, Update DEF Terminate, CloseClientEnds, CloseServerEnds,
     NetworkTypeOK
<1>3. \A x \in Node : mServerSocket'[x][x] = 0
  BY DEF Terminate, CloseClientEnds, CloseServerEnds, NetworkTypeOK
<1>4. toServer' \in [Conn -> Seq(ToServerMsg)]
  BY EmptiedType DEF Terminate, CloseClientEnds, CloseServerEnds, NetworkTypeOK
<1>5. toClient' \in [Conn -> Seq(ToClientMsg)]
  BY EmptiedType DEF Terminate, CloseClientEnds, CloseServerEnds, NetworkTypeOK
<1>6. ready' \in [Node -> SUBSET (Conn \cup {mListenSocket, mBroadcastSocket})]
  BY Update DEF Terminate, CloseClientEnds, CloseServerEnds, NetworkTypeOK
<1>7. pc' \in [Node -> ThreadPc]
  BY Update DEF Terminate, CloseClientEnds, CloseServerEnds, NetworkTypeOK, ThreadPc
<1> QED
  BY <1>0, <1>1, <1>2, <1>3, <1>4, <1>5, <1>6, <1>7 DEF NetworkTypeOK

\* The type invariant, but for the sequences of input events: every step keeps
\* sockets, channels, states and counters within their declared range.
THEOREM NetworkTypeCorrect == Spec => []NetworkTypeOK
<1>1. Init => NetworkTypeOK
  BY BoundAssumption DEF Init, NetworkTypeOK, ThreadPc
<1>2. NetworkTypeOK /\ [Next]_vars => NetworkTypeOK'
  <2> SUFFICES ASSUME NetworkTypeOK, [Next]_vars PROVE NetworkTypeOK'
    OBVIOUS
  <2>a. /\ mServerSocket \in [Node -> [Node -> 0..MaxConn]]
        /\ made \in [Node -> [Node -> 0..MaxConn]]
        /\ 0 \in 0..MaxConn
        /\ \A n \in Node : mServerSocket[n][n] = 0 /\ n \notin todo[n]
    BY BoundAssumption DEF NetworkTypeOK
  <2>b. /\ toServer \in [Conn -> Seq(ToServerMsg)]
        /\ toClient \in [Conn -> Seq(ToClientMsg)]
        /\ mLineBuffer \in [Node -> [Node -> Seq(ToClientMsg)]]
    BY DEF NetworkTypeOK
  <2>1. ASSUME NEW n \in Node, Scan(n) PROVE NetworkTypeOK'
    <3>0. UNCHANGED <<mAddress, mServerSocket, mLineBuffer, clients, mConnected,
                   mEvents, mResetRequest, mStopListen, mMutexLost, ready, clientEnd,
                   serverEnd, backlog, made, toServer, toClient, written, crashes,
                   stops, resets>>
      BY <2>1 DEF Scan, device, thread, tcp, history, budget
    <3>1. mState' \in [Node -> {"Down", "StartUp", "Up"}]
      BY <2>1, Update DEF Scan, NetworkTypeOK
    <3>2. /\ udp' \in [Node -> Seq(Datagram)]
          /\ losses' \in 0..MaxLoss
      BY <2>1, SendtoType, MessageTypes DEF Scan, NetworkTypeOK
    <3>3. due' \subseteq Node
      BY <2>1 DEF Scan, NetworkTypeOK
    <3>4. todo' \in [Node -> SUBSET Node]
      BY <2>1, Update DEF Scan, NetworkTypeOK, MissingServers, Unknown, Peers
    <3>5. \A x \in Node : x \notin todo'[x]
      BY <2>1 DEF Scan, NetworkTypeOK, MissingServers, Unknown, Peers
    <3>6. pc' \in [Node -> ThreadPc]
      BY <2>1, Update DEF Scan, NetworkTypeOK, ThreadPc
    <3> QED
      BY <3>0, <3>1, <3>2, <3>3, <3>4, <3>5, <3>6 DEF NetworkTypeOK
  <2>2. ASSUME NEW n \in Node, NEW m \in Node, Connect(n, m) PROVE NetworkTypeOK'
    <3>0. UNCHANGED <<mState, mAddress, mLineBuffer, clients, mConnected, mEvents,
                   mResetRequest, mStopListen, mMutexLost, ready, due, toClient, udp,
                   written, losses, crashes, stops, resets>>
      BY <2>2 DEF Connect, device, thread, tcp, history, budget
    <3>1. todo' \in [Node -> SUBSET Node]
      <4>1. todo' = [todo EXCEPT ![n] = todo[n] \ {m}]
        BY <2>2 DEF Connect
      <4>2. todo \in [Node -> SUBSET Node] /\ todo[n] \ {m} \in SUBSET Node
        BY DEF NetworkTypeOK
      <4> QED
        BY <4>1, <4>2, Update
    <3>2. \A x \in Node : x \notin todo'[x]
      BY <2>2 DEF Connect, NetworkTypeOK
    <3>3. pc' \in [Node -> ThreadPc]
      BY <2>2, Update DEF Connect, NetworkTypeOK, ThreadPc
    <3>4. /\ made' \in [Node -> [Node -> 0..MaxConn]]
          /\ mServerSocket' \in [Node -> [Node -> 0..MaxConn]]
          /\ \A x \in Node : mServerSocket'[x][x] = 0
      <4>1. CASE Listening(m)
        <5>1. /\ made[n][m] + 1 \in 0..MaxConn /\ n # m
               /\ made' = [made EXCEPT ![n][m] = made[n][m] + 1]
               /\ mServerSocket' = [mServerSocket EXCEPT ![n][m] = made[n][m] + 1]
          BY <2>2, <4>1, <2>a, BoundAssumption DEF Connect
        <5> QED
          BY <5>1, <2>a
      <4>2. CASE ~ Listening(m)
        BY <2>2, <4>2, <2>a DEF Connect
      <4> QED
        BY <4>1, <4>2
    <3>5. /\ clientEnd' \subseteq Conn
          /\ serverEnd' \subseteq Conn
          /\ backlog' \subseteq Conn
      <4>1. n # m
        BY <2>2, <2>a DEF Connect
      <4>2. made[n][m] + 1 <= MaxConn => <<n, m, made[n][m] + 1>> \in Conn
        BY <4>1, <2>a, BoundAssumption, Triple
      <4>3. \/ UNCHANGED <<clientEnd, serverEnd, backlog>>
            \/ /\ made[n][m] + 1 <= MaxConn
               /\ clientEnd' = clientEnd \cup {<<n, m, made[n][m] + 1>>}
               /\ serverEnd' = serverEnd \cup {<<n, m, made[n][m] + 1>>}
               /\ backlog' = backlog \cup {<<n, m, made[n][m] + 1>>}
        BY <2>2 DEF Connect
      <4> QED
        BY <4>2, <4>3 DEF NetworkTypeOK
    <3>6. toServer' \in [Conn -> Seq(ToServerMsg)]
      BY <2>2, <2>b, ToServerType, MessageTypes DEF Connect
    <3> QED
      BY <3>0, <3>1, <3>2, <3>3, <3>4, <3>5, <3>6 DEF NetworkTypeOK
  <2>3. ASSUME NEW n \in Node, Select(n) PROVE NetworkTypeOK'
    <3>1. CASE Terminate(n, {})
      BY <3>1, TerminateType
    <3>2. CASE n \notin mStopListen
        <4>0. UNCHANGED <<mState, mAddress, mServerSocket, mLineBuffer, clients,
                       mConnected, mEvents, mResetRequest, mStopListen, mMutexLost, todo,
                       due, clientEnd, serverEnd, backlog, made, toServer, toClient, udp,
                       written, losses, crashes, stops, resets>>
          BY <2>3, <3>2 DEF Select, device, thread, tcp, history, budget
        <4>1. ready' \in [Node -> SUBSET (Conn \cup {mListenSocket, mBroadcastSocket})]
          <5>1. Readable(n) \subseteq Conn \cup {mListenSocket, mBroadcastSocket}
            <6>1. ASSUME NEW m \in Node, mServerSocket[n][m] > 0 PROVE Socket(n, m) \in Conn
              <7>1. m # n /\ mServerSocket[n][m] \in 1..MaxConn
                BY <2>a, <6>1
              <7> QED
                BY <7>1, Triple DEF Socket
            <6> QED
              BY <6>1 DEF Readable, ServerSockets, ClientSockets, NetworkTypeOK
          <5>2. ready' = [ready EXCEPT ![n] = Readable(n)]
            BY <2>3, <3>2 DEF Select
          <5> QED
            BY <5>1, <5>2 DEF NetworkTypeOK
        <4>2. pc' \in [Node -> ThreadPc]
          BY <2>3, <3>2 DEF Select, NetworkTypeOK, ThreadPc
        <4> QED
          BY <4>0, <4>1, <4>2 DEF NetworkTypeOK
    <3> QED
      BY <2>3, <3>1, <3>2 DEF Select
  <2>4. ASSUME NEW n \in Node, Accept(n) PROVE NetworkTypeOK'
    <3>0. UNCHANGED <<mState, mAddress, mServerSocket, mLineBuffer, mResetRequest,
                   mStopListen, mMutexLost, todo, due, clientEnd, serverEnd, made,
                   toServer, udp, written, losses, crashes, stops, resets>>
      BY <2>4 DEF Accept, Handled, device, thread, tcp, history, budget
    <3>1. /\ backlog' \subseteq Conn
          /\ clients' \subseteq Conn
          /\ mConnected' \subseteq Conn
      BY <2>4 DEF Accept, Handled, NetworkTypeOK
    <3>2. mEvents' \in [Conn -> SUBSET Event]
      BY <2>4 DEF Accept, Handled, NetworkTypeOK
    <3>3. toClient' \in [Conn -> Seq(ToClientMsg)]
      BY <2>4, <2>b, ToClientType, MessageTypes DEF Accept
    <3>4. ready' \in [Node -> SUBSET (Conn \cup {mListenSocket, mBroadcastSocket})]
      BY <2>4, HandledType DEF Accept
    <3>5. pc' \in [Node -> ThreadPc]
      BY <2>4, HandledType DEF Accept
    <3> QED
      BY <3>0, <3>1, <3>2, <3>3, <3>4, <3>5 DEF NetworkTypeOK
  <2>5. ASSUME NEW n \in Node, AcceptFails(n) PROVE NetworkTypeOK'
    <3>1. PICK also \in SUBSET backlog : Terminate(n, also)
      BY <2>5 DEF AcceptFails
    <3>2. also \in SUBSET Conn
      BY <3>1 DEF NetworkTypeOK
    <3> QED
      BY <3>1, <3>2, TerminateType
  <2>6. ASSUME NEW n \in Node, HandleUdp(n) PROVE NetworkTypeOK'
    <3>0. UNCHANGED <<mState, mServerSocket, mLineBuffer, clients, mConnected, mEvents,
                   mResetRequest, mStopListen, mMutexLost, todo, clientEnd, serverEnd,
                   backlog, made, toServer, toClient, written, crashes, stops, resets>>
      BY <2>6 DEF HandleUdp, Handled, device, thread, tcp, history, budget
    <3>1. /\ Head(udp[n]).node \in Node
          /\ [udp EXCEPT ![n] = Tail(@)] \in [Node -> Seq(Datagram)]
      <4>1. udp \in [Node -> Seq(Datagram)] /\ udp[n] # <<>>
        BY <2>6 DEF HandleUdp, NetworkTypeOK
      <4>2. Head(udp[n]) \in Datagram /\ Tail(udp[n]) \in Seq(Datagram)
        BY <4>1
      <4> QED
        BY <4>1, <4>2, Update DEF Datagram
    <3>2. /\ udp' \in [Node -> Seq(Datagram)]
          /\ losses' \in 0..MaxLoss
      <4>1. losses \in 0..MaxLoss /\ Advert(n) \in Datagram
        BY MessageTypes DEF NetworkTypeOK
      <4> QED
        BY <2>6, <3>1, <4>1, SendtoType DEF HandleUdp
    <3>3. due' \subseteq Node
      BY <2>6 DEF HandleUdp, Handled, NetworkTypeOK
    <3>4. mAddress' \in [Node -> SUBSET Node]
      <4>1. \/ mAddress' = mAddress
            \/ mAddress' = [mAddress EXCEPT ![n] = mAddress[n] \cup {Head(udp[n]).node}]
        BY <2>6 DEF HandleUdp
      <4>2. mAddress[n] \cup {Head(udp[n]).node} \in SUBSET Node
        BY <3>1 DEF NetworkTypeOK
      <4>3. mAddress \in [Node -> SUBSET Node]
        BY DEF NetworkTypeOK
      <4> QED
        BY <4>1, <4>2, <4>3, Update
    <3>5. ready' \in [Node -> SUBSET (Conn \cup {mListenSocket, mBroadcastSocket})]
      BY <2>6, HandledType DEF HandleUdp
    <3>6. pc' \in [Node -> ThreadPc]
      BY <2>6, HandledType DEF HandleUdp
    <3> QED
      BY <3>0, <3>1, <3>2, <3>3, <3>4, <3>5, <3>6 DEF NetworkTypeOK
  <2>7. ASSUME NEW n \in Node, NEW m \in Node, ReadServer(n, m) PROVE NetworkTypeOK'
    <3>0. UNCHANGED <<mState, mAddress, mServerSocket, clients, mConnected, mEvents,
                   mResetRequest, mStopListen, mMutexLost, todo, due, clientEnd,
                   serverEnd, backlog, made, toServer, udp, written, losses, crashes,
                   stops, resets>>
      BY <2>7 DEF ReadServer, Handled, device, thread, tcp, history, budget
    <3>1. /\ toClient' \in [Conn -> Seq(ToClientMsg)]
          /\ mLineBuffer' \in [Node -> [Node -> Seq(ToClientMsg)]]
      <4>1. PICK j \in 1..Len(toClient[Socket(n, m)]) :
              /\ toClient' = [toClient EXCEPT ![Socket(n, m)] = SubSeq(@, j + 1, Len(@))]
              /\ mLineBuffer' = [mLineBuffer EXCEPT ![n][m] =
                    Remaining(mLineBuffer[n][m] \o SubSeq(toClient[Socket(n, m)], 1, j))]
        BY <2>7 DEF ReadServer
      <4>2. Socket(n, m) \in Conn
        BY <2>7 DEF ReadServer, ServerTurn, NetworkTypeOK
      <4>3. Remaining(mLineBuffer[n][m] \o SubSeq(toClient[Socket(n, m)], 1, j))
              \in Seq(ToClientMsg)
        BY <4>2, <2>b, RestType DEF Remaining
      <4> QED
        BY <4>1, <4>2, <4>3, <2>b, RestType
    <3>2. ready' \in [Node -> SUBSET (Conn \cup {mListenSocket, mBroadcastSocket})]
      BY <2>7, HandledType DEF ReadServer
    <3>3. pc' \in [Node -> ThreadPc]
      BY <2>7, HandledType DEF ReadServer
    <3> QED
      BY <3>0, <3>1, <3>2, <3>3 DEF NetworkTypeOK
  <2>8. ASSUME NEW n \in Node, NEW m \in Node, EofServer(n, m) PROVE NetworkTypeOK'
    <3>0. UNCHANGED <<mState, mAddress, mServerSocket, mLineBuffer, clients, mConnected,
                   mEvents, mResetRequest, mStopListen, mMutexLost, todo, due,
                   serverEnd, backlog, made, toServer, udp, written, losses, crashes,
                   stops, resets>>
      BY <2>8 DEF EofServer, CloseClientEnds, device, thread, tcp, history, budget
    <3>1. clientEnd' \subseteq Conn
      BY <2>8 DEF EofServer, CloseClientEnds, NetworkTypeOK
    <3>2. toClient' \in [Conn -> Seq(ToClientMsg)]
      BY <2>8, EmptiedType DEF EofServer, CloseClientEnds, NetworkTypeOK
    <3>3. ready' \in [Node -> SUBSET (Conn \cup {mListenSocket, mBroadcastSocket})]
      BY <2>8, ReadyType DEF EofServer
    <3>4. pc' \in [Node -> ThreadPc]
      BY <2>8, Update DEF EofServer, CloseClientEnds, NetworkTypeOK, ThreadPc
    <3> QED
      BY <3>0, <3>1, <3>2, <3>3, <3>4 DEF NetworkTypeOK
  <2>9. ASSUME NEW n \in Node, NEW m \in Node, ClearSocket(n, m) PROVE NetworkTypeOK'
    <3>0. UNCHANGED <<mState, mAddress, mLineBuffer, clients, mConnected, mEvents,
                   mResetRequest, mStopListen, mMutexLost, todo, ready, due, clientEnd,
                   serverEnd, backlog, made, toServer, toClient, udp, written, losses,
                   crashes, stops, resets>>
      BY <2>9 DEF ClearSocket, device, thread, tcp, history, budget
    <3>1. mServerSocket' \in [Node -> [Node -> 0..MaxConn]]
      BY <2>9, <2>a DEF ClearSocket
    <3>2. \A x \in Node : mServerSocket'[x][x] = 0
      BY <2>9, <2>a DEF ClearSocket
    <3>3. pc' \in [Node -> ThreadPc]
      BY <2>9, Update DEF ClearSocket, NetworkTypeOK, ThreadPc
    <3> QED
      BY <3>0, <3>1, <3>2, <3>3 DEF NetworkTypeOK
  <2>10. ASSUME NEW n \in Node, NEW c \in Conn, ReadClient(n, c) PROVE NetworkTypeOK'
    <3>0. UNCHANGED <<mState, mAddress, mServerSocket, mLineBuffer, clients,
                   mStopListen, mMutexLost, todo, due, clientEnd, serverEnd, backlog,
                   made, udp, written, losses, crashes, stops, resets>>
      BY <2>10 DEF ReadClient, Handled, device, thread, tcp, history, budget
    <3>1. toServer' \in [Conn -> Seq(ToServerMsg)]
      <4>1. PICK j \in 1..Len(toServer[c]) :
                toServer' = [toServer EXCEPT ![c] = SubSeq(@, j + 1, Len(@))]
        BY <2>10 DEF ReadClient
      <4>2. toServer \in [Conn -> Seq(ToServerMsg)]
        BY DEF NetworkTypeOK
      <4> QED
        BY <4>1, <4>2, RestType
    <3>2. mEvents' \in [Conn -> SUBSET Event]
      <4>1. Subscribed(c) \in SUBSET Event
        BY ConnType, EventAssumption DEF Subscribed
      <4>2. mEvents' = [mEvents EXCEPT ![c] = Subscribed(c)] \/ mEvents' = mEvents
        BY <2>10 DEF ReadClient
      <4>3. mEvents \in [Conn -> SUBSET Event]
        BY DEF NetworkTypeOK
      <4> QED
        BY <4>1, <4>2, <4>3, Update
    <3>3. /\ mConnected' \subseteq Conn
          /\ mResetRequest' \subseteq Node
      <4>1. mConnected' \subseteq mConnected \cup {c} /\ mResetRequest' \subseteq mResetRequest \cup {n}
        BY <2>10 DEF ReadClient
      <4> QED
        BY <4>1 DEF NetworkTypeOK
    <3>4. toClient' \in [Conn -> Seq(ToClientMsg)]
      BY <2>10, <2>b, ToClientType, MessageTypes DEF ReadClient
    <3>5. ready' \in [Node -> SUBSET (Conn \cup {mListenSocket, mBroadcastSocket})]
      BY <2>10, HandledType DEF ReadClient
    <3>6. pc' \in [Node -> ThreadPc]
      BY <2>10, HandledType DEF ReadClient
    <3> QED
      BY <3>0, <3>1, <3>2, <3>3, <3>4, <3>5, <3>6 DEF NetworkTypeOK
  <2>11. ASSUME NEW n \in Node, NEW c \in Conn, EofClient(n, c) PROVE NetworkTypeOK'
    <3>0. UNCHANGED <<mState, mAddress, mServerSocket, mLineBuffer, mEvents,
                   mResetRequest, mStopListen, mMutexLost, todo, due, clientEnd,
                   backlog, made, toClient, udp, written, losses, crashes, stops, resets>>
      BY <2>11 DEF EofClient, Handled, CloseServerEnds, device, thread, tcp, history,
         budget
    <3>1. /\ serverEnd' \subseteq Conn
          /\ clients' \subseteq Conn
          /\ mConnected' \subseteq Conn
      BY <2>11 DEF EofClient, Handled, CloseServerEnds, NetworkTypeOK
    <3>2. toServer' \in [Conn -> Seq(ToServerMsg)]
      BY <2>11, EmptiedType DEF EofClient, Handled, CloseServerEnds, NetworkTypeOK
    <3>3. ready' \in [Node -> SUBSET (Conn \cup {mListenSocket, mBroadcastSocket})]
      BY <2>11, HandledType DEF EofClient
    <3>4. pc' \in [Node -> ThreadPc]
      BY <2>11, HandledType DEF EofClient
    <3> QED
      BY <3>0, <3>1, <3>2, <3>3, <3>4 DEF NetworkTypeOK
  <2>12. ASSUME NEW n \in Node, Start(n) PROVE NetworkTypeOK'
    <3>0. UNCHANGED <<mEvents, mMutexLost, todo, ready, clientEnd, serverEnd, backlog,
                   made, toServer, toClient, udp, written, losses, crashes, stops,
                   resets>>
      BY <2>12 DEF Start, device, thread, tcp, history, budget
    <3>1. mState' \in [Node -> {"Down", "StartUp", "Up"}]
      BY <2>12, Update DEF Start, NetworkTypeOK
    <3>2. mAddress' \in [Node -> SUBSET Node]
      BY <2>12, Update, NodeAssumption DEF Start, NetworkTypeOK
    <3>3. mServerSocket' \in [Node -> [Node -> 0..MaxConn]]
      BY <2>12, Update, BoundAssumption DEF Start, NetworkTypeOK
    <3>4. \A x \in Node : mServerSocket'[x][x] = 0
      BY <2>12 DEF Start, NetworkTypeOK
    <3>5. mLineBuffer' \in [Node -> [Node -> Seq(ToClientMsg)]]
      BY <2>12, Update DEF Start, NetworkTypeOK
    <3>6. /\ clients' \subseteq Conn
          /\ mConnected' \subseteq Conn
          /\ mResetRequest' \subseteq Node
          /\ mStopListen' \subseteq Node
          /\ due' \subseteq Node
      BY <2>12 DEF Start, NetworkTypeOK
    <3>7. pc' \in [Node -> ThreadPc]
      BY <2>12, Update DEF Start, NetworkTypeOK, ThreadPc
    <3> QED
      BY <3>0, <3>1, <3>2, <3>3, <3>4, <3>5, <3>6, <3>7 DEF NetworkTypeOK
  <2>13. ASSUME NEW n \in Node, StopRequest(n) PROVE NetworkTypeOK'
    <3>0. UNCHANGED <<mState, mAddress, mServerSocket, mLineBuffer, clients, mConnected,
                   mEvents, mResetRequest, mMutexLost, pc, todo, ready, due, clientEnd,
                   serverEnd, backlog, made, toServer, toClient, udp, written, losses,
                   crashes, resets>>
      BY <2>13 DEF StopRequest, device, thread, tcp, history, budget
    <3>1. mStopListen' \subseteq Node
      BY <2>13 DEF StopRequest, NetworkTypeOK
    <3>2. stops' \in 0..MaxStop
      BY <2>13, BoundAssumption DEF StopRequest, NetworkTypeOK
    <3> QED
      BY <3>0, <3>1, <3>2 DEF NetworkTypeOK
  <2>14. ASSUME NEW n \in Node, StopJoin(n) PROVE NetworkTypeOK'
    <3>0. UNCHANGED <<mAddress, mServerSocket, mLineBuffer, clients, mConnected,
                   mEvents, mStopListen, mMutexLost, todo, ready, due, clientEnd, made,
                   toClient, written, losses, crashes, stops, resets>>
      BY <2>14 DEF StopJoin, CloseServerEnds, device, thread, tcp, history, budget
    <3>1. /\ serverEnd' \subseteq Conn
          /\ backlog' \subseteq Conn
          /\ mResetRequest' \subseteq Node
      BY <2>14 DEF StopJoin, CloseServerEnds, NetworkTypeOK
    <3>2. toServer' \in [Conn -> Seq(ToServerMsg)]
      BY <2>14, EmptiedType DEF StopJoin, CloseServerEnds, NetworkTypeOK
    <3>3. udp' \in [Node -> Seq(Datagram)]
      BY <2>14, Update DEF StopJoin, CloseServerEnds, NetworkTypeOK
    <3>4. mState' \in [Node -> {"Down", "StartUp", "Up"}]
      BY <2>14, Update DEF StopJoin, CloseServerEnds, NetworkTypeOK
    <3>5. pc' \in [Node -> ThreadPc]
      BY <2>14, Update DEF StopJoin, CloseServerEnds, NetworkTypeOK, ThreadPc
    <3> QED
      BY <3>0, <3>1, <3>2, <3>3, <3>4, <3>5 DEF NetworkTypeOK
  <2>15. ASSUME NEW n \in Node, NEW e \in Event, WriteOutput(n, e) PROVE NetworkTypeOK'
    <3>0. UNCHANGED <<mState, mAddress, mServerSocket, mLineBuffer, clients, mConnected,
                   mEvents, mResetRequest, mStopListen, mMutexLost, pc, todo, ready,
                   due, clientEnd, serverEnd, backlog, made, toServer, udp, losses,
                   crashes, stops, resets>>
      BY <2>15 DEF WriteOutput, device, thread, tcp, history, budget
    <3>1. written' \in [Node -> 0..MaxWrite]
      <4>1. written' = [written EXCEPT ![n] = written[n] + 1] /\ written[n] < MaxWrite
        BY <2>15 DEF WriteOutput
      <4>2. written \in [Node -> 0..MaxWrite]
        BY DEF NetworkTypeOK
      <4>3. written[n] + 1 \in 0..MaxWrite
        BY <4>1, <4>2, BoundAssumption
      <4> QED
        BY <4>1, <4>2, <4>3, Update
    <3>2. toClient' \in [Conn -> Seq(ToClientMsg)]
      BY <2>15, <3>1, <2>b, ToClientType, MessageTypes DEF WriteOutput
    <3> QED
      BY <3>0, <3>1, <3>2 DEF NetworkTypeOK
  <2>16. ASSUME NEW n \in Node, Reset(n) PROVE NetworkTypeOK'
    <3>0. UNCHANGED <<mState, mAddress, mServerSocket, mLineBuffer, clients, mConnected,
                   mEvents, mStopListen, pc, todo, ready, due, clientEnd, serverEnd,
                   backlog, made, toClient, udp, written, losses, crashes, stops>>
      BY <2>16 DEF Reset, device, thread, tcp, history, budget
    <3>1. resets' \in 0..MaxReset
      BY <2>16, BoundAssumption DEF Reset, NetworkTypeOK
    <3>2. /\ mResetRequest' \subseteq Node
          /\ mMutexLost' \subseteq Node
      BY <2>16 DEF Reset, NetworkTypeOK
    <3>3. toServer' \in [Conn -> Seq(ToServerMsg)]
      BY <2>16, <2>b, ToServerType, MessageTypes DEF Reset
    <3> QED
      BY <3>0, <3>1, <3>2, <3>3 DEF NetworkTypeOK
  <2>17. ASSUME NEW n \in Node, ReadInput(n) PROVE NetworkTypeOK'
    <3>0. UNCHANGED <<mState, mAddress, mServerSocket, mLineBuffer, clients, mConnected,
                   mEvents, mResetRequest, mStopListen, mMutexLost, pc, todo, ready,
                   due, clientEnd, serverEnd, backlog, made, toServer, toClient, udp,
                   written, losses, crashes, stops, resets>>
      BY <2>17 DEF ReadInput, device, thread, tcp, history, budget
    <3> QED
      BY <3>0 DEF NetworkTypeOK
  <2>18. ASSUME NEW n \in Node, ResetRequest(n) PROVE NetworkTypeOK'
    <3>0. UNCHANGED <<mState, mAddress, mServerSocket, mLineBuffer, clients, mConnected,
                   mEvents, mStopListen, mMutexLost, pc, todo, ready, due, clientEnd,
                   serverEnd, backlog, made, toServer, toClient, udp, written, losses,
                   crashes, stops, resets>>
      BY <2>18 DEF ResetRequest, device, thread, tcp, history, budget
    <3>1. mResetRequest' \subseteq Node
      BY <2>18 DEF ResetRequest, NetworkTypeOK
    <3> QED
      BY <3>0, <3>1 DEF NetworkTypeOK
  <2>19. ASSUME NEW n \in Node, BroadcastDue(n) PROVE NetworkTypeOK'
    <3>0. UNCHANGED <<mState, mAddress, mServerSocket, mLineBuffer, clients, mConnected,
                   mEvents, mResetRequest, mStopListen, mMutexLost, pc, todo, ready,
                   clientEnd, serverEnd, backlog, made, toServer, toClient, udp,
                   written, losses, crashes, stops, resets>>
      BY <2>19 DEF BroadcastDue, device, thread, tcp, history, budget
    <3>1. due' \subseteq Node
      BY <2>19 DEF BroadcastDue, NetworkTypeOK
    <3> QED
      BY <3>0, <3>1 DEF NetworkTypeOK
  <2>20. ASSUME NEW n \in Node, Crash(n) PROVE NetworkTypeOK'
    <3>0. UNCHANGED <<mEvents, made, written, losses, stops, resets>>
      BY <2>20 DEF Crash, CloseServerEnds, device, thread, tcp, history, budget
    <3>1. crashes' \in 0..MaxCrash
      BY <2>20, BoundAssumption DEF Crash, CloseServerEnds, NetworkTypeOK
    <3>2. mState' \in [Node -> {"Down", "StartUp", "Up"}]
      BY <2>20, Update DEF Crash, CloseServerEnds, NetworkTypeOK
    <3>3. mAddress' \in [Node -> SUBSET Node]
      BY <2>20, Update DEF Crash, CloseServerEnds, NetworkTypeOK
    <3>4. mServerSocket' \in [Node -> [Node -> 0..MaxConn]]
      BY <2>20, Update, BoundAssumption DEF Crash, CloseServerEnds, NetworkTypeOK
    <3>5. \A x \in Node : mServerSocket'[x][x] = 0
      BY <2>20 DEF Crash, CloseServerEnds, NetworkTypeOK
    <3>6. mLineBuffer' \in [Node -> [Node -> Seq(ToClientMsg)]]
      BY <2>20, Update DEF Crash, CloseServerEnds, NetworkTypeOK
    <3>7. /\ clients' \subseteq Conn
          /\ mConnected' \subseteq Conn
          /\ mResetRequest' \subseteq Node
          /\ mStopListen' \subseteq Node
          /\ mMutexLost' \subseteq Node
          /\ due' \subseteq Node
          /\ backlog' \subseteq Conn
          /\ clientEnd' \subseteq Conn
          /\ serverEnd' \subseteq Conn
      BY <2>20 DEF Crash, CloseServerEnds, NetworkTypeOK
    <3>8. pc' \in [Node -> ThreadPc]
      BY <2>20, Update DEF Crash, CloseServerEnds, NetworkTypeOK, ThreadPc
    <3>9. todo' \in [Node -> SUBSET Node]
      BY <2>20, Update DEF Crash, CloseServerEnds, NetworkTypeOK
    <3>10. \A x \in Node : x \notin todo'[x]
      BY <2>20 DEF Crash, CloseServerEnds, NetworkTypeOK
    <3>11. ready' \in [Node -> SUBSET (Conn \cup {mListenSocket, mBroadcastSocket})]
      BY <2>20, Update DEF Crash, CloseServerEnds, NetworkTypeOK
    <3>12. udp' \in [Node -> Seq(Datagram)]
      BY <2>20, Update DEF Crash, CloseServerEnds, NetworkTypeOK
    <3>13. toClient' \in [Conn -> Seq(ToClientMsg)]
      <4>1. Emptied(toClient, ServerSockets(n)) \in [Conn -> Seq(ToClientMsg)]
        BY <2>b, EmptiedType
      <4>2. ASSUME NEW cut
            PROVE  Send(Emptied(toClient, ServerSockets(n)), cut, clientEnd, Plain("Fragment"))
                     \in [Conn -> Seq(ToClientMsg)]
        BY <4>1, SendType, MessageTypes
      <4> QED
        BY <2>20, <2>b, <4>2 DEF Crash
    <3>14. toServer' \in [Conn -> Seq(ToServerMsg)]
      <4>1. ASSUME NEW C PROVE Emptied(toServer, C) \in [Conn -> Seq(ToServerMsg)]
        BY <2>b, EmptiedType
      <4> QED
        BY <2>20, <2>b, <4>1 DEF Crash, CloseServerEnds
    <3> QED
      BY <3>0, <3>1, <3>2, <3>3, <3>4, <3>5, <3>6, <3>7, <3>8, <3>9, <3>10, <3>11,
         <3>12, <3>13, <3>14 DEF NetworkTypeOK
  <2>21. ASSUME NEW c \in Conn, PeerReset(c) PROVE NetworkTypeOK'
    <3>0. UNCHANGED <<mState, mAddress, mServerSocket, mLineBuffer, clients, mConnected,
                   mEvents, mResetRequest, mStopListen, mMutexLost, pc, todo, ready,
                   due, backlog, made, udp, written, losses, crashes, stops, resets>>
      BY <2>21 DEF PeerReset, CloseClientEnds, CloseServerEnds, device, thread, tcp,
         history, budget
    <3>1. /\ clientEnd' \subseteq Conn
          /\ serverEnd' \subseteq Conn
      BY <2>21 DEF PeerReset, CloseClientEnds, CloseServerEnds, NetworkTypeOK
    <3>2. toClient' \in [Conn -> Seq(ToClientMsg)]
      BY <2>21, <2>b, EmptiedType DEF PeerReset, CloseClientEnds, CloseServerEnds
    <3>3. toServer' \in [Conn -> Seq(ToServerMsg)]
      BY <2>21, <2>b, EmptiedType DEF PeerReset, CloseClientEnds, CloseServerEnds
    <3> QED
      BY <3>0, <3>1, <3>2, <3>3 DEF NetworkTypeOK
  <2>22. CASE UNCHANGED vars
    BY <2>22 DEF vars, device, thread, tcp, history, budget, NetworkTypeOK
  <2> QED
    BY <2>1, <2>2, <2>3, <2>4, <2>5, <2>6, <2>7, <2>8, <2>9, <2>10, <2>11, <2>12, <2>13,
       <2>14, <2>15, <2>16, <2>17, <2>18, <2>19, <2>20, <2>21, <2>22 DEF Next, Listen,
       Application
<1> QED
  BY <1>1, <1>2, PTL DEF Spec

------------------------------------------------------------------------------
(* The strengthening that makes SubscriptionKept inductive: connections are *)
(* numbered in the order they are made, so that a new one is nobody's yet;  *)
(* and a connection that waits to be accepted has its subscription under    *)
(* way already.                                                             *)
SubscribeInv ==
    /\ \A c \in clients \cup backlog : c[3] <= made[Client(c)][Server(c)]
    /\ backlog \cap clients = {}
    /\ \A c \in backlog \cap clientEnd : Asks(toServer[c])
    /\ SubscriptionKept

\* A subscription that is under way stays so, whatever is sent after it and unless
\* it is among the commands that are received.
LEMMA AsksSend ==
  ASSUME NetworkTypeOK, NEW c \in Conn, Asks(toServer[c]), NEW C, NEW open,
         NEW msg \in ToServerMsg
  PROVE  Asks(Send(toServer, C, open, msg)[c])
BY DEF NetworkTypeOK, Asks, Send

\* A request stays under way if it is not in the part that is received.
LEMMA AsksRest ==
  ASSUME NEW s \in Seq(ToServerMsg), Asks(s), NEW j \in 1..Len(s),
         "Subscribe" \notin {s[i] : i \in 1..j}
  PROVE  Asks(SubSeq(s, j + 1, Len(s)))
<1>1. PICK i \in 1..Len(s) : s[i] = "Subscribe"
  BY DEF Asks
<1>2. i > j /\ i - j \in 1..Len(SubSeq(s, j + 1, Len(s)))
  BY <1>1
<1>3. SubSeq(s, j + 1, Len(s))[i - j] = "Subscribe"
  BY <1>1, <1>2
<1> QED
  BY <1>2, <1>3 DEF Asks

\* A step that takes neither a new connection nor a command keeps SubscribeInv.
LEMMA KeptUnless ==
  ASSUME SubscribeInv,
         clients' \subseteq clients, backlog' \subseteq backlog, made' = made,
         \A c \in clients' : /\ mEvents'[c] = mEvents[c]
                             /\ c \in mConnected' <=> c \in mConnected,
         \A c \in (clients' \cup backlog') \cap clientEnd' :
             c \in clientEnd /\ (Asks(toServer[c]) => Asks(toServer'[c]))
  PROVE  SubscribeInv'
BY DEF SubscribeInv, SubscriptionKept

\* Commands are lost only with the server end of their connection.
LEMMA EmptiedAsks ==
  ASSUME NetworkTypeOK, NEW C, NEW c \in Conn \ C
  PROVE  Emptied(toServer, C)[c] = toServer[c]
BY DEF NetworkTypeOK, Emptied

\* The end of the listen thread closes its sockets, and loses no other subscription.
LEMMA TerminateKeeps ==
  ASSUME NetworkTypeOK, SubscribeInv, NEW n \in Node, NEW also \in SUBSET backlog,
         Terminate(n, also)
  PROVE  SubscribeInv'
<1> DEFINE closed == ClientSockets(n) \cup also
<1>1. /\ clients' = clients \ ClientSockets(n) /\ backlog' = backlog \ also
      /\ toServer' = Emptied(toServer, closed)
  BY DEF Terminate, CloseServerEnds
<1>2. \A c \in clients' \cup backlog' : c \in Conn \ closed
  BY <1>1 DEF NetworkTypeOK, SubscribeInv, ClientSockets
<1>3. \A c \in clients' \cup backlog' : toServer'[c] = toServer[c]
  BY <1>1, <1>2, EmptiedAsks
<1> QED
  BY <1>3, KeptUnless DEF Terminate, CloseClientEnds

LEMMA SubscribeCorrect == Spec => []SubscribeInv
<1>1. Init => SubscribeInv
  BY DEF Init, SubscribeInv, SubscriptionKept
<1>2. NetworkTypeOK /\ SubscribeInv /\ [Next]_vars => SubscribeInv'
  <2> SUFFICES ASSUME NetworkTypeOK, SubscribeInv, [Next]_vars PROVE SubscribeInv'
    OBVIOUS
  <2>0. clients \subseteq Conn /\ backlog \subseteq Conn /\ mConnected \subseteq Conn
    BY DEF NetworkTypeOK
  \* Steps that change none of the variables of SubscribeInv.
  <2>1. ASSUME NEW n \in Node,
               Scan(n) \/ HandleUdp(n) \/ StopRequest(n) \/ ReadInput(n)
                 \/ ResetRequest(n) \/ BroadcastDue(n)
        PROVE  SubscribeInv'
    <3>1. UNCHANGED <<clients, backlog, made, mEvents, mConnected, clientEnd, toServer>>
      BY <2>1 DEF Scan, HandleUdp, StopRequest, ReadInput, ResetRequest, BroadcastDue, tcp,
         device
    <3> QED
      BY <3>1, KeptUnless
  <2>2. ASSUME NEW n \in Node, NEW m \in Node, ReadServer(n, m) \/ ClearSocket(n, m)
        PROVE  SubscribeInv'
    <3>1. UNCHANGED <<clients, backlog, made, mEvents, mConnected, clientEnd, toServer>>
      BY <2>2 DEF ReadServer, ClearSocket, tcp
    <3> QED
      BY <3>1, KeptUnless
  <2>3. ASSUME NEW n \in Node, NEW e \in Event, WriteOutput(n, e) PROVE SubscribeInv'
    <3>1. UNCHANGED <<clients, backlog, made, mEvents, mConnected, clientEnd, toServer>>
      BY <2>3 DEF WriteOutput, device
    <3> QED
      BY <3>1, KeptUnless
  \* A new connection has the highest number, and its subscription is under way.
  <2>4. ASSUME NEW n \in Node, NEW m \in Node, Connect(n, m) PROVE SubscribeInv'
    <3>1. CASE ~ Listening(m)
      <4>1. UNCHANGED <<clients, backlog, made, mEvents, mConnected, clientEnd, toServer>>
        BY <2>4, <3>1 DEF Connect
      <4> QED
        BY <4>1, KeptUnless
    <3>2. CASE Listening(m)
      <4> DEFINE k == made[n][m] + 1
      <4> DEFINE b == <<n, m, k>>
      <4>1. /\ made' = [made EXCEPT ![n][m] = k]
            /\ clientEnd' = clientEnd \cup {b} /\ serverEnd' = serverEnd \cup {b}
            /\ backlog' = backlog \cup {b}
            /\ toServer' = Send(toServer, {b}, serverEnd', "Subscribe")
            /\ UNCHANGED <<clients, mConnected, mEvents>>
            /\ k <= MaxConn /\ m \in todo[n]
        BY <2>4, <3>2 DEF Connect, SendToServer
      <4>0. /\ n # m /\ made[n][m] \in 0..MaxConn
            /\ toServer \in [Conn -> Seq(ToServerMsg)]
        <5>1. n \notin todo[n]
          BY DEF NetworkTypeOK
        <5>2. m \in todo[n]
          BY <4>1
        <5>3. n # m
          BY <5>1, <5>2
        <5>4. /\ made[n][m] \in 0..MaxConn
              /\ toServer \in [Conn -> Seq(ToServerMsg)]
          BY DEF NetworkTypeOK
        <5> QED
          BY <5>3, <5>4
      <4>2. b \in Conn
        <5>1. k \in 1..MaxConn
          BY <4>0, <4>1, BoundAssumption
        <5> QED
          BY <4>0, <5>1, Triple
      <4>3. Client(b) = n /\ Server(b) = m /\ b[3] = k
        BY DEF Client, Server
      <4>4. b \notin clients \cup backlog
        <5>1. b \in clients \cup backlog => k <= made[n][m]
          BY <4>3 DEF SubscribeInv
        <5> QED
          BY <4>0, <5>1
      <4>5. \A c \in clients \cup backlog : c[3] <= made'[Client(c)][Server(c)]
        <5> SUFFICES ASSUME NEW c \in clients \cup backlog
                     PROVE  c[3] <= made'[Client(c)][Server(c)]
          OBVIOUS
        <5>1. c \in Conn /\ c[3] <= made[Client(c)][Server(c)]
          BY <2>0 DEF SubscribeInv
        <5>2. Client(c) \in Node /\ Server(c) \in Node /\ c[3] \in Int
          BY <5>1, ConnType
        <5>3. made \in [Node -> [Node -> Int]]
          BY DEF NetworkTypeOK
        <5> QED
          BY <4>1, <5>1, <5>2, <5>3
      <4>6. b[3] <= made'[Client(b)][Server(b)]
        <5>1. made \in [Node -> [Node -> Int]]
          BY DEF NetworkTypeOK
        <5> QED
          BY <4>1, <4>3, <5>1
      <4>7. Asks(toServer'[b])
        <5>1. toServer'[b] = Append(toServer[b], "Subscribe")
          BY <4>0, <4>1, <4>2 DEF Send
        <5>2. toServer[b] \in Seq(ToServerMsg) /\ "Subscribe" \in ToServerMsg
          BY <4>0, <4>2 DEF ToServerMsg
        <5> QED
          BY <5>1, <5>2 DEF Asks
      <4>8. \A c \in clients \cup backlog :
               /\ c \in clientEnd' => c \in clientEnd
               /\ Asks(toServer[c]) => Asks(toServer'[c])
        BY <2>0, <4>1, <4>4, AsksSend, MessageTypes
      <4> QED
        BY <4>1, <4>4, <4>5, <4>6, <4>7, <4>8 DEF SubscribeInv, SubscriptionKept
    <3> QED
      BY <3>1, <3>2
  <2>5. ASSUME NEW n \in Node, Select(n) PROVE SubscribeInv'
    <3>1. CASE Terminate(n, {})
      BY <3>1, TerminateKeeps
    <3>2. CASE n \notin mStopListen
      <4>1. UNCHANGED <<clients, backlog, made, mEvents, mConnected, clientEnd, toServer>>
        BY <2>5, <3>2 DEF Select, device, tcp
      <4> QED
        BY <4>1, KeptUnless
    <3> QED
      BY <2>5, <3>1, <3>2 DEF Select
  <2>6. ASSUME NEW n \in Node, AcceptFails(n) PROVE SubscribeInv'
    <3>1. PICK also \in SUBSET backlog : Terminate(n, also)
      BY <2>6 DEF AcceptFails
    <3> QED
      BY <3>1, TerminateKeeps
  \* The client that is accepted has no subscription yet, but has asked for it.
  <2>7. ASSUME NEW n \in Node, Accept(n) PROVE SubscribeInv'
    <3>1. PICK b \in backlog :
            /\ backlog' = backlog \ {b} /\ clients' = clients \cup {b}
            /\ mConnected' = mConnected \ {b} /\ mEvents' = [mEvents EXCEPT ![b] = {}]
      BY <2>7 DEF Accept
    <3>2. UNCHANGED <<clientEnd, made, toServer>>
      BY <2>7 DEF Accept
    <3>3. mEvents'[b] = {} /\ \A c \in Conn \ {b} : mEvents'[c] = mEvents[c]
      BY <3>1, <2>0 DEF NetworkTypeOK
    <3>4. b \notin clients
      BY <3>1 DEF SubscribeInv
    <3> QED
      BY <2>0, <3>1, <3>2, <3>3, <3>4 DEF SubscribeInv, SubscriptionKept
  <2>8. ASSUME NEW n \in Node, NEW m \in Node, EofServer(n, m) PROVE SubscribeInv'
    <3>1. /\ UNCHANGED <<clients, backlog, made, mEvents, mConnected, toServer>>
          /\ clientEnd' \subseteq clientEnd
      BY <2>8 DEF EofServer, CloseClientEnds, device
    <3> QED
      BY <3>1, KeptUnless
  \* The command that is received is executed, or is under way no more.
  <2>9. ASSUME NEW n \in Node, NEW b \in Conn, ReadClient(n, b) PROVE SubscribeInv'
    <3>0. UNCHANGED <<clients, backlog, made, clientEnd>>
      BY <2>9 DEF ReadClient
    <3>1. b \notin backlog
      <4>1. b \in clients
        BY <2>9 DEF ReadClient
      <4> QED
        BY <4>1 DEF SubscribeInv
    <3>2. PICK j \in 1..Len(toServer[b]) :
            /\ toServer' = [toServer EXCEPT ![b] = SubSeq(toServer[b], j + 1, Len(toServer[b]))]
            /\ \/ /\ "Subscribe" \in {toServer[b][i] : i \in 1..j}
                  /\ mEvents' = [mEvents EXCEPT ![b] = Subscribed(b)]
                  /\ mConnected' = mConnected \cup {b}
               \/ /\ "Subscribe" \notin {toServer[b][i] : i \in 1..j}
                  /\ UNCHANGED <<mEvents, mConnected>>
      BY <2>9 DEF ReadClient
    <3>3. \A c \in Conn \ {b} : toServer'[c] = toServer[c]
      BY <3>2 DEF NetworkTypeOK
    <3>4. CASE "Subscribe" \in {toServer[b][i] : i \in 1..j}
      <4>1. /\ mEvents'[b] = Inputs[Client(b)] \cap Outputs[Server(b)]
            /\ \A c \in Conn \ {b} : mEvents'[c] = mEvents[c]
        BY <3>2, <3>4 DEF NetworkTypeOK, Subscribed
      <4> QED
        BY <2>0, <3>0, <3>1, <3>2, <3>3, <3>4, <4>1 DEF SubscribeInv, SubscriptionKept
    <3>5. CASE "Subscribe" \notin {toServer[b][i] : i \in 1..j}
      <4>1. Asks(toServer[b]) => Asks(toServer'[b])
        BY <3>2, <3>5, AsksRest DEF NetworkTypeOK
      <4> QED
        BY <2>0, <3>0, <3>2, <3>3, <3>5, <4>1, KeptUnless
    <3> QED
      BY <3>4, <3>5
  <2>10. ASSUME NEW n \in Node, NEW c \in Conn, EofClient(n, c) PROVE SubscribeInv'
    <3>1. /\ UNCHANGED <<backlog, made, mEvents, clientEnd>>
          /\ clients' = clients \ {c} /\ mConnected' = mConnected \ {c}
          /\ toServer' = Emptied(toServer, {c})
      BY <2>10 DEF EofClient, CloseServerEnds
    <3>2. c \notin clientEnd /\ \A d \in Conn \ {c} : toServer'[d] = toServer[d]
      BY <2>10, <3>1, EmptiedAsks DEF EofClient
    <3> QED
      BY <2>0, <3>1, <3>2, KeptUnless
  <2>11. ASSUME NEW n \in Node, Start(n) PROVE SubscribeInv'
    <3>1. /\ UNCHANGED <<backlog, made, mEvents, clientEnd, toServer>>
          /\ clients' = clients \ ClientSockets(n)
          /\ mConnected' = mConnected \ ClientSockets(n)
      BY <2>11 DEF Start, tcp
    <3> QED
      BY <3>1, KeptUnless
  <2>12. ASSUME NEW n \in Node, StopJoin(n) PROVE SubscribeInv'
    <3> DEFINE waiting == {c \in backlog : Server(c) = n}
    <3>1. /\ UNCHANGED <<clients, made, mEvents, mConnected, clientEnd>>
          /\ backlog' = backlog \ waiting /\ toServer' = Emptied(toServer, waiting)
      BY <2>12 DEF StopJoin, CloseServerEnds
    <3>2. \A c \in clients' \cup backlog' : toServer'[c] = toServer[c]
      BY <2>0, <3>1, EmptiedAsks DEF SubscribeInv
    <3> QED
      BY <3>1, <3>2, KeptUnless
  <2>13. ASSUME NEW n \in Node, Reset(n) PROVE SubscribeInv'
    <3>1. UNCHANGED <<clients, backlog, made, mEvents, mConnected, clientEnd>>
      BY <2>13 DEF Reset
    <3>2. PICK C : toServer' = Send(toServer, C, serverEnd', "ResetRequest")
      BY <2>13 DEF Reset, SendToServer
    <3>3. \A c \in Conn : Asks(toServer[c]) => Asks(toServer'[c])
      BY <3>2, AsksSend, MessageTypes
    <3> QED
      BY <2>0, <3>1, <3>3, KeptUnless
  <2>14. ASSUME NEW n \in Node, Crash(n) PROVE SubscribeInv'
    <3> DEFINE waiting == {c \in backlog : Server(c) = n}
    <3> DEFINE owned == ClientSockets(n) \cup waiting
    <3>1. /\ clients' = clients \ owned /\ mConnected' = mConnected \ owned
          /\ backlog' = backlog \ waiting /\ UNCHANGED <<made, mEvents>>
          /\ clientEnd' \subseteq clientEnd
          /\ toServer' = toServer \/ toServer' = Emptied(toServer, owned)
      BY <2>14 DEF Crash, CloseServerEnds
    <3>2. \A c \in clients' \cup backlog' : c \in Conn \ owned
      BY <2>0, <3>1 DEF SubscribeInv, ClientSockets
    <3>3. \A c \in clients' \cup backlog' : toServer'[c] = toServer[c]
      BY <3>1, <3>2, EmptiedAsks
    <3> QED
      BY <3>1, <3>2, <3>3, KeptUnless
  <2>15. ASSUME NEW b \in Conn, PeerReset(b) PROVE SubscribeInv'
    <3>1. /\ UNCHANGED <<clients, backlog, made, mEvents, mConnected>>
          /\ clientEnd' \subseteq clientEnd
          /\ \/ toServer' = toServer
             \/ toServer' = Emptied(toServer, {b}) /\ b \notin clientEnd
             \/ toServer' = Emptied(toServer, {b}) /\ b \notin clients \cup backlog
      BY <2>15 DEF PeerReset, CloseClientEnds, CloseServerEnds, device
    <3>2. \A c \in (clients \cup backlog) \cap clientEnd : toServer'[c] = toServer[c]
      BY <2>0, <3>1, EmptiedAsks
    <3> QED
      BY <3>1, <3>2, KeptUnless
  <2>16. CASE UNCHANGED vars
    <3>1. UNCHANGED <<clients, backlog, made, mEvents, mConnected, clientEnd, toServer>>
      BY <2>16 DEF vars, device, tcp
    <3> QED
      BY <3>1, KeptUnless
  <2> QED
    BY <2>1, <2>2, <2>3, <2>4, <2>5, <2>6, <2>7, <2>8, <2>9, <2>10, <2>11, <2>12,
       <2>13, <2>14, <2>15, <2>16 DEF Next, Listen, Application
<1> QED
  BY <1>1, <1>2, NetworkTypeCorrect, PTL DEF Spec

\* No subscription is lost, for any number of nodes, connections, crashes, stops and
\* resets: a client that is connected and accepted has its subscription, or the
\* request is under way.
THEOREM SubscriptionCorrect == Spec => []SubscriptionKept
<1>1. SubscribeInv => SubscriptionKept
  BY DEF SubscribeInv
<1> QED
  BY <1>1, SubscribeCorrect, PTL
------------------------------------------------------------------------------
(* Sockets, as long as no host vanishes with its ends open. The number that *)
(* a client records is that of its open end, or of the one that the thread  *)
(* has closed and is about to clear.                                        *)
Lost(n, m) == mServerSocket[n][m] > 0 /\ Socket(n, m) \notin clientEnd

NodeInv(n) ==
    /\ mState[n] = "Down" <=> pc[n] = "off"
    /\ pc[n] = "connect" => \A m \in todo[n] : mServerSocket[n][m] = 0
    /\ \A m \in Node : Lost(n, m) => pc[n] = "eof"
    /\ \A m, k \in Node : Lost(n, m) /\ Lost(n, k) => k = m
    /\ pc[n] \in {"off", "stopped"} =>
          (\A m \in Node : mServerSocket[n][m] = 0) /\ (\A c \in clients : Server(c) # n)
    /\ pc[n] = "off" => \A c \in backlog : Server(c) # n

EndInv ==
    /\ \A c \in clientEnd : c[3] = mServerSocket[Client(c)][Server(c)]
    /\ serverEnd = backlog \cup clients

SocketInv == EndInv /\ \A n \in Node : NodeInv(n)

\* The socket recorded for a server is a connection of the two.
LEMMA SocketParts ==
  ASSUME NEW n, NEW m
  PROVE  Client(Socket(n, m)) = n /\ Server(Socket(n, m)) = m
BY DEF Socket, Client, Server

\* A connection whose client end is open is the one that the client has recorded.
LEMMA OpenRecorded ==
  ASSUME NetworkTypeOK, EndInv, NEW c \in clientEnd
  PROVE  /\ c = Socket(Client(c), Server(c))
         /\ mServerSocket[Client(c)][Server(c)] > 0
         /\ c \in ServerSockets(Client(c))
<1>1. c \in Conn /\ Client(c) \in Node /\ Server(c) \in Node /\ c[3] \in 1..MaxConn
  BY ConnType DEF NetworkTypeOK
<1>2. c = <<Client(c), Server(c), c[3]>> /\ c[3] = mServerSocket[Client(c)][Server(c)]
  BY <1>1, ConnType DEF EndInv
<1>3. c[3] > 0
  BY <1>1, BoundAssumption
<1> QED
  BY <1>1, <1>2, <1>3 DEF Socket, ServerSockets

\* What the property says follows from the invariant.
LEMMA Recorded == NetworkTypeOK /\ SubscribeInv /\ SocketInv => SocketsRecorded
<1> SUFFICES ASSUME NetworkTypeOK, SubscribeInv, SocketInv PROVE SocketsRecorded
  OBVIOUS
<1>1. ASSUME NEW n \in Node, NEW c \in clientEnd, Client(c) = n PROVE c \in ServerSockets(n)
  BY <1>1, OpenRecorded DEF SocketInv
<1>2. ASSUME NEW n \in Node, pc[n] # "eof" PROVE ServerSockets(n) \subseteq clientEnd
  BY <1>2 DEF SocketInv, NodeInv, Lost, ServerSockets
<1>3. ASSUME NEW n \in Node PROVE Cardinality(ServerSockets(n) \ clientEnd) <= 1
  <2> DEFINE missing == ServerSockets(n) \ clientEnd
  <2>1. ASSUME NEW c \in missing, NEW d \in missing PROVE c = d
    BY DEF SocketInv, NodeInv, Lost, ServerSockets
  <2>2. CASE missing = {}
    BY <2>2, FS_EmptySet
  <2>3. CASE missing # {}
    <3>1. PICK c \in missing : TRUE
      BY <2>3
    <3>2. missing = {c}
      BY <2>1, <3>1
    <3> HIDE DEF missing
    <3>3. Cardinality(missing) = 1
      BY <3>2, FS_Singleton
    <3> QED
      BY <3>3 DEF missing
  <2> QED
    BY <2>2, <2>3
<1>4. ASSUME NEW n \in Node, pc[n] \in {"off", "stopped"}
      PROVE  ServerSockets(n) = {} /\ ClientSockets(n) = {}
  BY <1>4 DEF SocketInv, NodeInv, ServerSockets, ClientSockets
<1>5. ASSUME NEW n \in Node, pc[n] = "off" PROVE \A c \in serverEnd : Server(c) # n
  BY <1>5 DEF SocketInv, NodeInv, EndInv
<1>6. serverEnd = backlog \cup clients /\ backlog \cap clients = {}
  BY DEF SocketInv, EndInv, SubscribeInv
<1> QED
  BY <1>1, <1>2, <1>3, <1>4, <1>5, <1>6 DEF SocketsRecorded

\* A step that opens and closes no socket, in which threads neither begin to connect,
\* nor end, nor leave the handling of eof.
LEMMA SocketsKept ==
  ASSUME SocketInv, UNCHANGED <<mServerSocket, clientEnd, serverEnd, backlog, clients>>,
         \A x \in Node :
            /\ mState'[x] = "Down" <=> mState[x] = "Down"
            /\ \/ pc'[x] = pc[x] /\ todo'[x] \subseteq todo[x]
               \/ /\ pc[x] \notin {"off", "stopped", "eof"}
                  /\ pc'[x] \notin {"off", "stopped", "connect"}
  PROVE  SocketInv'
<1>1. EndInv'
  BY DEF SocketInv, EndInv
<1>2. \A n, m : Lost(n, m)' <=> Lost(n, m)
  BY DEF Lost, Socket
<1>3. ASSUME NEW n \in Node PROVE NodeInv(n)'
  BY <1>2 DEF SocketInv, NodeInv
<1> QED
  BY <1>1, <1>3 DEF SocketInv

\* The end of a listen thread closes the sockets that it has recorded.
LEMMA TerminateCloses ==
  ASSUME NetworkTypeOK, SubscribeInv, SocketInv, NEW n \in Node, pc[n] \notin {"off", "eof"},
         NEW also \in SUBSET backlog, Terminate(n, also)
  PROVE  SocketInv'
<1>1. /\ clients' = clients \ ClientSockets(n) /\ backlog' = backlog \ also
      /\ serverEnd' = serverEnd \ (ClientSockets(n) \cup also)
      /\ clientEnd' = clientEnd \ ServerSockets(n)
      /\ mServerSocket' = [mServerSocket EXCEPT ![n] = [m \in Node |-> 0]]
      /\ pc' = [pc EXCEPT ![n] = "stopped"]
      /\ UNCHANGED <<mState, todo>>
  BY DEF Terminate, CloseClientEnds, CloseServerEnds
<1>2. \A m \in Node : mServerSocket'[n][m] = 0
  BY <1>1 DEF NetworkTypeOK
<1>3. \A x \in Node \ {n} : mServerSocket'[x] = mServerSocket[x]
  BY <1>1 DEF NetworkTypeOK
<1>4. \A c \in clientEnd' : c \in clientEnd /\ Client(c) \in Node \ {n}
  BY <1>1, OpenRecorded, ConnType DEF NetworkTypeOK, SocketInv
<1>5. EndInv'
  <2>1. \A c \in clientEnd' : c[3] = mServerSocket'[Client(c)][Server(c)]
    BY <1>3, <1>4 DEF SocketInv, EndInv
  <2>2. serverEnd' = backlog' \cup clients'
    BY <1>1 DEF SocketInv, EndInv, SubscribeInv, ClientSockets
  <2> QED
    BY <2>1, <2>2 DEF EndInv
<1>6. ASSUME NEW x \in Node, x # n PROVE NodeInv(x)'
  <2>1. \A m \in Node : Socket(x, m)' = Socket(x, m) /\ Socket(x, m) \notin ServerSockets(n)
    BY <1>3, <1>6 DEF Socket, ServerSockets
  <2>2. \A m \in Node : Lost(x, m)' <=> Lost(x, m)
    BY <1>1, <1>3, <1>6, <2>1 DEF Lost
  <2>3. pc'[x] = pc[x]
    BY <1>1, <1>6 DEF NetworkTypeOK
  <2> QED
    BY <1>1, <1>3, <1>6, <2>2, <2>3 DEF SocketInv, NodeInv
<1>7. NodeInv(n)'
  <2>1. pc'[n] = "stopped"
    BY <1>1 DEF NetworkTypeOK
  <2>2. \A c \in clients' : Server(c) # n
    BY <1>1 DEF ClientSockets
  <2>3. \A m \in Node : ~Lost(n, m)'
    BY <1>2 DEF Lost
  <2> QED
    BY <1>1, <1>2, <2>1, <2>2, <2>3 DEF SocketInv, NodeInv
<1> QED
  BY <1>5, <1>6, <1>7 DEF SocketInv

LEMMA ConnectKeeps ==
  ASSUME NetworkTypeOK, SubscribeInv, SocketInv, NEW n \in Node, NEW m \in Node,
         Connect(n, m)
  PROVE  SocketInv'
<1>0. /\ pc[n] = "connect" /\ m \in todo[n] /\ UNCHANGED <<mState, clients>>
      /\ todo' = [todo EXCEPT ![n] = @ \ {m}]
      /\ pc' = [pc EXCEPT ![n] = IF todo[n] = {m} THEN "select" ELSE "connect"]
  BY DEF Connect
<1>1. /\ \A x \in Node : todo'[x] \subseteq todo[x]
      /\ \A x \in Node \ {n} : pc'[x] = pc[x]
      /\ pc'[n] = "select" \/ pc'[n] = "connect"
  BY <1>0 DEF NetworkTypeOK
<1>2. CASE ~Listening(m)
  <2>1. UNCHANGED <<mServerSocket, clientEnd, serverEnd, backlog, clients>>
    BY <1>2 DEF Connect
  <2> QED
    BY <1>0, <1>1, <2>1, SocketsKept
<1>3. CASE Listening(m)
  <2> DEFINE k == made[n][m] + 1
  <2> DEFINE b == <<n, m, k>>
  <2>1. /\ k <= MaxConn
        /\ mServerSocket' = [mServerSocket EXCEPT ![n][m] = k]
        /\ clientEnd' = clientEnd \cup {b}
        /\ serverEnd' = serverEnd \cup {b}
        /\ backlog' = backlog \cup {b}
    BY <1>3 DEF Connect
  <2>2. n # m /\ k \in 1..MaxConn /\ mServerSocket[n][m] = 0
    <3>1. made[n][m] \in 0..MaxConn /\ n \notin todo[n]
      BY DEF NetworkTypeOK
    <3>2. mServerSocket[n][m] = 0
      BY <1>0 DEF SocketInv, NodeInv
    <3> QED
      BY <1>0, <2>1, <3>1, <3>2, BoundAssumption
  <2>3. /\ mServerSocket'[n][m] = k
        /\ \A x, y \in Node : x # n \/ y # m => mServerSocket'[x][y] = mServerSocket[x][y]
    BY <2>1 DEF NetworkTypeOK
  <2>4. Client(b) = n /\ Server(b) = m /\ b[3] = k
    BY DEF Client, Server
  <2> HIDE DEF k, b
  <2>5. EndInv'
    <3>1. ASSUME NEW c \in clientEnd PROVE c[3] = mServerSocket'[Client(c)][Server(c)]
      <4>1. Client(c) \in Node /\ Server(c) \in Node
        BY ConnType DEF NetworkTypeOK
      <4>2. /\ c[3] = mServerSocket[Client(c)][Server(c)]
            /\ mServerSocket[Client(c)][Server(c)] > 0
        BY OpenRecorded DEF SocketInv, EndInv
      <4> QED
        BY <2>2, <2>3, <4>1, <4>2
    <3> QED
      BY <1>0, <2>1, <2>3, <2>4, <3>1 DEF SocketInv, EndInv
  <2>6. \A x, y \in Node : Lost(x, y)' => Lost(x, y)
    <3> SUFFICES ASSUME NEW x \in Node, NEW y \in Node, Lost(x, y)' PROVE Lost(x, y)
      OBVIOUS
    <3>1. CASE x # n \/ y # m
      BY <2>1, <2>3, <3>1 DEF Lost, Socket
    <3>2. CASE x = n /\ y = m
      <4>1. Socket(x, y)' = b
        BY <2>3, <3>2 DEF Socket, b
      <4> QED
        BY <2>1, <4>1 DEF Lost
    <3> QED
      BY <3>1, <3>2
  <2>7. \A y \in todo'[n] : mServerSocket'[n][y] = 0
    <3>1. \A y \in todo'[n] : y \in Node /\ y # m /\ mServerSocket[n][y] = 0
      BY <1>0 DEF NetworkTypeOK, SocketInv, NodeInv
    <3> QED
      BY <2>3, <3>1
  <2>8. mState[m] # "Down" /\ pc[m] # "off"
    BY <1>3 DEF Listening, SocketInv, NodeInv
  <2>9. ASSUME NEW x \in Node PROVE NodeInv(x)'
    <3>1. CASE x = n
      <4>1. pc[n] # "off" /\ pc'[n] \notin {"off", "stopped", "eof"}
        BY <1>0, <1>1
      <4>2. \A y \in Node : ~Lost(n, y)
        BY <1>0 DEF SocketInv, NodeInv
      <4> QED
        BY <1>0, <2>6, <2>7, <3>1, <4>1, <4>2 DEF SocketInv, NodeInv
    <3>2. CASE x # n
      <4>1. /\ pc'[x] = pc[x] /\ todo'[x] \subseteq todo[x] /\ todo[x] \subseteq Node
            /\ \A y \in Node : mServerSocket'[x][y] = mServerSocket[x][y]
        BY <1>1, <2>3, <3>2 DEF NetworkTypeOK
      <4>2. pc[x] = "off" => \A c \in backlog' : Server(c) # x
        BY <2>1, <2>4, <2>8 DEF SocketInv, NodeInv
      <4> QED
        BY <1>0, <2>6, <4>1, <4>2 DEF SocketInv, NodeInv
    <3> QED
      BY <3>1, <3>2
  <2> QED
    BY <2>5, <2>9 DEF SocketInv
<1> QED
  BY <1>2, <1>3

LEMMA EofServerKeeps ==
  ASSUME NetworkTypeOK, SocketInv, NEW n \in Node, NEW m \in Node, EofServer(n, m)
  PROVE  SocketInv'
<1> DEFINE b == Socket(n, m)
<1>1. /\ pc[n] = "handle" /\ b \in ready[n] /\ {mListenSocket, mBroadcastSocket} \cap ready[n] = {}
      /\ clientEnd' = clientEnd \ {b} /\ pc' = [pc EXCEPT ![n] = "eof"]
      /\ UNCHANGED <<mState, todo, mServerSocket, serverEnd, backlog, clients>>
  BY DEF EofServer, ServerTurn, CloseClientEnds, device
<1>2. Client(b) = n /\ Server(b) = m
  BY SocketParts
<1>3. EndInv'
  BY <1>1 DEF SocketInv, EndInv
<1>4. \A x, y : Lost(x, y)' => Lost(x, y) \/ Socket(x, y) = b
  BY <1>1 DEF Lost, Socket
<1>5. ASSUME NEW x \in Node PROVE NodeInv(x)'
  <2>1. CASE x = n
    <3>1. pc'[n] = "eof" /\ pc[n] = "handle"
      BY <1>1 DEF NetworkTypeOK
    <3>2. \A y \in Node : ~Lost(n, y)
      BY <3>1 DEF SocketInv, NodeInv
    <3>3. \A y \in Node : Lost(n, y)' => y = m
      BY <1>2, <1>4, <3>2, SocketParts
    <3> HIDE DEF b
    <3> QED
      BY <1>1, <2>1, <3>1, <3>3 DEF SocketInv, NodeInv
  <2>2. CASE x # n
    <3>1. pc'[x] = pc[x]
      BY <1>1, <2>2 DEF NetworkTypeOK
    <3>2. \A y \in Node : Lost(x, y)' => Lost(x, y)
      BY <1>2, <1>4, <2>2, SocketParts
    <3> HIDE DEF b
    <3> QED
      BY <1>1, <3>1, <3>2 DEF SocketInv, NodeInv
  <2> QED
    BY <2>1, <2>2
<1> QED
  BY <1>3, <1>5 DEF SocketInv

LEMMA ClearSocketKeeps ==
  ASSUME NetworkTypeOK, SocketInv, NEW n \in Node, NEW m \in Node, ClearSocket(n, m)
  PROVE  SocketInv'
<1>1. /\ pc[n] = "eof" /\ Lost(n, m)
      /\ mServerSocket' = [mServerSocket EXCEPT ![n][m] = 0]
      /\ pc' = [pc EXCEPT ![n] = IF ready[n] = {} THEN "scan" ELSE "handle"]
      /\ UNCHANGED <<mState, todo, clientEnd, serverEnd, backlog, clients>>
  BY DEF ClearSocket, Lost, tcp
<1>2. /\ mServerSocket'[n][m] = 0
      /\ \A x, y \in Node : x # n \/ y # m => mServerSocket'[x][y] = mServerSocket[x][y]
  BY <1>1 DEF NetworkTypeOK
<1>3. \A c \in clientEnd : c[3] = mServerSocket'[Client(c)][Server(c)]
  <2> SUFFICES ASSUME NEW c \in clientEnd PROVE c[3] = mServerSocket'[Client(c)][Server(c)]
    OBVIOUS
  <2>1. Client(c) \in Node /\ Server(c) \in Node
    BY ConnType DEF NetworkTypeOK
  <2>2. Client(c) # n \/ Server(c) # m
    BY <1>1, OpenRecorded DEF SocketInv, Lost
  <2> QED
    BY <1>2, <2>1, <2>2 DEF SocketInv, EndInv
<1>4. \A x, y \in Node : Lost(x, y)' => Lost(x, y) /\ (x # n \/ y # m)
  BY <1>1, <1>2 DEF Lost, Socket
<1>5. ASSUME NEW x \in Node PROVE NodeInv(x)'
  <2>1. CASE x = n
    <3>1. pc'[n] = "scan" \/ pc'[n] = "handle"
      BY <1>1 DEF NetworkTypeOK
    <3>2. \A y \in Node : ~Lost(n, y)'
      BY <1>1, <1>4 DEF SocketInv, NodeInv
    <3> QED
      BY <1>1, <2>1, <3>1, <3>2 DEF SocketInv, NodeInv
  <2>2. CASE x # n
    <3>1. pc'[x] = pc[x] /\ todo[x] \subseteq Node
      BY <1>1, <2>2 DEF NetworkTypeOK
    <3> QED
      BY <1>1, <1>2, <1>4, <2>2, <3>1 DEF SocketInv, NodeInv
  <2> QED
    BY <2>1, <2>2
<1> QED
  BY <1>1, <1>3, <1>5 DEF SocketInv, EndInv

\* A client is accepted, or is gone: it leaves the backlog for the clients, or the clients
\* and the server ends.
LEMMA ClientsKeep ==
  ASSUME NetworkTypeOK, SubscribeInv, SocketInv, NEW n \in Node, pc[n] = "handle",
         NEW s, Handled(n, s), NEW c, Server(c) = n,
         UNCHANGED <<mState, todo, mServerSocket, clientEnd>>,
         \/ /\ c \in backlog /\ backlog' = backlog \ {c} /\ clients' = clients \cup {c}
            /\ serverEnd' = serverEnd
         \/ /\ c \in clients /\ backlog' = backlog /\ clients' = clients \ {c}
            /\ serverEnd' = serverEnd \ {c}
  PROVE  SocketInv'
<1>1. EndInv'
  <2>1. serverEnd' = backlog' \cup clients'
    BY DEF SocketInv, EndInv, SubscribeInv
  <2> QED
    BY <2>1 DEF SocketInv, EndInv
<1>2. \A x, y : Lost(x, y)' <=> Lost(x, y)
  BY DEF Lost, Socket
<1>3. /\ pc'[n] = "scan" \/ pc'[n] = "handle"
      /\ \A x \in Node \ {n} : pc'[x] = pc[x]
  BY DEF Handled, NetworkTypeOK
<1>4. ASSUME NEW x \in Node PROVE NodeInv(x)'
  <2>1. CASE x = n
    BY <1>2, <1>3, <2>1 DEF SocketInv, NodeInv
  <2>2. CASE x # n
    BY <1>2, <1>3, <2>2 DEF SocketInv, NodeInv
  <2> QED
    BY <2>1, <2>2
<1> QED
  BY <1>1, <1>4 DEF SocketInv

LEMMA StartKeeps ==
  ASSUME NetworkTypeOK, SocketInv, NEW n \in Node, Start(n)
  PROVE  SocketInv'
<1>1. /\ mState[n] = "Down" /\ mState' = [mState EXCEPT ![n] = "StartUp"]
      /\ mServerSocket' = [mServerSocket EXCEPT ![n] = [m \in Node |-> 0]]
      /\ clients' = clients \ ClientSockets(n)
      /\ pc' = [pc EXCEPT ![n] = "scan"]
      /\ UNCHANGED <<todo, clientEnd, serverEnd, backlog>>
  BY DEF Start, tcp
<1>2. /\ pc[n] = "off" /\ (\A m \in Node : mServerSocket[n][m] = 0) /\ clients' = clients
  BY <1>1 DEF SocketInv, NodeInv, ClientSockets
<1>3. mServerSocket' = mServerSocket
  BY <1>1, <1>2 DEF NetworkTypeOK
<1>4. EndInv'
  BY <1>1, <1>2, <1>3 DEF SocketInv, EndInv
<1>5. \A x, y : Lost(x, y)' <=> Lost(x, y)
  BY <1>1, <1>3 DEF Lost, Socket
<1>6. /\ pc'[n] = "scan" /\ mState'[n] = "StartUp"
      /\ \A x \in Node \ {n} : pc'[x] = pc[x] /\ mState'[x] = mState[x]
  BY <1>1 DEF NetworkTypeOK
<1>7. ASSUME NEW x \in Node PROVE NodeInv(x)'
  <2>1. CASE x = n
    BY <1>2, <1>5, <1>6, <2>1 DEF SocketInv, NodeInv
  <2>2. CASE x # n
    BY <1>1, <1>2, <1>3, <1>5, <1>6, <2>2 DEF SocketInv, NodeInv
  <2> QED
    BY <2>1, <2>2
<1> QED
  BY <1>4, <1>7 DEF SocketInv

LEMMA StopJoinKeeps ==
  ASSUME NetworkTypeOK, SubscribeInv, SocketInv, NEW n \in Node, StopJoin(n)
  PROVE  SocketInv'
<1> DEFINE waiting == {c \in backlog : Server(c) = n}
<1>1. /\ pc[n] = "stopped" /\ pc' = [pc EXCEPT ![n] = "off"]
      /\ mState' = [mState EXCEPT ![n] = "Down"]
      /\ backlog' = backlog \ waiting /\ serverEnd' = serverEnd \ waiting
      /\ UNCHANGED <<todo, mServerSocket, clientEnd, clients>>
  BY DEF StopJoin, CloseServerEnds
<1>2. EndInv'
  <2>1. serverEnd' = backlog' \cup clients'
    BY <1>1 DEF SocketInv, EndInv, SubscribeInv
  <2> QED
    BY <1>1, <2>1 DEF SocketInv, EndInv
<1>3. \A x, y : Lost(x, y)' <=> Lost(x, y)
  BY <1>1 DEF Lost, Socket
<1>4. /\ pc'[n] = "off" /\ mState'[n] = "Down"
      /\ \A x \in Node \ {n} : pc'[x] = pc[x] /\ mState'[x] = mState[x]
  BY <1>1 DEF NetworkTypeOK
<1>5. \A c \in backlog' : c \in backlog /\ Server(c) # n
  BY <1>1
<1> HIDE DEF waiting
<1>6. ASSUME NEW x \in Node PROVE NodeInv(x)'
  <2>1. CASE x = n
    <3>1. \A m \in Node : ~Lost(n, m)
      BY <1>1 DEF SocketInv, NodeInv
    <3> QED
      BY <1>1, <1>3, <1>4, <1>5, <2>1, <3>1 DEF SocketInv, NodeInv
  <2>2. CASE x # n
    BY <1>1, <1>3, <1>4, <1>5, <2>2 DEF SocketInv, NodeInv
  <2> QED
    BY <2>1, <2>2
<1> QED
  BY <1>2, <1>6 DEF SocketInv

\* A process that ends closes all of its sockets, if its host does not vanish.
LEMMA CrashKeeps ==
  ASSUME ~HostFails, NetworkTypeOK, SubscribeInv, SocketInv, NEW n \in Node, Crash(n)
  PROVE  SocketInv'
<1> DEFINE waiting == {c \in backlog : Server(c) = n}
<1> DEFINE owned == ClientSockets(n) \cup waiting
<1>1. /\ mState' = [mState EXCEPT ![n] = "Down"] /\ pc' = [pc EXCEPT ![n] = "off"]
      /\ todo' = [todo EXCEPT ![n] = {}]
      /\ mServerSocket' = [mServerSocket EXCEPT ![n] = [m \in Node |-> 0]]
      /\ clients' = clients \ owned /\ backlog' = backlog \ waiting
      /\ serverEnd' = serverEnd \ owned
      /\ clientEnd' = clientEnd \ ServerSockets(n)
  BY DEF Crash, CloseServerEnds
<1>2. \A m \in Node : mServerSocket'[n][m] = 0
  BY <1>1 DEF NetworkTypeOK
<1>3. \A x \in Node \ {n} : /\ mServerSocket'[x] = mServerSocket[x]
                            /\ pc'[x] = pc[x] /\ todo'[x] = todo[x] /\ mState'[x] = mState[x]
  BY <1>1 DEF NetworkTypeOK
<1>4. \A c \in clientEnd' : c \in clientEnd /\ Client(c) \in Node \ {n}
  BY <1>1, OpenRecorded, ConnType DEF NetworkTypeOK, SocketInv
<1>5. EndInv'
  <2>1. \A c \in clientEnd' : c[3] = mServerSocket'[Client(c)][Server(c)]
    BY <1>3, <1>4 DEF SocketInv, EndInv
  <2>2. serverEnd' = backlog' \cup clients'
    BY <1>1 DEF SocketInv, EndInv, SubscribeInv, ClientSockets
  <2> QED
    BY <2>1, <2>2 DEF EndInv
<1>6. /\ \A c \in clients' : c \in clients /\ Server(c) # n
      /\ \A c \in backlog' : c \in backlog /\ Server(c) # n
  BY <1>1 DEF ClientSockets
<1>7. \A x \in Node \ {n}, m \in Node : Lost(x, m)' <=> Lost(x, m)
  <2> SUFFICES ASSUME NEW x \in Node \ {n}, NEW m \in Node PROVE Lost(x, m)' <=> Lost(x, m)
    OBVIOUS
  <2>1. Socket(x, m)' = Socket(x, m) /\ Socket(x, m) \notin ServerSockets(n)
    BY <1>3 DEF Socket, ServerSockets
  <2> QED
    BY <1>1, <1>3, <2>1 DEF Lost
<1>8. \A m \in Node : ~Lost(n, m)'
  BY <1>2 DEF Lost
<1>9. pc'[n] = "off" /\ mState'[n] = "Down"
  BY <1>1 DEF NetworkTypeOK
<1> HIDE DEF waiting, owned
<1>10. ASSUME NEW x \in Node PROVE NodeInv(x)'
  <2>1. CASE x = n
    BY <1>2, <1>6, <1>8, <1>9, <2>1 DEF NodeInv
  <2>2. CASE x # n
    BY <1>3, <1>6, <1>7, <2>2 DEF SocketInv, NodeInv
  <2> QED
    BY <2>1, <2>2
<1> QED
  BY <1>5, <1>10 DEF SocketInv

LEMMA ScanKeeps ==
  ASSUME NetworkTypeOK, SocketInv, NEW n \in Node, Scan(n)
  PROVE  SocketInv'
<1> DEFINE servermis == MissingServers(n)
<1>1. PICK state \in {"Up", "StartUp", mState[n]} : mState' = [mState EXCEPT ![n] = state]
  BY DEF Scan
<1>2. /\ pc[n] = "scan" /\ todo' = [todo EXCEPT ![n] = servermis \ Unknown(n)]
      /\ pc' = [pc EXCEPT ![n] = IF servermis \subseteq Unknown(n) THEN "select" ELSE "connect"]
      /\ UNCHANGED <<mServerSocket, clientEnd, serverEnd, backlog, clients>>
  BY DEF Scan, tcp
<1>3. \A m \in servermis \ Unknown(n) : mServerSocket[n][m] = 0
  BY DEF MissingServers
<1>4. todo'[n] = servermis \ Unknown(n)
  BY <1>2 DEF NetworkTypeOK
<1> HIDE DEF servermis
<1>5. mState[n] # "Down" /\ mState'[n] # "Down"
  BY <1>1, <1>2 DEF SocketInv, NodeInv, NetworkTypeOK
<1>6. /\ pc'[n] \in {"select", "connect"}
      /\ \A x \in Node \ {n} : pc'[x] = pc[x] /\ todo'[x] = todo[x] /\ mState'[x] = mState[x]
  BY <1>1, <1>2 DEF NetworkTypeOK
<1>7. \A x, y : Lost(x, y)' <=> Lost(x, y)
  BY <1>2 DEF Lost, Socket
<1>8. ASSUME NEW x \in Node PROVE NodeInv(x)'
  <2>1. CASE x = n
    BY <1>2, <1>3, <1>4, <1>5, <1>6, <1>7, <2>1 DEF SocketInv, NodeInv
  <2>2. CASE x # n
    BY <1>2, <1>6, <1>7, <2>2 DEF SocketInv, NodeInv
  <2> QED
    BY <2>1, <2>2
<1> QED
  BY <1>2, <1>8 DEF SocketInv, EndInv

LEMMA SocketStep ==
  ASSUME ~HostFails, NetworkTypeOK, SubscribeInv, SocketInv, [Next]_vars
  PROVE  SocketInv'
<1>1. ASSUME NEW n \in Node, Select(n) PROVE SocketInv'
  <2>1. CASE n \in mStopListen
    <3>1. pc[n] = "select" /\ Terminate(n, {})
      BY <1>1, <2>1 DEF Select
    <3> QED
      BY <3>1, TerminateCloses
  <2>2. CASE n \notin mStopListen
    <3>1. /\ pc[n] = "select" /\ UNCHANGED <<device, todo, tcp>>
          /\ pc' = [pc EXCEPT ![n] = IF Readable(n) = {} THEN "scan" ELSE "handle"]
      BY <1>1, <2>2 DEF Select
    <3>2. \A x \in Node : \/ pc'[x] = pc[x]
                          \/ pc[x] = "select" /\ (pc'[x] = "scan" \/ pc'[x] = "handle")
      BY <3>1 DEF NetworkTypeOK
    <3> QED
      BY <3>1, <3>2, SocketsKept DEF device, tcp
  <2> QED
    BY <2>1, <2>2
<1>2. ASSUME NEW n \in Node, AcceptFails(n) PROVE SocketInv'
  <2>1. PICK also \in SUBSET backlog : Terminate(n, also)
    BY <1>2 DEF AcceptFails
  <2>2. pc[n] = "handle"
    BY <1>2 DEF AcceptFails, AcceptTurn
  <2> QED
    BY <2>1, <2>2, TerminateCloses
<1>3. ASSUME NEW n \in Node, Accept(n) PROVE SocketInv'
  <2>1. PICK c \in backlog : /\ Server(c) = n /\ backlog' = backlog \ {c}
                             /\ clients' = clients \cup {c} /\ UNCHANGED clientEnd
    BY <1>3 DEF Accept
  <2>2. /\ pc[n] = "handle" /\ Handled(n, mListenSocket)
        /\ UNCHANGED <<mState, todo, mServerSocket, serverEnd>>
    BY <1>3 DEF Accept, AcceptTurn
  <2> QED
    BY <2>1, <2>2, ClientsKeep
<1>4. ASSUME NEW n \in Node, NEW c \in Conn, EofClient(n, c) PROVE SocketInv'
  <2>1. /\ c \in clients /\ backlog' = backlog /\ clients' = clients \ {c}
        /\ serverEnd' = serverEnd \ {c}
        /\ UNCHANGED <<mState, todo, mServerSocket, clientEnd>>
    BY <1>4 DEF EofClient, CloseServerEnds
  <2>2. pc[n] = "handle" /\ Handled(n, c) /\ c \in ready[n]
    BY <1>4 DEF EofClient, ClientTurn, ServerTurn
  <2>3. Server(c) = n
    BY <1>4 DEF EofClient, ClientTurn
  <2> QED
    BY <2>1, <2>2, <2>3, ClientsKeep
\* Handlers that open and close no socket
<1>5. ASSUME NEW n \in Node, NEW s, pc[n] = "handle", Handled(n, s),
             UNCHANGED <<mState, todo, mServerSocket, clientEnd, serverEnd, backlog, clients>>
      PROVE  SocketInv'
  <2>1. \A x \in Node : \/ pc'[x] = pc[x]
                        \/ pc[x] = "handle" /\ (pc'[x] = "scan" \/ pc'[x] = "handle")
    BY <1>5 DEF Handled, NetworkTypeOK
  <2> QED
    BY <1>5, <2>1, SocketsKept
<1>6. ASSUME NEW n \in Node, HandleUdp(n) PROVE SocketInv'
  <2>1. /\ pc[n] = "handle" /\ Handled(n, mBroadcastSocket)
        /\ UNCHANGED <<mState, todo, mServerSocket, clientEnd, serverEnd, backlog, clients>>
    BY <1>6 DEF HandleUdp, UdpTurn, tcp
  <2> QED
    BY <2>1, <1>5
<1>7. ASSUME NEW n \in Node, NEW m \in Node, ReadServer(n, m) PROVE SocketInv'
  <2>1. /\ pc[n] = "handle" /\ Handled(n, Socket(n, m))
        /\ UNCHANGED <<mState, todo, mServerSocket, clientEnd, serverEnd, backlog, clients>>
    BY <1>7 DEF ReadServer, ServerTurn
  <2> QED
    BY <2>1, <1>5
<1>8. ASSUME NEW n \in Node, NEW c \in Conn, ReadClient(n, c) PROVE SocketInv'
  <2>1. /\ pc[n] = "handle" /\ Handled(n, c)
        /\ UNCHANGED <<mState, todo, mServerSocket, clientEnd, serverEnd, backlog, clients>>
    BY <1>8 DEF ReadClient, ClientTurn, ServerTurn
  <2> QED
    BY <2>1, <1>5
\* Steps of nobody's thread that open and close no socket
<1>9. ASSUME UNCHANGED <<mState, pc, todo, mServerSocket, clientEnd, serverEnd, backlog, clients>>
      PROVE  SocketInv'
  BY <1>9, SocketsKept
<1>10. ASSUME NEW n \in Node,
              StopRequest(n) \/ Reset(n) \/ ReadInput(n) \/ ResetRequest(n) \/ BroadcastDue(n)
       PROVE  SocketInv'
  BY <1>9, <1>10 DEF StopRequest, Reset, ReadInput, ResetRequest, BroadcastDue, device, thread,
     tcp
<1>11. ASSUME NEW n \in Node, NEW e \in Event, WriteOutput(n, e) PROVE SocketInv'
  BY <1>9, <1>11 DEF WriteOutput, device, thread
\* No connection is left with an end that belongs to nobody.
<1>12. ASSUME NEW c \in Conn, PeerReset(c) PROVE SocketInv'
  <2>1. UNCHANGED <<device, thread, backlog>>
    BY <1>12 DEF PeerReset
  <2>2. c \in clientEnd => mServerSocket[Client(c)][Server(c)] = c[3]
    BY DEF SocketInv, EndInv
  <2>3. c \notin serverEnd \ (clients \cup backlog)
    BY DEF SocketInv, EndInv
  <2>4. UNCHANGED <<clientEnd, serverEnd>>
    BY <1>12, <2>2, <2>3 DEF PeerReset
  <2> QED
    BY <1>9, <2>1, <2>4 DEF device, thread
<1>13. CASE UNCHANGED vars
  BY <1>9, <1>13 DEF vars, device, thread, tcp
<1> QED
  BY <1>1, <1>2, <1>3, <1>4, <1>6, <1>7, <1>8, <1>10, <1>11, <1>12, <1>13, ScanKeeps,
     ConnectKeeps, EofServerKeeps, ClearSocketKeeps, StartKeeps, StopJoinKeeps, CrashKeeps
     DEF Next, Listen, Application

\* No socket is forgotten or closed twice, for any number of nodes, whatever order
\* threads, stops and crashes come in, as long as a host that ends closes its sockets.
THEOREM SocketsRecordedCorrect ==
  ASSUME ~HostFails
  PROVE  Spec => []SocketsRecorded
<1>1. Init => SocketInv
  BY DEF Init, SocketInv, EndInv, NodeInv, Lost
<1>2. NetworkTypeOK /\ SubscribeInv /\ SocketInv /\ [Next]_vars => SocketInv'
  BY SocketStep
<1> QED
  BY <1>1, <1>2, Recorded, NetworkTypeCorrect, SubscribeCorrect, PTL DEF Spec
==============================================================================
